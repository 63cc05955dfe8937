----------------------------- MODULE ActiveProofs -----------------------------
(***************************************************************************)
(* Theorems about the target of an attempt, for every tree, every plan and *)
(* every combination of faults: types; no path with all three names; the   *)
(* old object of a captured path is there until the attempt ends; an       *)
(* applied attempt left the planned tree; a restart is only refused for an *)
(* unconfirmed fact or an undone effect; and where no call fails, what is  *)
(* confirmed has been flushed. How an attempt ends is in RecoveryProofs.   *)
(***************************************************************************)
EXTENDS BackendProofs, FiniteSetTheorems

USE ActiveNamespaceAssumption, BackendAssumption

-----------------------------------------------------------------------------
(* The inductive invariant.                                                *)

Names == [leaf : Object \cup {Absent}, prepared : Object \cup {Absent},
          displaced : Object \cup {Absent}]

\* A recovery of the path, or in the end a discard, may have changed it.
Recovering(p) == undone[p] # "none" \/ (call.op = "recover" /\ call.path = p)

\* What is displaced is the old object, and what was published and not yet
\* recovered has the kind it should have.
Sound(p) ==
  /\ ~Contradictory(p)
  /\ fs[p].displaced # Absent =>
       plan.before[p] # Absent /\ SameOld(fs[p].displaced, plan.before[p])
  /\ effects[p] = "completed" /\ plan.effect[p] = "incoming" /\ ~Recovering(p) =>
       fs[p].leaf # Absent /\ fs[p].leaf.kind = plan.incoming[p].kind

BothDirs(object, other) == IsDir(object) /\ IsDir(other)

\* What the operation under way has found or made at each of its points.
Placed(p, op, at) ==
  /\ at \in {"prepare", "displace", "activate"} => op = "publish" /\ effects[p] = "attempted"
  /\ at = "take" => op = "remove"
  /\ at \in {"clean", "unpublish", "restore", "withdraw", "copy", "vacate", "install",
             "readmit"} => op = "recover"
  /\ at = "drop" => op = "discard"
  /\ at \in {"update", "finish_update"} =>
       /\ op \in {"publish", "recover"}
       /\ Clear(p)
       /\ BothDirs(fs[p].leaf, IF op = "publish" THEN plan.incoming[p] ELSE plan.before[p])
  /\ at = "prepare" => /\ Clear(p)
                       /\ Admitted(p)
                       /\ ~BothDirs(fs[p].leaf, plan.incoming[p])
  /\ at = "displace" => /\ fs[p].displaced = Absent
                        /\ Admitted(p) /\ fs[p].leaf # Absent
  /\ at = "activate" => /\ fs[p].leaf = Absent \/ fs[p].displaced = Absent
                        /\ p \in plan.captured => fs[p].leaf = Absent
  /\ at \in {"displace", "activate"} => fs[p].prepared = plan.incoming[p]
  /\ at = "take" => Clear(p) /\ Admitted(p)
  /\ at = "clean" /\ fs[p].displaced # Absent => fs[p].leaf = Absent
  /\ at \in {"unpublish", "restore"} => fs[p].displaced # Absent
  /\ at = "withdraw" => plan.before[p] = Absent
  /\ at = "copy" => Clear(p)
  /\ at \in {"copy", "vacate"} => ~BothDirs(fs[p].leaf, plan.before[p])
  /\ at = "vacate" => IsDir(fs[p].leaf)
  /\ at \in {"copy", "vacate", "install"} => p \in plan.captured
  /\ at \in {"vacate", "install"} => /\ fs[p].displaced = Absent
                                     /\ fs[p].prepared = plan.before[p]

\* An operation belongs to the phase and to what the engine wants of its path.
Issued ==
  call # NoCall =>
    /\ up = "up"
    /\ call.path \in Intended
    /\ call.op \in {"publish", "remove", "recover", "discard"}
    /\ call.op = "publish" => phase = "forward" /\ plan.effect[call.path] = "incoming"
    /\ call.op = "remove" => phase = "forward" /\ plan.effect[call.path] = "remove"
    /\ call.op = "recover" => phase = "recover" /\ undone[call.path] = "none"
    /\ call.op = "discard" => phase = "applied"
    /\ Placed(call.path, call.op, call.at)
    /\ call.at = "returned" => answer # "none"

\* Effects and results belong to intended paths; a directory is published before
\* anything in it, and recovered after it.
Ordered ==
  /\ \A p \in Path : effects[p] # "none" \/ terminal[p] # "none" => p \in Intended
  /\ Intended \subseteq Planned
  /\ \A p \in Path : turn[p] <= Cardinality(Intended)
  /\ \A p \in Intended : \A a \in Above[p] :
       plan.effect[a] = "incoming" => turn[a] > 0 /\ turn[a] < turn[p]
  /\ phase = "forward" => \A p \in Path : undone[p] = "none"
  /\ phase \in {"forward", "recover"} =>
       \A a, p \in Intended : Recovering(a) /\ turn[a] < turn[p] => undone[p] # "none"

\* A result on its way to the engine leaves no room for an operation, and a failed
\* one is of a store.
Exclusive ==
  /\ reply # NoReply => call = NoCall
  /\ reply.outcome = "failed" => phase = "forward" /\ reply.domain \in Early

ActiveInv ==
  /\ TypeOK
  /\ \A p \in Path : Sound(p)
  /\ Issued
  /\ Ordered
  /\ Exclusive

-----------------------------------------------------------------------------
(* What a change of one path's names does to the others.                   *)

\* The mtime of a directory is all that may have changed.
Alike(object, other) ==
  /\ object = Absent <=> other = Absent
  /\ object # Absent => object.kind = other.kind /\ object.value = other.value

KeepsNames(q) ==
  /\ fs'[q].prepared = fs[q].prepared
  /\ fs'[q].displaced = fs[q].displaced
  /\ Alike(fs'[q].leaf, fs[q].leaf)

LEMMA PlanTyped ==
  ASSUME TypeOK, NEW p \in Path
  PROVE  /\ plan.before[p] \in Object \cup {Absent}
         /\ plan.incoming[p] \in Object \cup {Absent}
         /\ plan.effect[p] \in {"none", "incoming", "remove"}
         /\ plan.captured \subseteq Path
         /\ plan.effect[p] = "incoming" <=> plan.incoming[p] # Absent
         /\ plan.effect[p] = "remove" => plan.before[p] # Absent
         /\ p \in plan.captured => plan.before[p] # Absent
         /\ plan.before[p] # Absent => plan.before[p].value = "old"
BY DEF TypeOK, Plan

LEMMA PathsAbove ==
  ASSUME NEW p \in Path
  PROVE  /\ Above[p] \subseteq Path /\ p \notin Above[p]
         /\ Parent[p] # p /\ Parent[p] \in Path \cup {Root}
<1>1. Above[p] \subseteq Path /\ p \notin Above[p] /\ Parent[p] \in Path \cup {Root}
  OBVIOUS
<1>2. Parent[p] # p
  <2>1. Parent[p] = Root \/ Parent[p] \in Above[p]
    OBVIOUS
  <2> QED BY <1>1, <2>1
<1> QED BY <1>1, <1>2

LEMMA MovedIsAlike ==
  ASSUME NEW object \in Object
  PROVE  /\ [object EXCEPT !.moved = TRUE] \in Object
         /\ Alike([object EXCEPT !.moved = TRUE], object)
<1>1. [object EXCEPT !.moved = TRUE] \in Object
  BY DEF Object
<1>2. /\ [object EXCEPT !.moved = TRUE].kind = object.kind
      /\ [object EXCEPT !.moved = TRUE].value = object.value
  BY DEF Object
<1> QED BY <1>1, <1>2 DEF Alike

LEMMA WithLeaf ==
  ASSUME NEW names \in Names, NEW object \in Object \cup {Absent}
  PROVE  /\ [names EXCEPT !.leaf = object] \in Names
         /\ [names EXCEPT !.leaf = object].leaf = object
         /\ [names EXCEPT !.leaf = object].prepared = names.prepared
         /\ [names EXCEPT !.leaf = object].displaced = names.displaced
BY DEF Names

LEMMA TreeKeeps ==
  ASSUME TypeOK, NEW p \in Path, NEW w \in Names, fs' = Tree(p, w)
  PROVE  /\ fs' \in [Path -> Names]
         /\ fs'[p] = w
         /\ \A q \in Path \ {p} : KeepsNames(q)
<1>1. fs \in [Path -> Names]
  BY DEF TypeOK, Names
<1>2. fs'[p] = w
  BY DEF Tree
<1>3. ASSUME NEW q \in Path \ {p}
      PROVE  fs'[q] \in Names /\ KeepsNames(q)
  <2>1. CASE fs'[q] = fs[q]
    BY <1>1, <2>1 DEF KeepsNames, Alike
  <2>2. CASE fs'[q] # fs[q]
    <3>1. IsDir(fs[q].leaf) /\ fs'[q] = [fs[q] EXCEPT !.leaf.moved = TRUE]
      BY <2>2 DEF Tree
    <3>2. fs[q] \in Names /\ fs[q].leaf \in Object
      BY <1>1, <3>1 DEF Names, IsDir
    <3>3. PICK object : object = [fs[q].leaf EXCEPT !.moved = TRUE]
      OBVIOUS
    <3>4. object \in Object /\ Alike(object, fs[q].leaf)
      BY <3>2, <3>3, MovedIsAlike
    <3>5. fs'[q] = [fs[q] EXCEPT !.leaf = object]
      BY <3>1, <3>2, <3>3 DEF Names
    <3>6. /\ fs'[q] \in Names /\ fs'[q].leaf = object
          /\ fs'[q].prepared = fs[q].prepared /\ fs'[q].displaced = fs[q].displaced
      BY <3>2, <3>4, <3>5, WithLeaf
    <3> QED BY <3>4, <3>6 DEF KeepsNames
  <2> QED BY <2>1, <2>2
<1>4. DOMAIN fs' = Path
  BY DEF Tree
<1>5. fs' = [q \in Path |-> fs'[q]]
  BY DEF Tree
<1> QED BY <1>2, <1>3, <1>4, <1>5

\* Such a path stays as sound as it was, and keeps its old object.
LEMMA KeptIsSound ==
  ASSUME TypeOK, NEW q \in Path, Sound(q), KeepsNames(q), plan' = plan,
         effects'[q] = effects[q], Recovering(q) => Recovering(q)'
  PROVE  /\ Sound(q)'
         /\ OldIsThere(q) => OldIsThere(q)'
<1>1. SameOld(fs[q].leaf, plan.before[q]) => SameOld(fs'[q].leaf, plan.before[q])
  BY DEF KeepsNames, Alike, SameOld
<1> QED BY <1>1 DEF Sound, Contradictory, Slot, KeepsNames, Alike, OldIsThere

-----------------------------------------------------------------------------
(* The steps of an operation that change its own path.                     *)

Calls == [op : {"none", "publish", "remove", "recover", "discard"},
          path : Path \cup {Root}, at : At]

Moved(p, point) ==
  /\ call' \in Calls /\ call'.path = p /\ call'.op = call.op /\ call'.at = point
  /\ plan' = plan /\ faults' = faults

\* What is left to show of such a step.
Own(p) ==
  /\ \E point \in At : Moved(p, point)
  /\ fs' \in [Path -> Names]
  /\ \A q \in Path \ {p} : KeepsNames(q)
  /\ Sound(p)'
  /\ Placed(call.path, call.op, call.at)'
  /\ p \in plan.captured /\ phase # "applied" /\ OldIsThere(p) => OldIsThere(p)'

LEMMA GotoMoves ==
  ASSUME TypeOK, NEW p \in Path, call.path = p, NEW point \in At, Goto(point)
  PROVE  Moved(p, point)
BY DEF TypeOK, Goto, Moved, Calls

LEMMA AnswerMoves ==
  ASSUME TypeOK, NEW p \in Path, call.path = p, NEW outcome, Answer(outcome)
  PROVE  Moved(p, "returned")
BY DEF TypeOK, Answer, Moved, Calls, At

\* A step that only answers.
LEMMA RefuseOwn ==
  ASSUME ActiveInv, NEW p \in Path, call.path = p, call # NoCall, UNCHANGED owner,
         NEW outcome, Refuse(outcome)
  PROVE  Own(p)
<1>1. Moved(p, "returned") /\ UNCHANGED <<fs, effects>>
  BY AnswerMoves DEF ActiveInv, Refuse
<1>2. TypeOK /\ Sound(p) /\ fs \in [Path -> Names]
  BY DEF ActiveInv, TypeOK, Names
<1>3. \A q \in Path : KeepsNames(q)
  BY <1>1 DEF KeepsNames, Alike
<1>4. Sound(p)' /\ (OldIsThere(p) => OldIsThere(p)')
  BY <1>1, <1>2, <1>3, KeptIsSound DEF Moved, Recovering, owner
<1>5. Placed(call.path, call.op, call.at)'
  BY <1>1 DEF Placed, Moved
<1> QED BY <1>1, <1>2, <1>3, <1>4, <1>5 DEF Own, At

\* A step that goes on without a change of the tree.
LEMMA GoOwn ==
  ASSUME ActiveInv, NEW p \in Path, call.path = p, call # NoCall, UNCHANGED owner,
         NEW point \in At, Goto(point), UNCHANGED fs,
         \/ UNCHANGED effects
         \/ effects'[p] # "completed"
         \/ plan.effect[p] # "incoming"
         \/ BothDirs(fs[p].leaf, plan.incoming[p]),
         Placed(call.path, call.op, call.at)'
  PROVE  Own(p)
<1>1. Moved(p, point)
  BY GotoMoves DEF ActiveInv
<1>2. TypeOK /\ Sound(p) /\ fs \in [Path -> Names]
  BY DEF ActiveInv, TypeOK, Names
<1>3. \A q \in Path : KeepsNames(q)
  BY DEF KeepsNames, Alike
<1>4. OldIsThere(p) => OldIsThere(p)'
  BY <1>1 DEF OldIsThere, Moved
<1>5. Recovering(p)' <=> Recovering(p)
  BY <1>1 DEF Moved, Recovering, owner
<1>6. Sound(p)'
  <2>1. ~Contradictory(p)' /\ (fs'[p].displaced # Absent =>
          plan'.before[p] # Absent /\ SameOld(fs'[p].displaced, plan'.before[p]))
    BY <1>1, <1>2 DEF Sound, Contradictory, Moved
  <2>2. effects'[p] = "completed" /\ plan'.effect[p] = "incoming" /\ ~Recovering(p)' =>
          fs'[p].leaf # Absent /\ fs'[p].leaf.kind = plan'.incoming[p].kind
    <3>1. \A a, b : BothDirs(a, b) => a # Absent /\ a.kind = b.kind
      BY DEF BothDirs, IsDir
    <3>2. plan' = plan /\ fs' = fs
      BY <1>1 DEF Moved
    <3>3. CASE effects' = effects
      BY <1>2, <1>5, <3>2, <3>3 DEF Sound
    <3> QED BY <1>2, <1>5, <3>1, <3>2, <3>3
  <2> QED BY <2>1, <2>2 DEF Sound
<1> QED BY <1>1, <1>2, <1>3, <1>4, <1>6 DEF Own

\* A step that changes the names of the path.
LEMMA NamesOwn ==
  ASSUME ActiveInv, NEW p \in Path, call.path = p, call # NoCall, UNCHANGED owner,
         NEW point \in At, Moved(p, point),
         fs' \in [Path -> Names],
         \A q \in Path \ {p} : KeepsNames(q),
         fs'[p].leaf = Absent \/ fs'[p].prepared = Absent \/ fs'[p].displaced = Absent,
         fs'[p].displaced # Absent =>
           plan.before[p] # Absent /\ SameOld(fs'[p].displaced, plan.before[p]),
         effects'[p] = "completed" /\ plan.effect[p] = "incoming" /\ ~Recovering(p) =>
           fs'[p].leaf # Absent /\ fs'[p].leaf.kind = plan.incoming[p].kind,
         Placed(call.path, call.op, call.at)',
         p \in plan.captured /\ phase # "applied" /\ OldIsThere(p) =>
           SameOld(fs'[p].leaf, plan.before[p]) \/ SameOld(fs'[p].displaced, plan.before[p])
  PROVE  Own(p)
<1>1. Recovering(p)' <=> Recovering(p)
  BY DEF Moved, Recovering, owner
<1>2. plan' = plan
  BY DEF Moved
<1>3. ~Contradictory(p)'
  BY DEF Contradictory, Slot
<1>4. Sound(p)'
  BY <1>1, <1>2, <1>3 DEF Sound
<1>5. p \in plan.captured /\ phase # "applied" /\ OldIsThere(p) => OldIsThere(p)'
  BY <1>2 DEF OldIsThere
<1> QED BY <1>4, <1>5 DEF Own

-----------------------------------------------------------------------------
(* The steps of publish_incoming and remove.                               *)

\* What an operation on p may rely on.
LEMMA OwnContext ==
  ASSUME ActiveInv, NEW p \in Path, NEW point \in At \ {"idle"}, Running(p, point)
  PROVE  /\ TypeOK /\ Sound(p) /\ call.path = p /\ call.at = point /\ call # NoCall
         /\ fs \in [Path -> Names] /\ fs[p] \in Names
         /\ effects \in [Path -> {"none", "attempted", "completed"}]
         /\ call.op \in {"publish", "remove", "recover", "discard"}
         /\ call.op = "publish" => plan.effect[p] = "incoming" /\ phase = "forward"
         /\ call.op = "remove" => plan.effect[p] = "remove" /\ phase = "forward"
         /\ call.op = "recover" => Recovering(p)
         /\ call.op = "discard" => phase = "applied"
         /\ Placed(p, call.op, point)
<1>1. call # NoCall
  BY DEF Running, NoCall
<1>2. TypeOK /\ Sound(p) /\ Issued
  BY DEF ActiveInv
<1>3. fs \in [Path -> Names] /\ fs[p] \in Names
  BY <1>2 DEF TypeOK, Names
<1>4. effects \in [Path -> {"none", "attempted", "completed"}]
  BY <1>2 DEF TypeOK
<1> QED BY <1>1, <1>2, <1>3, <1>4 DEF Running, Issued, Recovering

LEMMA PublishIncomingOwn ==
  ASSUME ActiveInv, UNCHANGED owner, NEW p \in Path, PublishIncoming(p)
  PROVE  Own(p)
<1> USE DEF At
<1>1. Running(p, "enter")
  BY DEF PublishIncoming
<1>2. CASE \E outcome \in Outcome : Refuse(outcome)
  BY <1>1, <1>2, OwnContext, RefuseOwn
<1>3. CASE ~\E outcome \in Outcome : Refuse(outcome)
  <2> DEFINE point == IF IsDir(plan.incoming[p]) /\ IsDir(fs[p].leaf)
                        THEN "update" ELSE "prepare"
  <2>1. /\ call.op = "publish" /\ Clear(p) /\ Admitted(p) /\ Attempt(p) /\ Goto(point)
        /\ UNCHANGED <<fs, dirty, unsynced>>
    BY <1>3 DEF PublishIncoming, Outcome
  <2>2. effects'[p] = "attempted"
    BY <1>1, <2>1, OwnContext DEF Attempt
  <2>3. Moved(p, point)
    BY <1>1, <2>1, OwnContext, GotoMoves
  <2>4. Placed(call.path, call.op, call.at)'
    BY <2>1, <2>2, <2>3 DEF Placed, Moved, BothDirs, Clear, Admitted
  <2> QED BY <1>1, <2>1, <2>2, <2>4, OwnContext, GoOwn
<1> QED BY <1>2, <1>3

LEMMA RemoveOwn ==
  ASSUME ActiveInv, UNCHANGED owner, NEW p \in Path, Remove(p)
  PROVE  Own(p)
<1> USE DEF At
<1>1. Running(p, "enter") /\ call.op = "remove"
  BY DEF Remove
<1>2. CASE \E outcome \in Outcome : Refuse(outcome)
  BY <1>1, <1>2, OwnContext, RefuseOwn
<1>3. CASE ~\E outcome \in Outcome : Refuse(outcome)
  <2>1. /\ Clear(p) /\ Admitted(p) /\ Attempt(p) /\ Goto("take")
        /\ UNCHANGED <<fs, dirty, unsynced>>
    BY <1>3 DEF Remove, Outcome
  <2>2. Moved(p, "take")
    BY <1>1, <2>1, OwnContext, GotoMoves
  <2>3. Placed(call.path, call.op, call.at)'
    BY <1>1, <2>1, <2>2 DEF Placed, Moved, Clear, Admitted
  <2>4. effects'[p] = "attempted"
    BY <1>1, <2>1, OwnContext DEF Attempt
  <2> QED BY <1>1, <2>1, <2>3, <2>4, OwnContext, GoOwn
<1> QED BY <1>2, <1>3

\* A step that leaves the leaf and the displaced object where they are.
LEMMA PreparedOwn ==
  ASSUME ActiveInv, UNCHANGED owner, NEW p \in Path, call.path = p, call # NoCall,
         NEW point \in At, Moved(p, point),
         NEW w \in Names, fs' = Tree(p, w),
         w.leaf = fs[p].leaf, w.displaced = fs[p].displaced,
         w.leaf = Absent \/ w.prepared = Absent \/ w.displaced = Absent,
         effects' = effects,
         Placed(call.path, call.op, call.at)'
  PROVE  Own(p)
<1>1. TypeOK /\ Sound(p)
  BY DEF ActiveInv
<1>2. /\ fs' \in [Path -> Names] /\ fs'[p] = w
      /\ \A q \in Path \ {p} : KeepsNames(q)
  BY <1>1, TreeKeeps
<1> QED BY <1>1, <1>2, NamesOwn DEF Sound, OldIsThere

\* remove_prepared when a change of another name did not succeed.
LEMMA AbandonOwn ==
  ASSUME ActiveInv, UNCHANGED owner, NEW p \in Path, call.path = p, call # NoCall,
         NEW workspace \in Names, NEW outcome, Abandon(p, workspace, outcome),
         workspace.leaf = fs[p].leaf, workspace.displaced = fs[p].displaced,
         workspace.leaf = Absent \/ workspace.prepared = Absent
           \/ workspace.displaced = Absent
  PROVE  Own(p)
<1>1. Moved(p, "returned") /\ effects' = effects
  BY AnswerMoves DEF Abandon, ActiveInv
<1>2. PICK w \in WithoutPrepared(workspace) : fs' = Tree(p, w)
  BY DEF Abandon
<1>3. /\ w \in Names /\ w.leaf = workspace.leaf /\ w.displaced = workspace.displaced
      /\ w.prepared \in {workspace.prepared, Absent}
  <2>1. w \in {[workspace EXCEPT !.prepared = Absent], workspace}
    BY <1>2 DEF WithoutPrepared
  <2> QED BY <2>1 DEF Names
<1>4. Placed(call.path, call.op, call.at)'
  BY <1>1 DEF Placed, Moved
<1> QED BY <1>1, <1>2, <1>3, <1>4, PreparedOwn DEF At

LEMMA PrepareOwn ==
  ASSUME ActiveInv, UNCHANGED owner, NEW p \in Path, Prepare(p)
  PROVE  Own(p)
<1>1. Running(p, "prepare")
  BY DEF Prepare
<1>2. /\ Clear(p) /\ Admitted(p) /\ ~BothDirs(fs[p].leaf, plan.incoming[p])
      /\ call.op = "publish" /\ effects[p] = "attempted" /\ plan.effect[p] = "incoming"
      /\ TypeOK /\ call.path = p /\ call # NoCall
  BY <1>1, OwnContext DEF Placed, At
<1>3. PICK w \in Names : w = [fs[p] EXCEPT !.prepared = plan.incoming[p]]
  <2>1. fs[p] \in Names /\ plan.incoming[p] \in Object \cup {Absent}
    BY <1>1, <1>2, OwnContext, PlanTyped DEF At
  <2>2. [fs[p] EXCEPT !.prepared = plan.incoming[p]] \in Names
    BY <2>1 DEF Names
  <2> QED BY <2>2
<1>4. /\ w.leaf = fs[p].leaf /\ w.displaced = Absent /\ fs[p].displaced = Absent
      /\ w.prepared = plan.incoming[p]
  BY <1>1, <1>2, <1>3, OwnContext DEF Names, Clear, At
<1>5. CASE \E outcome \in Outcome : Refuse(outcome)
  BY <1>2, <1>5, RefuseOwn
<1>6. CASE Abandon(p, w, "failed")
  BY <1>2, <1>4, <1>6, AbandonOwn
<1>7. CASE /\ fs' = Tree(p, w) /\ effects' = effects
           /\ Goto(IF Displaces(p) THEN "displace" ELSE "activate")
  <2>1. fs'[p] = w
    BY <1>2, <1>7, TreeKeeps
  <2>2. CASE Displaces(p)
    <3>1. Moved(p, "displace") /\ fs[p].leaf # Absent
      BY <1>2, <1>7, <2>2, GotoMoves DEF Displaces, At
    <3>2. Placed(call.path, call.op, call.at)'
      BY <1>2, <1>4, <1>7, <2>1, <3>1 DEF Placed, Moved, Admitted
    <3> QED BY <1>2, <1>4, <1>7, <3>1, <3>2, PreparedOwn DEF At
  <2>3. CASE ~Displaces(p)
    <3>1. Moved(p, "activate")
      BY <1>2, <1>7, <2>3, GotoMoves DEF At
    <3>2. p \in plan.captured => fs[p].leaf = Absent
      BY <1>2, <2>3 DEF Displaces, BothDirs
    <3>3. Placed(call.path, call.op, call.at)'
      BY <1>2, <1>4, <1>7, <2>1, <3>1, <3>2 DEF Placed, Moved
    <3> QED BY <1>2, <1>4, <1>7, <3>1, <3>3, PreparedOwn DEF At
  <2> QED BY <2>2, <2>3
<1> QED BY <1>3, <1>5, <1>6, <1>7 DEF Prepare, Fails, Outcome

\* A captured object is as it was admitted until it is displaced.
LEMMA AdmittedIsOld ==
  ASSUME TypeOK, NEW p \in Path, Admitted(p), fs[p].leaf # Absent
  PROVE  plan.before[p] # Absent /\ SameOld(fs[p].leaf, plan.before[p])
BY PlanTyped DEF Admitted, SameOld

LEMMA DisplaceOwn ==
  ASSUME ActiveInv, UNCHANGED owner, NEW p \in Path, Displace(p)
  PROVE  Own(p)
<1> USE DEF At
<1>1. Running(p, "displace")
  BY DEF Displace
<1>2. /\ TypeOK /\ Sound(p) /\ fs[p] \in Names /\ call.path = p /\ call # NoCall
      /\ call.op = "publish" /\ effects[p] = "attempted"
      /\ fs[p].displaced = Absent /\ Admitted(p) /\ fs[p].leaf # Absent
      /\ fs[p].prepared = plan.incoming[p]
  BY <1>1, OwnContext DEF Placed
<1>3. CASE Abandon(p, fs[p], "failed")
  BY <1>2, <1>3, AbandonOwn
<1>4. CASE /\ Change(p, [fs[p] EXCEPT !.displaced = fs[p].leaf, !.leaf = Absent])
           /\ Goto("activate") /\ UNCHANGED effects
  <2>1. PICK w \in Names : w = [fs[p] EXCEPT !.displaced = fs[p].leaf, !.leaf = Absent]
    <3>1. [fs[p] EXCEPT !.displaced = fs[p].leaf, !.leaf = Absent] \in Names
      BY <1>2 DEF Names
    <3> QED BY <3>1
  <2>2. /\ w.leaf = Absent /\ w.displaced = fs[p].leaf
        /\ w.prepared = plan.incoming[p]
    BY <1>2, <2>1 DEF Names
  <2>3. /\ fs' \in [Path -> Names] /\ fs'[p] = w
        /\ \A q \in Path \ {p} : KeepsNames(q)
    BY <1>2, <1>4, <2>1, TreeKeeps DEF Change
  <2>4. Moved(p, "activate")
    BY <1>2, <1>4, GotoMoves
  <2>5. Placed(call.path, call.op, call.at)'
    BY <1>2, <1>4, <2>2, <2>3, <2>4 DEF Placed, Moved
  <2> QED BY <1>2, <1>4, <2>2, <2>3, <2>4, <2>5, AdmittedIsOld, NamesOwn
<1> QED BY <1>3, <1>4 DEF Displace

LEMMA ActivateOwn ==
  ASSUME ActiveInv, UNCHANGED owner, NEW p \in Path, Activate(p)
  PROVE  Own(p)
<1> USE DEF At
<1>1. Running(p, "activate")
  BY DEF Activate
<1>2. /\ TypeOK /\ Sound(p) /\ fs[p] \in Names /\ call.path = p /\ call # NoCall
      /\ plan.effect[p] = "incoming" /\ effects[p] = "attempted"
      /\ fs[p].leaf = Absent \/ fs[p].displaced = Absent
      /\ p \in plan.captured => fs[p].leaf = Absent
      /\ fs[p].prepared = plan.incoming[p] /\ plan.incoming[p] # Absent
  BY <1>1, OwnContext, PlanTyped DEF Placed
<1>3. CASE Abandon(p, fs[p], "indeterminate")
  BY <1>2, <1>3, AbandonOwn
<1>4. CASE Change(p, Published(p)) /\ Goto("refresh")
  <2>1. PICK w \in Names : w = Published(p)
    <3>1. Published(p) \in Names
      BY <1>2 DEF Names, Published
    <3> QED BY <3>1
  <2>2. w.leaf = plan.incoming[p] /\ w.displaced = fs[p].displaced /\ w.prepared = Absent
    BY <1>2, <2>1 DEF Names, Published
  <2>3. /\ fs' \in [Path -> Names] /\ fs'[p] = w
        /\ \A q \in Path \ {p} : KeepsNames(q)
    BY <1>2, <1>4, <2>1, TreeKeeps DEF Change
  <2>4. Moved(p, "refresh")
    BY <1>2, <1>4, GotoMoves
  <2>5. Placed(call.path, call.op, call.at)'
    BY <2>4 DEF Placed, Moved
  <2>6. p \in plan.captured /\ OldIsThere(p) => SameOld(fs'[p].displaced, plan.before[p])
    BY <1>2, <2>2, <2>3 DEF OldIsThere, SameOld
  <2> QED BY <1>2, <2>2, <2>3, <2>4, <2>5, <2>6, NamesOwn DEF Sound
<1>5. CASE /\ fs[p].displaced # Absent
           /\ Abandon(p, [fs[p] EXCEPT !.leaf = fs[p].displaced, !.displaced = Absent],
                      "indeterminate")
  <2>0. PICK put \in Names :
          put = [fs[p] EXCEPT !.leaf = fs[p].displaced, !.displaced = Absent]
    <3>1. [fs[p] EXCEPT !.leaf = fs[p].displaced, !.displaced = Absent] \in Names
      BY <1>2 DEF Names
    <3> QED BY <3>1
  <2>1. PICK w \in Names : w \in WithoutPrepared(put) /\ fs' = Tree(p, w)
    <3>1. [put EXCEPT !.prepared = Absent] \in Names
      BY DEF Names
    <3>2. WithoutPrepared(put) \subseteq Names
      BY <3>1 DEF WithoutPrepared
    <3> QED BY <1>5, <2>0, <3>2 DEF Abandon
  <2>2. w.leaf = fs[p].displaced /\ w.displaced = Absent
    <3>1. put.leaf = fs[p].displaced /\ put.displaced = Absent
      BY <1>2, <2>0 DEF Names
    <3> QED BY <2>1, <3>1 DEF WithoutPrepared, Names
  <2>3. /\ fs' \in [Path -> Names] /\ fs'[p] = w
        /\ \A q \in Path \ {p} : KeepsNames(q)
    BY <1>2, <2>1, TreeKeeps
  <2>4. Moved(p, "returned") /\ effects' = effects
    BY <1>2, <1>5, AnswerMoves DEF Abandon
  <2>5. Placed(call.path, call.op, call.at)'
    BY <2>4 DEF Placed, Moved
  <2>6. OldIsThere(p) => SameOld(fs'[p].leaf, plan.before[p])
    BY <1>2, <1>5, <2>2, <2>3 DEF OldIsThere, SameOld
  <2> QED BY <1>2, <2>2, <2>3, <2>4, <2>5, <2>6, NamesOwn
<1> QED BY <1>3, <1>4, <1>5 DEF Activate

LEMMA TakeOwn ==
  ASSUME ActiveInv, UNCHANGED owner, NEW p \in Path, Take(p)
  PROVE  Own(p)
<1> USE DEF At
<1>1. Running(p, "take")
  BY DEF Take
<1>2. /\ TypeOK /\ Sound(p) /\ fs[p] \in Names /\ call.path = p /\ call # NoCall
      /\ plan.effect[p] = "remove" /\ plan.before[p] # Absent
      /\ Clear(p) /\ Admitted(p) /\ fs[p].leaf # Absent
  BY <1>1, OwnContext, PlanTyped DEF Placed, Admitted
<1>3. CASE \E outcome \in Outcome : Refuse(outcome)
  BY <1>2, <1>3, RefuseOwn
<1>4. CASE ~\E outcome \in Outcome : Refuse(outcome)
  <2>1. Goto("refresh")
    BY <1>4 DEF Take, Fails, Outcome
  <2>2. PICK w \in Names :
          /\ w = IF p \in plan.captured
                   THEN [fs[p] EXCEPT !.displaced = fs[p].leaf, !.leaf = Absent]
                   ELSE [fs[p] EXCEPT !.leaf = Absent]
          /\ fs' = Tree(p, w)
    <3>1. /\ [fs[p] EXCEPT !.displaced = fs[p].leaf, !.leaf = Absent] \in Names
          /\ [fs[p] EXCEPT !.leaf = Absent] \in Names
      BY <1>2 DEF Names
    <3> QED BY <1>4, <3>1 DEF Take, Fails, Outcome, Change
  <2>3. /\ w.leaf = Absent
        /\ w.displaced = IF p \in plan.captured THEN fs[p].leaf ELSE Absent
    BY <1>2, <2>2 DEF Names, Clear
  <2>4. /\ fs' \in [Path -> Names] /\ fs'[p] = w
        /\ \A q \in Path \ {p} : KeepsNames(q)
    BY <1>2, <2>2, TreeKeeps
  <2>5. Moved(p, "refresh")
    BY <1>2, <2>1, GotoMoves
  <2>6. Placed(call.path, call.op, call.at)'
    BY <2>5 DEF Placed, Moved
  <2> QED BY <1>2, <2>3, <2>4, <2>5, <2>6, AdmittedIsOld, NamesOwn
<1> QED BY <1>3, <1>4

-----------------------------------------------------------------------------
(* update_existing_directory.                                              *)

LEMMA UpdateContext ==
  ASSUME ActiveInv, NEW p \in Path, Running(p, "update") \/ Running(p, "finish_update")
  PROVE  /\ TypeOK /\ Sound(p) /\ fs \in [Path -> Names] /\ fs[p] \in Names
         /\ call.path = p /\ call # NoCall /\ Clear(p)
         /\ effects \in [Path -> {"none", "attempted", "completed"}]
         /\ call.op \in {"publish", "recover"}
         /\ call.op = "recover" => Recovering(p)
         /\ Wanted(p) \in Object
         /\ BothDirs(fs[p].leaf, Wanted(p))
         /\ call.op = "publish" => BothDirs(fs[p].leaf, plan.incoming[p])
<1>1. PICK point \in {"update", "finish_update"} : Running(p, point)
  OBVIOUS
<1>2. /\ TypeOK /\ Sound(p) /\ fs \in [Path -> Names] /\ fs[p] \in Names
      /\ call.path = p /\ call # NoCall
      /\ effects \in [Path -> {"none", "attempted", "completed"}]
      /\ call.op = "recover" => Recovering(p)
      /\ Placed(p, call.op, point)
  BY <1>1, OwnContext DEF At
<1>3. BothDirs(fs[p].leaf, Wanted(p)) /\ call.op \in {"publish", "recover"} /\ Clear(p)
  BY <1>2 DEF Placed, Wanted
<1>4. Wanted(p) \in Object \cup {Absent}
  BY <1>2, PlanTyped DEF Wanted
<1>5. Wanted(p) \in Object
  BY <1>3, <1>4 DEF BothDirs, IsDir
<1> QED BY <1>2, <1>3, <1>5 DEF Wanted

\* The effect is complete, or the recovery nearly so.
LEMMA UpdatedGoesOn ==
  ASSUME ActiveInv, NEW p \in Path, Updated(p),
         Running(p, "update") \/ Running(p, "finish_update")
  PROVE  \E point \in At : /\ Goto(point) /\ Moved(p, point)
                           /\ Placed(call.path, call.op, call.at)'
<1>1. TypeOK /\ call.path = p
  BY UpdateContext
<1>2. CASE call.op = "publish"
  <2>1. Goto("refresh") /\ Moved(p, "refresh")
    BY <1>1, <1>2, GotoMoves DEF Updated, At
  <2> QED BY <2>1 DEF Placed, Moved, At
<1>3. CASE call.op # "publish"
  <2>1. Goto("readmit") /\ Moved(p, "readmit") /\ call.op = "recover"
    BY <1>1, <1>3, GotoMoves, UpdateContext DEF Updated, At
  <2> QED BY <2>1 DEF Placed, Moved, At
<1> QED BY <1>2, <1>3

LEMMA SetDirectoryOwn ==
  ASSUME ActiveInv, UNCHANGED owner, NEW p \in Path,
         Running(p, "update") \/ Running(p, "finish_update"),
         NEW value \in {"old", "new", "mixed"}, NEW moved \in BOOLEAN,
         SetDirectory(p, value, moved),
         NEW point \in At, Moved(p, point),
         \/ Placed(call.path, call.op, call.at)'
         \/ point = "finish_update"
  PROVE  Own(p)
<1>1. /\ TypeOK /\ Sound(p) /\ fs \in [Path -> Names] /\ fs[p] \in Names
      /\ call.path = p /\ call # NoCall /\ Clear(p)
      /\ call.op \in {"publish", "recover"}
      /\ BothDirs(fs[p].leaf, Wanted(p))
      /\ call.op = "publish" => BothDirs(fs[p].leaf, plan.incoming[p])
      /\ call.op = "recover" => Recovering(p)
  BY UpdateContext
<1>2. PICK object \in Object :
        object = [fs[p].leaf EXCEPT !.value = value, !.moved = moved]
  <2>1. fs[p].leaf \in Object
    BY <1>1 DEF BothDirs, IsDir, Names
  <2>2. [fs[p].leaf EXCEPT !.value = value, !.moved = moved] \in Object
    BY <2>1 DEF Object
  <2> QED BY <2>2
<1>3. object.kind = fs[p].leaf.kind /\ fs[p].leaf.kind = "dir" /\ object # Absent
  <2>1. fs[p].leaf \in Object /\ fs[p].leaf.kind = "dir"
    BY <1>1 DEF BothDirs, IsDir, Names
  <2> QED BY <1>2, <2>1 DEF Object
<1>4. PICK w \in Names : w = [fs[p] EXCEPT !.leaf = object]
  <2>1. [fs[p] EXCEPT !.leaf = object] \in Names
    BY <1>1, WithLeaf
  <2> QED BY <2>1
<1>5. w.leaf = object /\ w.prepared = Absent /\ w.displaced = Absent
  BY <1>1, <1>4, WithLeaf DEF Clear
<1>6. fs' = [fs EXCEPT ![p] = w]
  <2>1. PICK once : once = [fs EXCEPT ![p].leaf.value = value]
    OBVIOUS
  <2>2. fs' = [once EXCEPT ![p].leaf.moved = moved]
    BY <2>1 DEF SetDirectory
  <2>3. PICK half : half = [fs[p].leaf EXCEPT !.value = value]
    OBVIOUS
  <2>4. once = [fs EXCEPT ![p] = [fs[p] EXCEPT !.leaf = half]]
    BY <2>1, <2>3
  <2>5. once[p].leaf = half
    BY <1>1, <2>4 DEF Names
  <2>6. object = [half EXCEPT !.moved = moved]
    BY <1>2, <2>3
  <2>7. fs' = [once EXCEPT ![p] = [once[p] EXCEPT !.leaf = object]]
    BY <2>2, <2>5, <2>6
  <2>8. [once[p] EXCEPT !.leaf = object] = w
    BY <1>1, <1>4, <2>4 DEF Names
  <2> QED BY <1>1, <2>4, <2>7, <2>8
<1>7. /\ fs' \in [Path -> Names] /\ fs'[p] = w
      /\ \A q \in Path \ {p} : KeepsNames(q)
  BY <1>1, <1>6 DEF KeepsNames, Alike
<1>8. plan' = plan /\ call'.op = call.op /\ call'.path = p /\ call'.at = point
  BY DEF Moved
<1>9. Placed(call.path, call.op, call.at)'
  <2>1. CASE point = "finish_update"
    <3>1. BothDirs(w.leaf, Wanted(p))
      BY <1>1, <1>3, <1>5 DEF BothDirs, IsDir
    <3> QED BY <1>1, <1>5, <1>7, <1>8, <2>1, <3>1 DEF Placed, Clear, Wanted
  <2> QED BY <2>1
<1>10. plan.effect[p] = "incoming" /\ ~Recovering(p) => object.kind = plan.incoming[p].kind
  BY <1>1, <1>3 DEF BothDirs, IsDir
<1>11. OldIsThere(p) => SameOld(fs'[p].leaf, plan.before[p])
  BY <1>1, <1>3, <1>5, <1>7 DEF OldIsThere, SameOld, Clear
<1> QED BY <1>1, <1>3, <1>5, <1>7, <1>9, <1>10, <1>11, NamesOwn

LEMMA UpdateDirectoryOwn ==
  ASSUME ActiveInv, UNCHANGED owner, NEW p \in Path, UpdateDirectory(p)
  PROVE  Own(p)
<1>1. Running(p, "update")
  BY DEF UpdateDirectory
<1>2. /\ TypeOK /\ fs[p] \in Names /\ call.path = p /\ call # NoCall
      /\ fs[p].leaf \in Object /\ Wanted(p) \in Object
      /\ call.op = "publish" => BothDirs(fs[p].leaf, plan.incoming[p])
  BY <1>1, UpdateContext DEF BothDirs, IsDir, Names
<1>3. CASE \E outcome \in Outcome : Refuse(outcome)
  BY <1>2, <1>3, RefuseOwn
<1>4. CASE Updated(p) /\ UNCHANGED fs
  <2>1. PICK point \in At : Goto(point) /\ Placed(call.path, call.op, call.at)'
    BY <1>1, <1>4, UpdatedGoesOn
  <2>2. UNCHANGED effects \/ BothDirs(fs[p].leaf, plan.incoming[p])
    BY <1>2, <1>4 DEF Updated
  <2> QED BY <1>2, <1>4, <2>1, <2>2, GoOwn
<1>5. CASE Updated(p) /\ SetDirectory(p, Wanted(p).value, FALSE)
  <2>1. PICK point \in At : Moved(p, point) /\ Placed(call.path, call.op, call.at)'
    BY <1>1, <1>5, UpdatedGoesOn
  <2>2. PICK value \in {"old", "new", "mixed"} : value = Wanted(p).value
    BY <1>2 DEF Object
  <2>3. SetDirectory(p, value, FALSE)
    BY <1>5, <2>2 DEF SetDirectory
  <2>4. PICK moved \in BOOLEAN : moved = FALSE
    OBVIOUS
  <2>5. SetDirectory(p, value, moved)
    BY <2>3, <2>4 DEF SetDirectory
  <2> QED BY <1>1, <2>1, <2>5, SetDirectoryOwn
<1>6. CASE SetDirectory(p, "mixed", fs[p].leaf.moved) /\ Goto("finish_update")
  <2>1. Moved(p, "finish_update")
    BY <1>2, <1>6, GotoMoves DEF At
  <2>2. fs[p].leaf.moved \in BOOLEAN
    BY <1>2 DEF Object
  <2> QED BY <1>1, <1>6, <2>1, <2>2, SetDirectoryOwn DEF At
<1> QED BY <1>3, <1>4, <1>5, <1>6 DEF UpdateDirectory, Fails, Outcome

LEMMA FinishUpdateOwn ==
  ASSUME ActiveInv, UNCHANGED owner, NEW p \in Path, FinishUpdate(p)
  PROVE  Own(p)
<1>1. Running(p, "finish_update")
  BY DEF FinishUpdate
<1>2. call.path = p /\ call # NoCall /\ Wanted(p) \in Object
  BY <1>1, UpdateContext
<1>3. CASE \E outcome \in Outcome : Refuse(outcome)
  BY <1>2, <1>3, RefuseOwn
<1>4. CASE Updated(p) /\ SetDirectory(p, Wanted(p).value, FALSE)
  <2>1. PICK point \in At : Moved(p, point) /\ Placed(call.path, call.op, call.at)'
    BY <1>1, <1>4, UpdatedGoesOn
  <2>2. PICK value \in {"old", "new", "mixed"} : value = Wanted(p).value
    BY <1>2 DEF Object
  <2>3. SetDirectory(p, value, FALSE)
    BY <1>4, <2>2 DEF SetDirectory
  <2>4. PICK moved \in BOOLEAN : moved = FALSE
    OBVIOUS
  <2>5. SetDirectory(p, value, moved)
    BY <2>3, <2>4 DEF SetDirectory
  <2> QED BY <1>1, <2>1, <2>5, SetDirectoryOwn
<1> QED BY <1>3, <1>4 DEF FinishUpdate, Fails, Outcome

-----------------------------------------------------------------------------
(* The steps of recover and discard_recovery.                              *)

LEMMA RecoverOwn ==
  ASSUME ActiveInv, UNCHANGED owner, NEW p \in Path, Recover(p)
  PROVE  Own(p)
<1> USE DEF At
<1>1. Running(p, "enter") /\ call.op = "recover"
  BY DEF Recover
<1>2. /\ TypeOK /\ Sound(p) /\ fs[p] \in Names /\ call.path = p /\ call # NoCall
  BY <1>1, OwnContext
<1>3. CASE \E outcome \in Outcome : Refuse(outcome)
  BY <1>2, <1>3, RefuseOwn
<1>4. CASE ~\E outcome \in Outcome : Refuse(outcome)
  <2>1. UNCHANGED <<fs, effects>>
    BY <1>4 DEF Recover, Outcome
  <2>2. PICK point \in At :
          /\ Goto(point)
          /\ \/ ~Clear(p) /\ ~Contradictory(p)
                /\ point = IF fs[p].prepared # Absent THEN "clean"
                           ELSE IF fs[p].leaf # Absent THEN "unpublish" ELSE "restore"
             \/ point = "readmit"
             \/ Clear(p) /\ point = "withdraw" /\ plan.before[p] = Absent
             \/ Clear(p) /\ p \in plan.captured
                /\ point = IF IsDir(plan.before[p]) /\ IsDir(fs[p].leaf)
                             THEN "update" ELSE "copy"
    BY <1>4 DEF Recover, Outcome
  <2>3. Moved(p, point)
    BY <1>2, <2>2, GotoMoves
  <2>4. Placed(p, "recover", point)
    BY <2>2 DEF Placed, Clear, Contradictory, Slot, BothDirs
  <2>5. Placed(p, "recover", point)'
    BY <2>1, <2>3, <2>4 DEF Placed, Moved, Clear, Admitted
  <2>6. Placed(call.path, call.op, call.at)'
    BY <1>1, <2>3, <2>5 DEF Moved
  <2> QED BY <1>2, <2>1, <2>2, <2>6, GoOwn
<1> QED BY <1>3, <1>4

LEMMA CleanOwn ==
  ASSUME ActiveInv, UNCHANGED owner, NEW p \in Path, Clean(p)
  PROVE  Own(p)
<1> USE DEF At
<1>1. Running(p, "clean")
  BY DEF Clean
<1>2. /\ TypeOK /\ Sound(p) /\ fs[p] \in Names /\ call.path = p /\ call # NoCall
      /\ call.op = "recover"
  BY <1>1, OwnContext DEF Placed
<1>3. CASE \E outcome \in Outcome : Refuse(outcome)
  BY <1>2, <1>3, RefuseOwn
<1>4. CASE ~\E outcome \in Outcome : Refuse(outcome)
  <2>1. PICK w \in Names : w = [fs[p] EXCEPT !.prepared = Absent]
    <3>1. [fs[p] EXCEPT !.prepared = Absent] \in Names
      BY <1>2 DEF Names
    <3> QED BY <3>1
  <2>2. w.leaf = fs[p].leaf /\ w.displaced = fs[p].displaced /\ w.prepared = Absent
    BY <1>2, <2>1 DEF Names
  <2>3. PICK point \in {"restore", "readmit"} :
          /\ fs' = Tree(p, w) /\ effects' = effects /\ Goto(point)
          /\ point = "restore" => fs[p].displaced # Absent
    BY <1>4, <2>1 DEF Clean, Fails, Outcome
  <2>4. fs'[p] = w
    BY <1>2, <2>3, TreeKeeps
  <2>5. Moved(p, point)
    BY <1>2, <2>3, GotoMoves
  <2>6. Placed(call.path, call.op, call.at)'
    BY <1>2, <2>2, <2>3, <2>4, <2>5 DEF Placed, Moved
  <2> QED BY <1>2, <2>2, <2>3, <2>5, <2>6, PreparedOwn
<1> QED BY <1>3, <1>4

LEMMA UnpublishOwn ==
  ASSUME ActiveInv, UNCHANGED owner, NEW p \in Path, Unpublish(p)
  PROVE  Own(p)
<1> USE DEF At
<1>1. Running(p, "unpublish")
  BY DEF Unpublish
<1>2. /\ TypeOK /\ Sound(p) /\ fs[p] \in Names /\ call.path = p /\ call # NoCall
      /\ call.op = "recover" /\ Recovering(p) /\ fs[p].displaced # Absent
  BY <1>1, OwnContext DEF Placed
<1>3. CASE \E outcome \in Outcome : Refuse(outcome)
  BY <1>2, <1>3, RefuseOwn
<1>4. CASE Change(p, [fs[p] EXCEPT !.leaf = Absent]) /\ Goto("restore")
  <2>1. PICK w \in Names : w = [fs[p] EXCEPT !.leaf = Absent]
    <3>1. [fs[p] EXCEPT !.leaf = Absent] \in Names
      BY <1>2, WithLeaf
    <3> QED BY <3>1
  <2>2. w.leaf = Absent /\ w.displaced = fs[p].displaced
    BY <1>2, <2>1 DEF Names
  <2>3. /\ fs' \in [Path -> Names] /\ fs'[p] = w
        /\ \A q \in Path \ {p} : KeepsNames(q)
    BY <1>2, <1>4, <2>1, TreeKeeps DEF Change
  <2>4. Moved(p, "restore")
    BY <1>2, <1>4, GotoMoves
  <2>5. Placed(call.path, call.op, call.at)'
    BY <1>2, <2>2, <2>3, <2>4 DEF Placed, Moved
  <2> QED BY <1>2, <2>2, <2>3, <2>4, <2>5, NamesOwn DEF Sound
<1> QED BY <1>3, <1>4 DEF Unpublish, Fails, Outcome

LEMMA RestoreOwn ==
  ASSUME ActiveInv, UNCHANGED owner, NEW p \in Path, Restore(p)
  PROVE  Own(p)
<1> USE DEF At
<1>1. Running(p, "restore")
  BY DEF Restore
<1>2. /\ TypeOK /\ Sound(p) /\ fs[p] \in Names /\ call.path = p /\ call # NoCall
      /\ call.op = "recover" /\ Recovering(p) /\ fs[p].displaced # Absent
  BY <1>1, OwnContext DEF Placed
<1>3. CASE \E outcome \in Outcome : Refuse(outcome)
  BY <1>2, <1>3, RefuseOwn
<1>4. CASE /\ Change(p, [fs[p] EXCEPT !.leaf = fs[p].displaced, !.displaced = Absent])
           /\ Goto("readmit")
  <2>1. PICK w \in Names : w = [fs[p] EXCEPT !.leaf = fs[p].displaced, !.displaced = Absent]
    <3>1. [fs[p] EXCEPT !.leaf = fs[p].displaced, !.displaced = Absent] \in Names
      BY <1>2 DEF Names
    <3> QED BY <3>1
  <2>2. w.leaf = fs[p].displaced /\ w.displaced = Absent
    BY <1>2, <2>1 DEF Names
  <2>3. /\ fs' \in [Path -> Names] /\ fs'[p] = w
        /\ \A q \in Path \ {p} : KeepsNames(q)
    BY <1>2, <1>4, <2>1, TreeKeeps DEF Change
  <2>4. Moved(p, "readmit")
    BY <1>2, <1>4, GotoMoves
  <2>5. Placed(call.path, call.op, call.at)'
    BY <1>2, <2>4 DEF Placed, Moved
  <2> QED BY <1>2, <2>2, <2>3, <2>4, <2>5, NamesOwn DEF Sound
<1> QED BY <1>3, <1>4 DEF Restore, Fails, Outcome

LEMMA WithdrawOwn ==
  ASSUME ActiveInv, UNCHANGED owner, NEW p \in Path, Withdraw(p)
  PROVE  Own(p)
<1> USE DEF At
<1>1. Running(p, "withdraw")
  BY DEF Withdraw
<1>2. /\ TypeOK /\ Sound(p) /\ fs[p] \in Names /\ call.path = p /\ call # NoCall
      /\ call.op = "recover" /\ Recovering(p) /\ p \notin plan.captured
  BY <1>1, OwnContext, PlanTyped DEF Placed
<1>3. CASE \E outcome \in Outcome : Refuse(outcome)
  BY <1>2, <1>3, RefuseOwn
<1>4. CASE Change(p, [fs[p] EXCEPT !.leaf = Absent]) /\ Goto("readmit")
  <2>1. PICK w \in Names : w = [fs[p] EXCEPT !.leaf = Absent]
    <3>1. [fs[p] EXCEPT !.leaf = Absent] \in Names
      BY <1>2, WithLeaf
    <3> QED BY <3>1
  <2>2. w.leaf = Absent /\ w.displaced = fs[p].displaced
    BY <1>2, <2>1 DEF Names
  <2>3. /\ fs' \in [Path -> Names] /\ fs'[p] = w
        /\ \A q \in Path \ {p} : KeepsNames(q)
    BY <1>2, <1>4, <2>1, TreeKeeps DEF Change
  <2>4. Moved(p, "readmit")
    BY <1>2, <1>4, GotoMoves
  <2>5. Placed(call.path, call.op, call.at)'
    BY <1>2, <2>4 DEF Placed, Moved
  <2> QED BY <1>2, <2>2, <2>3, <2>4, <2>5, NamesOwn DEF Sound
<1> QED BY <1>3, <1>4 DEF Withdraw, Fails, Outcome

LEMMA CopyOwn ==
  ASSUME ActiveInv, UNCHANGED owner, NEW p \in Path, Copy(p)
  PROVE  Own(p)
<1> USE DEF At
<1>1. Running(p, "copy")
  BY DEF Copy
<1>2. /\ TypeOK /\ fs[p] \in Names /\ call.path = p /\ call # NoCall
      /\ call.op = "recover" /\ Clear(p) /\ p \in plan.captured
      /\ ~BothDirs(fs[p].leaf, plan.before[p])
  BY <1>1, OwnContext DEF Placed
<1>3. PICK w \in Names : w = [fs[p] EXCEPT !.prepared = plan.before[p]]
  <2>1. plan.before[p] \in Object \cup {Absent}
    BY <1>2, PlanTyped
  <2>2. [fs[p] EXCEPT !.prepared = plan.before[p]] \in Names
    BY <1>2, <2>1 DEF Names
  <2> QED BY <2>2
<1>4. /\ w.leaf = fs[p].leaf /\ w.displaced = Absent /\ fs[p].displaced = Absent
      /\ w.prepared = plan.before[p]
  BY <1>2, <1>3 DEF Names, Clear
<1>5. CASE \E outcome \in Outcome : Refuse(outcome)
  BY <1>2, <1>5, RefuseOwn
<1>6. CASE Abandon(p, w, "indeterminate")
  BY <1>2, <1>4, <1>6, AbandonOwn
<1>7. CASE /\ fs' = Tree(p, w) /\ effects' = effects
           /\ Goto(IF IsDir(fs[p].leaf) THEN "vacate" ELSE "install")
  <2>1. PICK point \in {"vacate", "install"} :
          Goto(point) /\ (point = "vacate" => IsDir(fs[p].leaf))
    BY <1>7
  <2>2. fs'[p] = w
    BY <1>2, <1>7, TreeKeeps
  <2>3. Moved(p, point)
    BY <1>2, <2>1, GotoMoves
  <2>4. Placed(call.path, call.op, call.at)'
    BY <1>2, <1>4, <2>1, <2>2, <2>3 DEF Placed, Moved
  <2> QED BY <1>2, <1>4, <1>7, <2>3, <2>4, PreparedOwn
<1> QED BY <1>3, <1>5, <1>6, <1>7 DEF Copy, Fails, Outcome

LEMMA VacateOwn ==
  ASSUME ActiveInv, UNCHANGED owner, NEW p \in Path, Vacate(p)
  PROVE  Own(p)
<1> USE DEF At
<1>1. Running(p, "vacate")
  BY DEF Vacate
<1>2. /\ TypeOK /\ Sound(p) /\ fs[p] \in Names /\ call.path = p /\ call # NoCall
      /\ call.op = "recover" /\ Recovering(p) /\ p \in plan.captured
      /\ IsDir(fs[p].leaf) /\ ~BothDirs(fs[p].leaf, plan.before[p])
      /\ fs[p].displaced = Absent /\ fs[p].prepared = plan.before[p]
      /\ plan.before[p] # Absent
  BY <1>1, OwnContext, PlanTyped DEF Placed
<1>3. CASE Abandon(p, fs[p], "indeterminate")
  BY <1>2, <1>3, AbandonOwn
<1>4. CASE Change(p, [fs[p] EXCEPT !.leaf = Absent]) /\ Goto("install")
  <2>1. PICK w \in Names : w = [fs[p] EXCEPT !.leaf = Absent]
    <3>1. [fs[p] EXCEPT !.leaf = Absent] \in Names
      BY <1>2, WithLeaf
    <3> QED BY <3>1
  <2>2. w.leaf = Absent /\ w.displaced = Absent /\ w.prepared = plan.before[p]
    BY <1>2, <2>1 DEF Names
  <2>3. /\ fs' \in [Path -> Names] /\ fs'[p] = w
        /\ \A q \in Path \ {p} : KeepsNames(q)
    <3>1. fs' = Tree(p, w)
      BY <1>4, <2>1 DEF Change
    <3> QED BY <1>2, <3>1, TreeKeeps
  <2>4. Moved(p, "install")
    BY <1>2, <1>4, GotoMoves
  <2>5. Placed(call.path, call.op, call.at)'
    BY <1>2, <2>2, <2>3, <2>4 DEF Placed, Moved
  <2>6. ~OldIsThere(p)
    <3>1. ~SameOld(fs[p].displaced, plan.before[p])
      BY <1>2 DEF SameOld
    <3>2. plan.before[p].kind # "dir" /\ fs[p].leaf.kind = "dir"
      BY <1>2 DEF BothDirs, IsDir
    <3>3. ~SameOld(fs[p].leaf, plan.before[p])
      BY <3>2 DEF SameOld
    <3> QED BY <3>1, <3>3 DEF OldIsThere
  <2> QED BY <1>2, <2>2, <2>3, <2>4, <2>5, <2>6, NamesOwn
<1> QED BY <1>3, <1>4 DEF Vacate

LEMMA InstallOwn ==
  ASSUME ActiveInv, UNCHANGED owner, NEW p \in Path, Install(p)
  PROVE  Own(p)
<1> USE DEF At
<1>1. Running(p, "install")
  BY DEF Install
<1>2. /\ TypeOK /\ Sound(p) /\ fs[p] \in Names /\ call.path = p /\ call # NoCall
      /\ call.op = "recover" /\ Recovering(p) /\ p \in plan.captured
      /\ fs[p].displaced = Absent /\ fs[p].prepared = plan.before[p]
      /\ plan.before[p] # Absent /\ plan.before[p].value = "old"
  BY <1>1, OwnContext, PlanTyped DEF Placed
<1>3. CASE Abandon(p, fs[p], "indeterminate")
  BY <1>2, <1>3, AbandonOwn
<1>4. CASE Change(p, Published(p)) /\ Goto("readmit")
  <2>1. PICK w \in Names : w = Published(p)
    <3>1. Published(p) \in Names
      BY <1>2 DEF Names, Published
    <3> QED BY <3>1
  <2>2. w.leaf = plan.before[p] /\ w.displaced = Absent
    BY <1>2, <2>1 DEF Names, Published
  <2>3. /\ fs' \in [Path -> Names] /\ fs'[p] = w
        /\ \A q \in Path \ {p} : KeepsNames(q)
    BY <1>2, <1>4, <2>1, TreeKeeps DEF Change
  <2>4. Moved(p, "readmit")
    BY <1>2, <1>4, GotoMoves
  <2>5. Placed(call.path, call.op, call.at)'
    BY <1>2, <2>4 DEF Placed, Moved
  <2>6. SameOld(fs'[p].leaf, plan.before[p])
    BY <1>2, <2>2, <2>3 DEF SameOld
  <2> QED BY <1>2, <2>2, <2>3, <2>4, <2>5, <2>6, NamesOwn
<1> QED BY <1>3, <1>4 DEF Install

LEMMA DiscardRecoveryOwn ==
  ASSUME ActiveInv, UNCHANGED owner, NEW p \in Path, DiscardRecovery(p)
  PROVE  Own(p)
<1> USE DEF At
<1>1. Running(p, "enter") /\ call.op = "discard"
  BY DEF DiscardRecovery
<1>2. TypeOK /\ call.path = p /\ call # NoCall
  BY <1>1, OwnContext
<1>3. CASE \E outcome \in Outcome : Refuse(outcome)
  BY <1>2, <1>3, RefuseOwn
<1>4. CASE Goto("drop") /\ fs' = fs /\ effects' = effects
  <2>1. Moved(p, "drop")
    BY <1>2, <1>4, GotoMoves
  <2>2. Placed(call.path, call.op, call.at)'
    BY <1>1, <2>1 DEF Placed, Moved
  <2> QED BY <1>2, <1>4, <2>2, GoOwn
<1> QED BY <1>3, <1>4 DEF DiscardRecovery, Outcome

LEMMA DropOwn ==
  ASSUME ActiveInv, UNCHANGED owner, NEW p \in Path, Drop(p)
  PROVE  Own(p)
<1> USE DEF At
<1>1. Running(p, "drop")
  BY DEF Drop
<1>2. /\ TypeOK /\ Sound(p) /\ fs[p] \in Names /\ call.path = p /\ call # NoCall
      /\ call.op = "discard" /\ phase = "applied"
  BY <1>1, OwnContext DEF Placed
<1>3. CASE \E outcome \in Outcome : Refuse(outcome)
  BY <1>2, <1>3, RefuseOwn
<1>4. CASE /\ Change(p, [fs[p] EXCEPT !.displaced = Absent])
           /\ Goto("refresh") /\ UNCHANGED effects
  <2>1. PICK w \in Names : w = [fs[p] EXCEPT !.displaced = Absent]
    <3>1. [fs[p] EXCEPT !.displaced = Absent] \in Names
      BY <1>2 DEF Names
    <3> QED BY <3>1
  <2>2. w.leaf = fs[p].leaf /\ w.displaced = Absent
    BY <1>2, <2>1 DEF Names
  <2>3. /\ fs' \in [Path -> Names] /\ fs'[p] = w
        /\ \A q \in Path \ {p} : KeepsNames(q)
    BY <1>2, <1>4, <2>1, TreeKeeps DEF Change
  <2>4. Moved(p, "refresh")
    BY <1>2, <1>4, GotoMoves
  <2>5. Placed(call.path, call.op, call.at)'
    BY <2>4 DEF Placed, Moved
  <2> QED BY <1>2, <1>4, <2>2, <2>3, <2>4, <2>5, NamesOwn DEF Sound
<1> QED BY <1>3, <1>4 DEF Drop, Fails, Outcome

-----------------------------------------------------------------------------
(* The steps that change directories above the path, or objects below it.  *)

\* What every step of an operation keeps.
StepKeeps ==
  /\ call' \in Calls /\ call'.path = call.path /\ call'.op = call.op
  /\ plan' = plan /\ faults' = faults
  /\ fs' \in [Path -> Names]
  /\ \A q \in Path : Sound(q)'
  /\ Placed(call.path, call.op, call.at)'
  /\ phase # "applied" => \A q \in plan.captured : OldIsThere(q) => OldIsThere(q)'

\* A directory above a path in progress is not recovered before the path is.
LEMMA AboveStands ==
  ASSUME ActiveInv, NEW p \in Path, call # NoCall, call.path = p, phase # "applied",
         NEW a \in Above[p], Republished(a)
  PROVE  ~Recovering(a)
<1>1. a \in Path
  BY PathsAbove
<1>2. a \in Intended /\ p \in Intended
  BY <1>1 DEF ActiveInv, Ordered, Issued, Republished
<1>3. turn[a] < turn[p]
  BY <1>2 DEF ActiveInv, Ordered, Republished
<1>4. phase \in {"forward", "recover"} /\ undone[p] = "none"
  BY <1>1 DEF ActiveInv, Issued, Ordered
<1> QED BY <1>2, <1>3, <1>4 DEF ActiveInv, Ordered

LEMMA RefreshedKeeps ==
  ASSUME ActiveInv, UNCHANGED owner, NEW p \in Path,
         Running(p, "refresh") \/ Running(p, "readmit"), Refreshed(p)
  PROVE  StepKeeps
<1>1. /\ TypeOK /\ call.path = p /\ call # NoCall /\ fs \in [Path -> Names]
      /\ call.op = "discard" <=> phase = "applied"
  BY OwnContext DEF At, ActiveInv, Issued
<1>2. PICK done \in SUBSET NeedsRefresh(p) :
        (\A a \in done : Refreshable(a)) /\ RefreshAncestors(p, done)
  BY DEF Refreshed
<1>3. Moved(p, "returned")
  BY <1>1, AnswerMoves DEF Refreshed
<1>4. /\ plan' = plan /\ effects' = effects
      /\ \A q \in Path : Recovering(q)' <=> Recovering(q)
  <2>1. effects' = effects
    BY <1>2 DEF RefreshAncestors
  <2>2. plan' = plan /\ \A q \in Path : Recovering(q)' <=> Recovering(q)
    <3>1. /\ plan' = plan /\ undone' = undone
          /\ call'.op = call.op /\ call'.path = call.path
      BY <1>1, <1>3 DEF Moved, owner
    <3> QED BY <3>1 DEF Recovering
  <2> QED BY <2>1, <2>2
<1>5. ASSUME NEW q \in Path \ done
      PROVE  fs'[q] = fs[q]
  BY <1>2, <1>5 DEF RefreshAncestors
<1>6. ASSUME NEW a \in done
      PROVE  /\ a \in Path /\ a \in Above[p] /\ IsDir(fs[a].leaf)
             /\ RefreshTo(a) # Absent
             /\ fs'[a] = [fs[a] EXCEPT !.leaf = RefreshTo(a)]
             /\ RefreshTo(a) \in Object
  <2>1. a \in Path /\ a \in Above[p] /\ RefreshTo(a) # Absent
    BY <1>2, PathsAbove DEF NeedsRefresh
  <2>2. RefreshTo(a) \in Object
    BY <1>1, <2>1, PlanTyped DEF RefreshTo
  <2> QED BY <1>2, <2>1, <2>2 DEF Refreshable, RefreshAncestors
<1>7. ASSUME NEW a \in done
      PROVE  /\ fs'[a] \in Names /\ fs'[a].leaf = RefreshTo(a)
             /\ fs'[a].prepared = fs[a].prepared /\ fs'[a].displaced = fs[a].displaced
  <2>1. fs[a] \in Names
    <3>1. a \in Path
      BY <1>6
    <3> QED BY <1>1, <3>1
  <2>2. PICK object \in Object : object = RefreshTo(a)
    BY <1>6
  <2>3. fs'[a] = [fs[a] EXCEPT !.leaf = object]
    BY <1>6, <2>2
  <2> QED BY <2>1, <2>2, <2>3, WithLeaf
<1>8. fs' \in [Path -> Names]
  <2>1. \A q \in Path : fs'[q] \in Names
    BY <1>1, <1>5, <1>7
  <2>2. fs' = [q \in Path |-> fs'[q]]
    BY <1>2 DEF RefreshAncestors
  <2> QED BY <2>1, <2>2
<1>9. ASSUME NEW q \in Path
      PROVE  Sound(q)'
  <2>1. Sound(q)
    BY DEF ActiveInv
  <2>2. CASE q \in done
    <3>1. ~Contradictory(q)' /\ (fs'[q].displaced # Absent =>
            plan'.before[q] # Absent /\ SameOld(fs'[q].displaced, plan'.before[q]))
      <4>1. /\ fs[q].leaf # Absent /\ plan' = plan
            /\ fs'[q].prepared = fs[q].prepared /\ fs'[q].displaced = fs[q].displaced
        BY <1>4, <1>6, <1>7, <2>2 DEF IsDir
      <4> QED BY <2>1, <4>1 DEF Sound, Contradictory, Slot
    <3>2. effects'[q] = "completed" /\ plan'.effect[q] = "incoming" /\ ~Recovering(q)' =>
            fs'[q].leaf # Absent /\ fs'[q].leaf.kind = plan'.incoming[q].kind
      <4>1. fs'[q].leaf = RefreshTo(q) /\ RefreshTo(q) # Absent
            /\ plan' = plan /\ effects' = effects
        BY <1>4, <1>6, <1>7, <2>2
      <4> QED BY <4>1 DEF RefreshTo, Republished
    <3> QED BY <3>1, <3>2 DEF Sound
  <2>3. CASE q \notin done
    <3>1. fs'[q] = fs[q]
      BY <1>5, <2>3
    <3> QED BY <1>4, <2>1, <3>1 DEF Sound, Contradictory
  <2> QED BY <2>2, <2>3
<1>10. ASSUME phase # "applied", NEW q \in plan.captured, OldIsThere(q)
       PROVE  OldIsThere(q)'
  <2>1. q \in Path /\ plan.before[q] # Absent /\ plan.before[q].value = "old"
    <3>1. q \in Path
      BY <1>1, PlanTyped
    <3> QED BY <1>1, <3>1, PlanTyped
  <2>2. CASE q \notin done
    <3>1. fs'[q] = fs[q]
      BY <1>5, <2>1, <2>2
    <3> QED BY <1>4, <1>10, <3>1 DEF OldIsThere
  <2>3. CASE q \in done /\ SameOld(fs[q].displaced, plan.before[q])
    BY <1>4, <1>7, <2>3 DEF OldIsThere
  <2>4. CASE q \in done /\ SameOld(fs[q].leaf, plan.before[q])
    <3>1. fs[q].leaf.kind = "dir" /\ plan.before[q].kind = "dir"
      BY <1>6, <2>4 DEF IsDir, SameOld
    <3>2. Republished(q) => plan.incoming[q].kind = "dir"
      <4>1. Sound(q)
        BY <2>1 DEF ActiveInv
      <4>2. Republished(q) => ~Recovering(q)
        BY <1>1, <1>6, <1>10, <2>4, AboveStands
      <4> QED BY <3>1, <4>1, <4>2 DEF Sound, Republished
    <3>3. RefreshTo(q).kind = "dir" /\ RefreshTo(q) # Absent
      BY <1>6, <2>4, <3>1, <3>2 DEF RefreshTo
    <3>4. SameOld(fs'[q].leaf, plan.before[q])
      BY <1>7, <2>4, <3>1, <3>3 DEF SameOld
    <3> QED BY <1>4, <3>4 DEF OldIsThere
  <2> QED BY <1>10, <2>2, <2>3, <2>4 DEF OldIsThere
<1>11. Placed(call.path, call.op, call.at)'
  BY <1>3 DEF Placed, Moved
<1> QED BY <1>1, <1>3, <1>8, <1>9, <1>10, <1>11 DEF StepKeeps, Moved

LEMMA DropBelowKeeps ==
  ASSUME ActiveInv, UNCHANGED owner, NEW p \in Path, DropBelow(p)
  PROVE  StepKeeps
<1>1. /\ TypeOK /\ call.path = p /\ fs \in [Path -> Names]
      /\ call.op = "discard" /\ phase = "applied" /\ call.at = "drop"
  BY OwnContext DEF DropBelow, Placed, At
<1>2. PICK q \in Path : Change(q, [fs[q] EXCEPT !.displaced = Absent])
  BY DEF DropBelow
<1>3. PICK w \in Names : w = [fs[q] EXCEPT !.displaced = Absent]
  <2>1. fs[q] \in Names
    BY <1>1
  <2>2. [fs[q] EXCEPT !.displaced = Absent] \in Names
    BY ONLY <2>1 DEF Names
  <2> QED BY ONLY <2>2
<1>4. w.leaf = fs[q].leaf /\ w.displaced = Absent
  BY <1>1, <1>3 DEF Names
<1>5. /\ fs' \in [Path -> Names] /\ fs'[q] = w
      /\ \A r \in Path \ {q} : KeepsNames(r)
  <2>1. fs' = Tree(q, w)
    BY <1>2, <1>3 DEF Change
  <2> QED BY <1>1, <2>1, TreeKeeps
<1>6. /\ plan' = plan /\ faults' = faults /\ effects' = effects /\ call' = call
      /\ \A r \in Path : Recovering(r)' <=> Recovering(r)
  BY DEF DropBelow, Recovering, owner
<1>7. ASSUME NEW r \in Path
      PROVE  Sound(r)'
  <2>1. Sound(r)
    BY DEF ActiveInv
  <2>2. CASE r = q
    BY <1>4, <1>5, <1>6, <2>1, <2>2 DEF Sound, Contradictory, Slot
  <2>3. CASE r # q
    BY <1>1, <1>5, <1>6, <2>1, <2>3, KeptIsSound
  <2> QED BY <2>2, <2>3
<1>8. Placed(call.path, call.op, call.at)'
  BY <1>1, <1>6 DEF Placed
<1>9. call' \in Calls
  BY <1>1, <1>6 DEF TypeOK, Calls
<1> QED BY <1>1, <1>5, <1>6, <1>7, <1>8, <1>9 DEF StepKeeps

-----------------------------------------------------------------------------
(* Every step of an operation keeps the invariant.                         *)

\* The types of what a step says of p.
Noted(p) ==
  /\ call.path = p
  /\ effects' \in [Path -> {"none", "attempted", "completed"}]
  /\ \A q \in Path \ {p} : effects'[q] = effects[q]
  /\ dirty' \in {"clean", "dirty", "incomplete"}
  /\ answer' \in Pending
  /\ call'.at = "returned" => answer' # "none"
  /\ unsynced' \subseteq Path

LEMMA RefreshedNotes ==
  ASSUME TypeOK, NEW p \in Path, call.path = p, Refreshed(p)
  PROVE  Noted(p)
<1>1. PICK done \in SUBSET Above[p] : RefreshAncestors(p, done)
  BY DEF Refreshed, NeedsRefresh
<1>2. done \subseteq Path
  BY PathsAbove
<1>3. answer' \in Pending /\ answer' # "none"
  BY DEF Refreshed, Answer, Pending, Outcome
<1> QED BY <1>1, <1>2, <1>3 DEF TypeOK, Noted, RefreshAncestors, RetainDirty

\* A step ends the operation or goes on with it, and touches no other path.
LEMMA UsualNotes ==
  ASSUME TypeOK, NEW p \in Path, call.path = p,
         \/ \E outcome \in Outcome : Answer(outcome)
         \/ \E point \in At \ {"returned"} : Goto(point),
         UNCHANGED effects \/ Attempt(p) \/ Complete(p),
         UNCHANGED dirty \/ RetainDirty,
         UNCHANGED unsynced \/ unsynced' = unsynced \cup {p}
  PROVE  Noted(p)
<1>1. answer' \in Pending /\ (call'.at = "returned" => answer' # "none")
  <2>1. CASE \E outcome \in Outcome : Answer(outcome)
    BY <2>1 DEF Answer, Pending, Outcome
  <2>2. CASE \E point \in At \ {"returned"} : Goto(point)
    BY <2>2 DEF Goto, TypeOK
  <2> QED BY <2>1, <2>2
<1>2. dirty' \in {"clean", "dirty", "incomplete"}
  <2>1. dirty \in {"clean", "dirty", "incomplete"}
    BY DEF TypeOK
  <2> QED BY <2>1 DEF RetainDirty
<1>3. /\ effects' \in [Path -> {"none", "attempted", "completed"}]
      /\ \A q \in Path \ {p} : effects'[q] = effects[q]
  <2>1. effects \in [Path -> {"none", "attempted", "completed"}]
    BY DEF TypeOK
  <2> QED BY <2>1 DEF Attempt, Complete
<1>4. unsynced' \subseteq Path
  BY DEF TypeOK
<1> QED BY <1>1, <1>2, <1>3, <1>4 DEF Noted

LEMMA StepNotes ==
  ASSUME TypeOK, NEW p \in Path, Mechanism(p)
  PROVE  Noted(p)
<1>1. CASE PublishIncoming(p)
  <2>1. call.path = p
    BY <1>1 DEF PublishIncoming, Running
  <2>2. \/ \E outcome \in Outcome : Answer(outcome)
        \/ \E point \in At \ {"returned"} : Goto(point)
    BY <1>1 DEF PublishIncoming, Refuse, Outcome, At
  <2>3. /\ UNCHANGED effects \/ Attempt(p) \/ Complete(p)
        /\ UNCHANGED dirty \/ RetainDirty
        /\ UNCHANGED unsynced \/ unsynced' = unsynced \cup {p}
    BY <1>1 DEF PublishIncoming, Refuse
  <2> QED BY <2>1, <2>2, <2>3, UsualNotes
<1>2. CASE Prepare(p)
  <2>1. call.path = p
    BY <1>2 DEF Prepare, Running
  <2>2. \/ \E outcome \in Outcome : Answer(outcome)
        \/ \E point \in At \ {"returned"} : Goto(point)
    BY <1>2 DEF Prepare, Abandon, Fails, Refuse, Outcome, At
  <2>3. /\ UNCHANGED effects \/ Attempt(p) \/ Complete(p)
        /\ UNCHANGED dirty \/ RetainDirty
        /\ UNCHANGED unsynced \/ unsynced' = unsynced \cup {p}
    BY <1>2 DEF Prepare, Abandon, Fails, Refuse
  <2> QED BY <2>1, <2>2, <2>3, UsualNotes
<1>3. CASE Displace(p)
  <2>1. call.path = p
    BY <1>3 DEF Displace, Running
  <2>2. \/ \E outcome \in Outcome : Answer(outcome)
        \/ \E point \in At \ {"returned"} : Goto(point)
    BY <1>3 DEF Displace, Abandon, Outcome, At
  <2>3. /\ UNCHANGED effects \/ Attempt(p) \/ Complete(p)
        /\ UNCHANGED dirty \/ RetainDirty
        /\ UNCHANGED unsynced \/ unsynced' = unsynced \cup {p}
    BY <1>3 DEF Displace, Abandon, Change
  <2> QED BY <2>1, <2>2, <2>3, UsualNotes
<1>4. CASE Activate(p)
  <2>1. call.path = p
    BY <1>4 DEF Activate, Running
  <2>2. \/ \E outcome \in Outcome : Answer(outcome)
        \/ \E point \in At \ {"returned"} : Goto(point)
    BY <1>4 DEF Activate, Abandon, Outcome, At
  <2>3. /\ UNCHANGED effects \/ Attempt(p) \/ Complete(p)
        /\ UNCHANGED dirty \/ RetainDirty
        /\ UNCHANGED unsynced \/ unsynced' = unsynced \cup {p}
    BY <1>4 DEF Activate, Abandon, Change, RetainPublished
  <2> QED BY <2>1, <2>2, <2>3, UsualNotes
<1>5. CASE UpdateDirectory(p)
  <2>1. call.path = p
    BY <1>5 DEF UpdateDirectory, Running
  <2>2. \/ \E outcome \in Outcome : Answer(outcome)
        \/ \E point \in At \ {"returned"} : Goto(point)
    BY <1>5 DEF UpdateDirectory, Updated, Fails, Refuse, Outcome, At
  <2>3. /\ UNCHANGED effects \/ Attempt(p) \/ Complete(p)
        /\ UNCHANGED dirty \/ RetainDirty
        /\ UNCHANGED unsynced \/ unsynced' = unsynced \cup {p}
    BY <1>5 DEF UpdateDirectory, Updated, Fails, Refuse, SetDirectory
  <2> QED BY <2>1, <2>2, <2>3, UsualNotes
<1>6. CASE FinishUpdate(p)
  <2>1. call.path = p
    BY <1>6 DEF FinishUpdate, Running
  <2>2. \/ \E outcome \in Outcome : Answer(outcome)
        \/ \E point \in At \ {"returned"} : Goto(point)
    BY <1>6 DEF FinishUpdate, Updated, Fails, Refuse, Outcome, At
  <2>3. /\ UNCHANGED effects \/ Attempt(p) \/ Complete(p)
        /\ UNCHANGED dirty \/ RetainDirty
        /\ UNCHANGED unsynced \/ unsynced' = unsynced \cup {p}
    BY <1>6 DEF FinishUpdate, Updated, Fails, Refuse, SetDirectory
  <2> QED BY <2>1, <2>2, <2>3, UsualNotes
<1>7. CASE Remove(p)
  <2>1. call.path = p
    BY <1>7 DEF Remove, Running
  <2>2. \/ \E outcome \in Outcome : Answer(outcome)
        \/ \E point \in At \ {"returned"} : Goto(point)
    BY <1>7 DEF Remove, Refuse, Outcome, At
  <2>3. /\ UNCHANGED effects \/ Attempt(p) \/ Complete(p)
        /\ UNCHANGED dirty \/ RetainDirty
        /\ UNCHANGED unsynced \/ unsynced' = unsynced \cup {p}
    BY <1>7 DEF Remove, Refuse
  <2> QED BY <2>1, <2>2, <2>3, UsualNotes
<1>8. CASE Take(p)
  <2>1. call.path = p
    BY <1>8 DEF Take, Running
  <2>2. \/ \E outcome \in Outcome : Answer(outcome)
        \/ \E point \in At \ {"returned"} : Goto(point)
    BY <1>8 DEF Take, Fails, Refuse, Outcome, At
  <2>3. /\ UNCHANGED effects \/ Attempt(p) \/ Complete(p)
        /\ UNCHANGED dirty \/ RetainDirty
        /\ UNCHANGED unsynced \/ unsynced' = unsynced \cup {p}
    BY <1>8 DEF Take, Fails, Refuse, Change
  <2> QED BY <2>1, <2>2, <2>3, UsualNotes
<1>9. CASE Recover(p)
  <2>1. call.path = p
    BY <1>9 DEF Recover, Running
  <2>2. \/ \E outcome \in Outcome : Answer(outcome)
        \/ \E point \in At \ {"returned"} : Goto(point)
    BY <1>9 DEF Recover, Refuse, Outcome, At
  <2>3. /\ UNCHANGED effects \/ Attempt(p) \/ Complete(p)
        /\ UNCHANGED dirty \/ RetainDirty
        /\ UNCHANGED unsynced \/ unsynced' = unsynced \cup {p}
    BY <1>9 DEF Recover, Refuse
  <2> QED BY <2>1, <2>2, <2>3, UsualNotes
<1>10. CASE Clean(p)
  <2>1. call.path = p
    BY <1>10 DEF Clean, Running
  <2>2. \/ \E outcome \in Outcome : Answer(outcome)
        \/ \E point \in At \ {"returned"} : Goto(point)
    BY <1>10 DEF Clean, Fails, Refuse, Outcome, At
  <2>3. /\ UNCHANGED effects \/ Attempt(p) \/ Complete(p)
        /\ UNCHANGED dirty \/ RetainDirty
        /\ UNCHANGED unsynced \/ unsynced' = unsynced \cup {p}
    BY <1>10 DEF Clean, Fails, Refuse
  <2> QED BY <2>1, <2>2, <2>3, UsualNotes
<1>11. CASE Unpublish(p)
  <2>1. call.path = p
    BY <1>11 DEF Unpublish, Running
  <2>2. \/ \E outcome \in Outcome : Answer(outcome)
        \/ \E point \in At \ {"returned"} : Goto(point)
    BY <1>11 DEF Unpublish, Fails, Refuse, Outcome, At
  <2>3. /\ UNCHANGED effects \/ Attempt(p) \/ Complete(p)
        /\ UNCHANGED dirty \/ RetainDirty
        /\ UNCHANGED unsynced \/ unsynced' = unsynced \cup {p}
    BY <1>11 DEF Unpublish, Fails, Refuse, Change
  <2> QED BY <2>1, <2>2, <2>3, UsualNotes
<1>12. CASE Restore(p)
  <2>1. call.path = p
    BY <1>12 DEF Restore, Running
  <2>2. \/ \E outcome \in Outcome : Answer(outcome)
        \/ \E point \in At \ {"returned"} : Goto(point)
    BY <1>12 DEF Restore, Fails, Refuse, Outcome, At
  <2>3. /\ UNCHANGED effects \/ Attempt(p) \/ Complete(p)
        /\ UNCHANGED dirty \/ RetainDirty
        /\ UNCHANGED unsynced \/ unsynced' = unsynced \cup {p}
    BY <1>12 DEF Restore, Fails, Refuse, Change
  <2> QED BY <2>1, <2>2, <2>3, UsualNotes
<1>13. CASE Withdraw(p)
  <2>1. call.path = p
    BY <1>13 DEF Withdraw, Running
  <2>2. \/ \E outcome \in Outcome : Answer(outcome)
        \/ \E point \in At \ {"returned"} : Goto(point)
    BY <1>13 DEF Withdraw, Fails, Refuse, Outcome, At
  <2>3. /\ UNCHANGED effects \/ Attempt(p) \/ Complete(p)
        /\ UNCHANGED dirty \/ RetainDirty
        /\ UNCHANGED unsynced \/ unsynced' = unsynced \cup {p}
    BY <1>13 DEF Withdraw, Fails, Refuse, Change
  <2> QED BY <2>1, <2>2, <2>3, UsualNotes
<1>14. CASE Copy(p)
  <2>1. call.path = p
    BY <1>14 DEF Copy, Running
  <2>2. \/ \E outcome \in Outcome : Answer(outcome)
        \/ \E point \in At \ {"returned"} : Goto(point)
    BY <1>14 DEF Copy, Abandon, Fails, Refuse, Outcome, At
  <2>3. /\ UNCHANGED effects \/ Attempt(p) \/ Complete(p)
        /\ UNCHANGED dirty \/ RetainDirty
        /\ UNCHANGED unsynced \/ unsynced' = unsynced \cup {p}
    BY <1>14 DEF Copy, Abandon, Fails, Refuse
  <2> QED BY <2>1, <2>2, <2>3, UsualNotes
<1>15. CASE Vacate(p)
  <2>1. call.path = p
    BY <1>15 DEF Vacate, Running
  <2>2. \/ \E outcome \in Outcome : Answer(outcome)
        \/ \E point \in At \ {"returned"} : Goto(point)
    BY <1>15 DEF Vacate, Abandon, Outcome, At
  <2>3. /\ UNCHANGED effects \/ Attempt(p) \/ Complete(p)
        /\ UNCHANGED dirty \/ RetainDirty
        /\ UNCHANGED unsynced \/ unsynced' = unsynced \cup {p}
    BY <1>15 DEF Vacate, Abandon, Change
  <2> QED BY <2>1, <2>2, <2>3, UsualNotes
<1>16. CASE Install(p)
  <2>1. call.path = p
    BY <1>16 DEF Install, Running
  <2>2. \/ \E outcome \in Outcome : Answer(outcome)
        \/ \E point \in At \ {"returned"} : Goto(point)
    BY <1>16 DEF Install, Abandon, Outcome, At
  <2>3. /\ UNCHANGED effects \/ Attempt(p) \/ Complete(p)
        /\ UNCHANGED dirty \/ RetainDirty
        /\ UNCHANGED unsynced \/ unsynced' = unsynced \cup {p}
    BY <1>16 DEF Install, Abandon, Change, RetainPublished
  <2> QED BY <2>1, <2>2, <2>3, UsualNotes
<1>17. CASE DiscardRecovery(p)
  <2>1. call.path = p
    BY <1>17 DEF DiscardRecovery, Running
  <2>2. \/ \E outcome \in Outcome : Answer(outcome)
        \/ \E point \in At \ {"returned"} : Goto(point)
    BY <1>17 DEF DiscardRecovery, Refuse, Outcome, At
  <2>3. /\ UNCHANGED effects \/ Attempt(p) \/ Complete(p)
        /\ UNCHANGED dirty \/ RetainDirty
        /\ UNCHANGED unsynced \/ unsynced' = unsynced \cup {p}
    BY <1>17 DEF DiscardRecovery, Refuse
  <2> QED BY <2>1, <2>2, <2>3, UsualNotes
<1>18. CASE Drop(p)
  <2>1. call.path = p
    BY <1>18 DEF Drop, Running
  <2>2. \/ \E outcome \in Outcome : Answer(outcome)
        \/ \E point \in At \ {"returned"} : Goto(point)
    BY <1>18 DEF Drop, Fails, Refuse, Outcome, At
  <2>3. /\ UNCHANGED effects \/ Attempt(p) \/ Complete(p)
        /\ UNCHANGED dirty \/ RetainDirty
        /\ UNCHANGED unsynced \/ unsynced' = unsynced \cup {p}
    BY <1>18 DEF Drop, Fails, Refuse, Change
  <2> QED BY <2>1, <2>2, <2>3, UsualNotes
<1>19. CASE DropBelow(p)
  BY <1>19 DEF DropBelow, Change, Running, TypeOK, Noted
<1>20. CASE Refresh(p)
  BY <1>20, RefreshedNotes DEF Refresh, Running
<1>21. CASE Readmit(p)
  <2>1. call.path = p
    BY <1>21 DEF Readmit, Running
  <2>2. CASE Refuse("indeterminate")
    BY <2>1, <2>2, UsualNotes DEF Refuse, Outcome
  <2> QED BY <1>21, <2>1, <2>2, RefreshedNotes DEF Readmit
<1> QED
  BY <1>1, <1>2, <1>3, <1>4, <1>5, <1>6, <1>7, <1>8, <1>9, <1>10, <1>11, <1>12,
     <1>13, <1>14, <1>15, <1>16, <1>17, <1>18, <1>19, <1>20, <1>21 DEF Mechanism

LEMMA OwnKeeps ==
  ASSUME ActiveInv, UNCHANGED owner, NEW p \in Path, Own(p), Noted(p)
  PROVE  StepKeeps
<1>1. TypeOK /\ call.path = p
  BY DEF ActiveInv, Noted
<1>2. /\ plan' = plan /\ faults' = faults /\ call' \in Calls
      /\ call'.path = p /\ call'.op = call.op
  BY DEF Own, Moved
<1>3. ASSUME NEW q \in Path, q # p
      PROVE  Sound(q)' /\ (OldIsThere(q) => OldIsThere(q)')
  <2>1. Sound(q) /\ KeepsNames(q) /\ effects'[q] = effects[q]
    BY <1>3 DEF ActiveInv, Own, Noted
  <2>2. Recovering(q) => Recovering(q)'
    BY <1>1, <1>2 DEF Recovering, owner
  <2> QED BY <1>1, <1>2, <2>1, <2>2, KeptIsSound
<1>4. \A q \in Path : Sound(q)'
  BY <1>3 DEF Own
<1>5. ASSUME phase # "applied", NEW q \in plan.captured, OldIsThere(q)
      PROVE  OldIsThere(q)'
  <2>1. q \in Path
    BY <1>1, PlanTyped
  <2> QED BY <1>3, <1>5, <2>1 DEF Own
<1> QED BY <1>1, <1>2, <1>4, <1>5 DEF Own, StepKeeps

LEMMA MechanismStepKeeps ==
  ASSUME ActiveInv, UNCHANGED owner, NEW p \in Path, Mechanism(p)
  PROVE  StepKeeps
<1>1. Noted(p)
  BY StepNotes DEF ActiveInv
<1>2. Own(p) => StepKeeps
  BY <1>1, OwnKeeps
<1>3. CASE Refresh(p)
  BY <1>3, RefreshedKeeps DEF Refresh
<1>4. CASE Readmit(p)
  <2>1. CASE Refuse("indeterminate")
    <3>1. call.path = p /\ call # NoCall
      BY <1>4, OwnContext DEF Readmit, At
    <3> QED BY <1>2, <2>1, <3>1, RefuseOwn
  <2> QED BY <1>4, <2>1, RefreshedKeeps DEF Readmit
<1>5. CASE DropBelow(p)
  BY <1>5, DropBelowKeeps
<1>6. CASE ~Refresh(p) /\ ~Readmit(p) /\ ~DropBelow(p)
  BY <1>2, <1>6, PublishIncomingOwn, PrepareOwn, DisplaceOwn, ActivateOwn,
     UpdateDirectoryOwn, FinishUpdateOwn, RemoveOwn, TakeOwn, RecoverOwn, CleanOwn,
     UnpublishOwn, RestoreOwn, WithdrawOwn, CopyOwn, VacateOwn, InstallOwn,
     DiscardRecoveryOwn, DropOwn DEF Mechanism
<1> QED BY <1>3, <1>4, <1>5, <1>6

LEMMA MechanismPreserves ==
  ASSUME ActiveInv, UNCHANGED <<owner, reply>>, NEW p \in Path, Mechanism(p)
  PROVE  ActiveInv'
<1>1. StepKeeps
  BY MechanismStepKeeps
<1>2. Noted(p) /\ call # NoCall
  BY StepNotes, MechanismKeeps DEF ActiveInv
<1>3. /\ phase' = phase /\ turn' = turn /\ terminal' = terminal /\ undone' = undone
      /\ fact' = fact /\ up' = up /\ Intended' = Intended
  BY DEF owner, Intended
<1>4. /\ plan' = plan /\ call'.path = call.path /\ call'.op = call.op
      /\ \A q \in Path : Recovering(q)' <=> Recovering(q)
  BY <1>1, <1>3 DEF StepKeeps, Recovering
<1>5. TypeOK'
  BY <1>1, <1>2, <1>3 DEF ActiveInv, TypeOK, StepKeeps, Noted, Calls, Names
<1>6. \A q \in Path : Sound(q)'
  BY <1>1 DEF StepKeeps
<1>7. Issued'
  BY <1>1, <1>2, <1>3, <1>4 DEF ActiveInv, Issued, StepKeeps, Noted
<1>8. Ordered'
  <2>1. p \in Intended
    BY <1>2 DEF ActiveInv, Issued, Noted
  <2>2. \A q \in Path : effects'[q] # "none" => q \in Intended
    BY <1>2, <2>1 DEF ActiveInv, Ordered, Noted
  <2>3. Planned' = Planned
    BY <1>4 DEF Planned
  <2> QED BY <1>3, <1>4, <2>2, <2>3 DEF ActiveInv, Ordered, Intended
<1>9. Exclusive'
  BY <1>2, <1>3 DEF ActiveInv, Exclusive, NoReply
<1> QED BY <1>5, <1>6, <1>7, <1>8, <1>9 DEF ActiveInv

-----------------------------------------------------------------------------
(* The steps of the engine.                                                *)

\* The tree, the plan and the effects stay, and no recovery is forgotten.
LEMMA SoundStays ==
  ASSUME ActiveInv, UNCHANGED <<fs, plan, effects>>,
         \A q \in Path : Recovering(q) => Recovering(q)'
  PROVE  \A q \in Path : Sound(q)'
BY DEF ActiveInv, Sound, Contradictory

LEMMA OrderStays ==
  ASSUME ActiveInv, UNCHANGED <<plan, turn>>,
         \A q \in Path : effects'[q] # "none" \/ terminal'[q] # "none" => q \in Intended,
         phase' = "forward" => phase = "forward",
         phase' \in {"forward", "recover"} => phase \in {"forward", "recover"},
         \A q \in Path : undone[q] # "none" => undone'[q] # "none",
         phase' # "applied" => \A q \in Path : Recovering(q)' => Recovering(q),
         phase' = "forward" => undone' = undone
  PROVE  Ordered'
<1>1. Intended' = Intended /\ Planned' = Planned
  BY DEF Intended, Planned
<1>2. Intended \subseteq Path
  BY DEF Intended
<1>3. \A q \in Path : turn'[q] <= Cardinality(Intended')
  BY <1>1 DEF ActiveInv, Ordered
<1>4. \A p \in Intended' : \A a \in Above[p] :
        plan'.effect[a] = "incoming" => turn'[a] > 0 /\ turn'[a] < turn'[p]
  BY <1>1 DEF ActiveInv, Ordered
<1>5. phase' = "forward" => \A q \in Path : undone'[q] = "none"
  BY DEF ActiveInv, Ordered
<1>6. phase' \in {"forward", "recover"} =>
        \A a, p \in Intended' : Recovering(a)' /\ turn'[a] < turn'[p] => undone'[p] # "none"
  <2> SUFFICES ASSUME phase' \in {"forward", "recover"}, NEW a \in Intended, NEW p \in Intended,
                      Recovering(a)', turn[a] < turn[p]
               PROVE  undone'[p] # "none"
    BY <1>1
  <2>1. a \in Path /\ p \in Path
    BY <1>2
  <2>2. Recovering(a) /\ phase \in {"forward", "recover"}
    BY <2>1
  <2>3. undone[p] # "none"
    BY <2>2 DEF ActiveInv, Ordered
  <2> QED BY <2>1, <2>3
<1>7. Intended' \subseteq Planned'
  BY <1>1 DEF ActiveInv, Ordered
<1> QED BY <1>1, <1>3, <1>4, <1>5, <1>6, <1>7 DEF Ordered

LEMMA QuietKeeps ==
  ASSUME ActiveInv, UNCHANGED vars, Exclusive'
  PROVE  ActiveInv'
<1>1. /\ fs' = fs /\ plan' = plan /\ effects' = effects /\ call' = call /\ phase' = phase
      /\ turn' = turn /\ terminal' = terminal /\ undone' = undone /\ up' = up
      /\ faults' = faults /\ dirty' = dirty /\ answer' = answer /\ unsynced' = unsynced
      /\ fact' = fact
  BY DEF vars, namespace, owner
<1>2. \A q \in Path : Recovering(q)' <=> Recovering(q)
  BY <1>1 DEF Recovering
<1>3. TypeOK'
  BY <1>1 DEF ActiveInv, TypeOK
<1>4. \A q \in Path : Sound(q)'
  BY <1>1, <1>2, SoundStays
<1>5. Issued'
  BY <1>1 DEF ActiveInv, Issued, Placed, Intended, Clear, Admitted
<1>6. Ordered'
  BY <1>1, <1>2, OrderStays DEF ActiveInv, Ordered
<1> QED BY <1>3, <1>4, <1>5, <1>6 DEF ActiveInv

LEMMA ExecuteKeeps ==
  ASSUME ActiveInv, NEW p \in Path, ExecuteActive(p), reply = NoReply, reply' = reply
  PROVE  ActiveInv'
<1>1. /\ fs' = fs /\ plan' = plan /\ effects' = effects /\ phase' = phase
      /\ terminal' = terminal /\ undone' = undone /\ up' = up /\ up = "up"
      /\ faults' = faults /\ dirty' = dirty /\ answer' = answer /\ unsynced' = unsynced
      /\ fact' = fact /\ call = NoCall /\ phase = "forward"
      /\ p \in Planned /\ p \notin Intended
      /\ \A q \in Planned \ Intended : ~Precedes(q, p)
      /\ call' = [op |-> IF plan.effect[p] = "incoming" THEN "publish" ELSE "remove",
                  path |-> p, at |-> "enter"]
      /\ turn' = [turn EXCEPT ![p] = Cardinality(Intended) + 1]
  BY DEF ExecuteActive, Issue
<1>2. TypeOK
  BY DEF ActiveInv
<1>3. /\ IsFiniteSet(Intended) /\ Cardinality(Intended) \in Nat
      /\ Cardinality(Intended \cup {p}) = Cardinality(Intended) + 1
  <2>1. Intended \subseteq Path
    BY DEF Intended
  <2> QED BY <1>1, <2>1, FS_Subset, FS_CardinalityType, FS_AddElement
<1>4. /\ turn' \in [Path -> Nat] /\ turn'[p] = Cardinality(Intended) + 1
      /\ \A q \in Path \ {p} : turn'[q] = turn[q]
  BY <1>1, <1>2, <1>3 DEF TypeOK
<1>5. Intended' = Intended \cup {p}
  BY <1>3, <1>4 DEF Intended
<1>6. TypeOK'
  BY <1>1, <1>2, <1>4 DEF TypeOK, At
<1>7. \A q \in Path : Recovering(q)' <=> Recovering(q)
  BY <1>1 DEF Recovering, NoCall
<1>8. \A q \in Path : Sound(q)'
  BY <1>1, <1>7, SoundStays
<1>9. Issued'
  <2>1. plan.effect[p] \in {"incoming", "remove"}
    BY <1>1, <1>2, PlanTyped DEF Planned
  <2>2. call'.path = p /\ call'.at = "enter" /\ call'.op \in {"publish", "remove"}
        /\ (call'.op = "publish" <=> plan.effect[p] = "incoming")
    BY <1>1
  <2>3. Placed(call.path, call.op, call.at)'
    BY <2>2 DEF Placed
  <2> QED BY <1>1, <1>5, <2>1, <2>2, <2>3 DEF Issued
<1>10. Ordered'
  <2>1. \A q \in Path : effects'[q] # "none" \/ terminal'[q] # "none" => q \in Intended'
    BY <1>1, <1>5 DEF ActiveInv, Ordered
  <2>2. Intended' \subseteq Planned'
    BY <1>1, <1>5 DEF ActiveInv, Ordered, Planned
  <2>3. \A q \in Path : turn'[q] <= Cardinality(Intended')
    <3>1. \A q \in Path : turn[q] \in Nat /\ turn[q] <= Cardinality(Intended)
      BY <1>2 DEF ActiveInv, Ordered, TypeOK
    <3> QED BY <1>3, <1>4, <1>5, <3>1
  <2>4. ASSUME NEW q \in Intended', NEW a \in Above[q], plan'.effect[a] = "incoming"
        PROVE  turn'[a] > 0 /\ turn'[a] < turn'[q]
    <3>1. a \in Path /\ q \in Path /\ a # q
      BY <1>5, PathsAbove DEF Intended
    <3>2. CASE q = p
      <4>1. a \in Planned
        BY <1>1, <2>4, <3>1 DEF Planned
      <4>2. Precedes(a, p)
        BY <1>1, <2>4, <3>2 DEF Precedes
      <4>3. a \in Intended
        BY <1>1, <4>1, <4>2
      <4>4. turn[a] > 0 /\ turn[a] <= Cardinality(Intended) /\ turn[a] \in Nat
        BY <1>2, <3>1, <4>3 DEF ActiveInv, Ordered, Intended, TypeOK
      <4> QED BY <1>3, <1>4, <3>1, <3>2, <4>4
    <3>3. CASE q # p
      <4>1. q \in Intended
        BY <1>5, <3>3
      <4>2. turn[a] > 0 /\ turn[a] < turn[q]
        BY <1>1, <2>4, <4>1 DEF ActiveInv, Ordered
      <4>3. a # p
        BY <1>1, <3>1, <4>2 DEF Intended
      <4> QED BY <1>4, <3>1, <3>3, <4>2, <4>3
    <3> QED BY <3>2, <3>3
  <2>5. \A q \in Path : undone'[q] = "none" /\ ~Recovering(q)'
    BY <1>1, <1>7 DEF ActiveInv, Ordered, Recovering, NoCall
  <2>6. \A a \in Intended' : ~Recovering(a)'
    BY <2>5 DEF Intended
  <2> QED BY <2>1, <2>2, <2>3, <2>4, <2>5, <2>6 DEF Ordered
<1>11. Exclusive'
  BY DEF Exclusive, NoReply
<1> QED BY <1>6, <1>8, <1>9, <1>10, <1>11 DEF ActiveInv

\* An operation on an intended path is issued in its phase.
LEMMA IssueKeeps ==
  ASSUME ActiveInv, NEW p \in Intended, NEW op \in {"recover", "discard"}, Issue(p, op),
         UNCHANGED owner, reply = NoReply, reply' = reply,
         op = "recover" => /\ phase = "recover" /\ undone[p] = "none"
                           /\ \A q \in Intended : undone[q] = "none" => turn[q] <= turn[p],
         op = "discard" => phase = "applied"
  PROVE  ActiveInv'
<1>1. /\ fs' = fs /\ plan' = plan /\ effects' = effects /\ phase' = phase
      /\ turn' = turn /\ terminal' = terminal /\ undone' = undone /\ up' = up /\ up = "up"
      /\ faults' = faults /\ dirty' = dirty /\ answer' = answer /\ unsynced' = unsynced
      /\ fact' = fact /\ call = NoCall
      /\ call' = [op |-> op, path |-> p, at |-> "enter"]
      /\ Intended' = Intended /\ Planned' = Planned
  BY DEF Issue, owner, Intended, Planned
<1>2. p \in Path /\ TypeOK
  BY DEF Intended, ActiveInv
<1>3. TypeOK'
  BY <1>1, <1>2 DEF TypeOK, At
<1>4. \A q \in Path : Recovering(q)' <=> Recovering(q) \/ (op = "recover" /\ q = p)
  BY <1>1 DEF Recovering, NoCall
<1>5. \A q \in Path : Sound(q)'
  BY <1>1, <1>4, SoundStays
<1>6. Issued'
  <2>1. call'.path = p /\ call'.at = "enter" /\ call'.op = op
    BY <1>1
  <2>2. Placed(call.path, call.op, call.at)'
    BY <2>1 DEF Placed
  <2> QED BY <1>1, <2>1, <2>2 DEF Issued
<1>7. Ordered'
  <2>1. phase' \in {"forward", "recover"} =>
          \A a, q \in Intended' : Recovering(a)' /\ turn'[a] < turn'[q] => undone'[q] # "none"
    <3> SUFFICES ASSUME phase \in {"forward", "recover"}, NEW a \in Intended, NEW q \in Intended,
                        Recovering(a)', turn[a] < turn[q]
                 PROVE  undone[q] # "none"
      BY <1>1
    <3>1. a \in Path /\ q \in Path
      BY DEF Intended
    <3>2. CASE Recovering(a)
      BY <3>2 DEF ActiveInv, Ordered
    <3>3. CASE op = "recover" /\ a = p
      <4>1. turn[a] \in Nat /\ turn[q] \in Nat
        BY <1>2, <3>1 DEF TypeOK
      <4> QED BY <3>3, <4>1
    <3> QED BY <1>4, <3>1, <3>2, <3>3
  <2> QED BY <1>1, <2>1 DEF ActiveInv, Ordered
<1>8. Exclusive'
  BY DEF Exclusive, NoReply
<1> QED BY <1>3, <1>5, <1>6, <1>7, <1>8 DEF ActiveInv

\* The result of an effect is recorded, and a failure leads to recovery.
LEMMA RecordEffectKeeps ==
  ASSUME ActiveInv, NEW p \in Path, reply = NoReply, reply' = reply, RecordEffect(p)
  PROVE  ActiveInv'
<1>1. /\ fs' = fs /\ plan' = plan /\ effects' = effects /\ undone' = undone
      /\ turn' = turn /\ up' = up /\ fact' = fact
      /\ faults' = faults /\ dirty' = dirty /\ answer' = "none" /\ unsynced' = unsynced
      /\ call' = NoCall /\ call.path = p /\ call.at = "returned" /\ call # NoCall
      /\ call.op \in {"publish", "remove"}
      /\ terminal' = [terminal EXCEPT ![p] = answer]
  BY DEF RecordEffect, Returned, NoCall
<1>2. TypeOK /\ p \in Intended /\ phase = "forward" /\ phase' \in {"forward", "recover"}
  BY <1>1 DEF ActiveInv, Issued, RecordEffect
<1>3. TypeOK'
  BY <1>1, <1>2 DEF TypeOK, NoCall, At, Pending
<1>4. \A q \in Path : Recovering(q)' <=> Recovering(q)
  BY <1>1 DEF Recovering, NoCall
<1>5. \A q \in Path : Sound(q)'
  BY <1>1, <1>4, SoundStays
<1>6. \A q \in Path : terminal'[q] # "none" => q \in Intended
  BY <1>1, <1>2 DEF TypeOK, ActiveInv, Ordered
<1>7. Ordered'
  BY <1>1, <1>2, <1>4, <1>6, OrderStays DEF ActiveInv, Ordered
<1>8. Issued' /\ Exclusive'
  BY <1>1 DEF Issued, Exclusive, NoReply
<1> QED BY <1>3, <1>5, <1>7, <1>8 DEF ActiveInv

\* The result of a recovery or a discard is recorded.
LEMMA RecordUndoneKeeps ==
  ASSUME ActiveInv, NEW p \in Path, reply = NoReply, reply' = reply,
         RecordRecovery(p) \/ RecordDiscard(p)
  PROVE  ActiveInv'
<1>1. /\ fs' = fs /\ plan' = plan /\ effects' = effects /\ terminal' = terminal
      /\ turn' = turn /\ up' = up /\ fact' = fact /\ phase' = phase
      /\ faults' = faults /\ dirty' = dirty /\ answer' = "none" /\ unsynced' = unsynced
      /\ call' = NoCall /\ call.path = p /\ call.at = "returned" /\ call # NoCall
      /\ call.op \in {"recover", "discard"}
      /\ undone' = [undone EXCEPT ![p] = answer]
  BY DEF RecordRecovery, RecordDiscard, Returned, NoCall
<1>2. /\ TypeOK /\ answer # "none"
      /\ call.op = "discard" => phase = "applied"
      /\ call.op = "recover" => phase = "recover"
  BY <1>1 DEF ActiveInv, Issued
<1>3. TypeOK'
  BY <1>1, <1>2 DEF TypeOK, NoCall, At, Pending
<1>4. /\ \A q \in Path \ {p} : undone'[q] = undone[q]
      /\ undone'[p] # "none"
  BY <1>1, <1>2 DEF TypeOK
<1>5. /\ \A q \in Path : Recovering(q) => Recovering(q)'
      /\ call.op = "recover" => \A q \in Path : Recovering(q)' => Recovering(q)
  BY <1>1, <1>4 DEF Recovering, NoCall
<1>6. \A q \in Path : Sound(q)'
  BY <1>1, <1>5, SoundStays
<1>7. Ordered'
  BY <1>1, <1>2, <1>4, <1>5, OrderStays DEF ActiveInv, Ordered
<1>8. Issued' /\ Exclusive'
  BY <1>1 DEF Issued, Exclusive, NoReply
<1> QED BY <1>3, <1>6, <1>7, <1>8 DEF ActiveInv

\* Nothing is under way: the engine goes over to another phase, or records how a
\* synchronization went.
LEMMA PhaseKeeps ==
  ASSUME ActiveInv, call = NoCall,
         UNCHANGED <<faults, plan, fs, effects, call, answer, turn, terminal, undone, up>>,
         dirty' \in {"clean", "dirty", "incomplete"}, unsynced' \subseteq Path,
         fact' \in {"none", "not_attempted", "confirmed", "unconfirmed"},
         phase' \in {"forward", "recover", "applied", "restored"},
         phase' = "forward" => phase = "forward",
         phase' = "recover" => phase \in {"forward", "recover"},
         Exclusive'
  PROVE  ActiveInv'
<1>1. TypeOK'
  BY DEF ActiveInv, TypeOK
<1>2. \A q \in Path : Recovering(q)' <=> Recovering(q)
  BY DEF Recovering
<1>3. \A q \in Path : Sound(q)'
  BY <1>2, SoundStays
<1>4. Issued'
  BY DEF Issued
<1>5. Ordered'
  BY <1>2, OrderStays DEF ActiveInv, Ordered
<1> QED BY <1>1, <1>3, <1>4, <1>5 DEF ActiveInv

LEMMA CancelKeeps ==
  ASSUME ActiveInv, Cancel, reply = NoReply, reply' = reply
  PROVE  ActiveInv'
<1>1. Exclusive'
  BY DEF Exclusive, NoReply
<1>2. TypeOK
  BY DEF ActiveInv
<1> QED BY <1>1, <1>2, PhaseKeeps DEF Cancel, namespace, TypeOK

LEMMA ConcludeKeeps ==
  ASSUME ActiveInv, BackendInv, BackendConclude
  PROVE  ActiveInv'
<1>1. /\ UNCHANGED <<namespace, turn, terminal, undone, fact, up, reply>> /\ call = NoCall
      /\ \/ phase = "forward" /\ phase' = "applied"
         \/ phase = "recover" /\ phase' = "restored"
  BY DEF BackendConclude, Conclude, backend
<1>2. reply.outcome # "failed"
  <2> SUFFICES ASSUME reply.outcome = "failed" PROVE FALSE
    OBVIOUS
  <2>1. phase = "forward" /\ reply.domain \in Early /\ reply # NoReply
    BY DEF ActiveInv, Exclusive, NoReply
  <2>2. Done(reply.domain)
    BY <2>1 DEF BackendConclude, Early
  <2>3. Lacking(reply.domain, reply.path)
    BY <2>1 DEF BackendInv, ReplyAwaited
  <2> QED BY <2>2, <2>3 DEF Done, Completes, Lacking
<1>3. Exclusive'
  BY <1>1, <1>2 DEF ActiveInv, Exclusive, namespace
<1>4. TypeOK
  BY DEF ActiveInv
<1> QED BY <1>1, <1>3, <1>4, PhaseKeeps DEF namespace, TypeOK

LEMMA SynchronizeKeeps ==
  ASSUME ActiveInv, SynchronizeActive
  PROVE  ActiveInv'
<1>1. /\ UNCHANGED <<faults, plan, fs, effects, call, answer, phase, turn, terminal, undone,
                     up, reply>>
      /\ call = NoCall
  BY DEF SynchronizeActive, Synchronize, namespace, backend
<1>2. TypeOK
  BY DEF ActiveInv
<1>3. /\ dirty' \in {"clean", "dirty", "incomplete"} /\ unsynced' \subseteq Path
      /\ fact' \in {"none", "not_attempted", "confirmed", "unconfirmed"}
  BY <1>2 DEF SynchronizeActive, Synchronize, namespace, TypeOK
<1>4. Exclusive'
  BY <1>1 DEF ActiveInv, Exclusive
<1>5. phase \in {"forward", "recover", "applied", "restored"}
  BY <1>2 DEF TypeOK
<1> QED BY <1>1, <1>3, <1>4, <1>5, PhaseKeeps

LEMMA ResultKeeps ==
  ASSUME ActiveInv, RecordResult
  PROVE  ActiveInv'
<1>1. /\ UNCHANGED <<namespace, turn, terminal, undone, fact, up>> /\ call = NoCall
      /\ reply' = NoReply
      /\ \/ phase' = phase
         \/ phase' = "recover" /\ phase = "forward"
  BY DEF RecordResult, ActiveInv, Exclusive
<1>2. Exclusive'
  BY <1>1 DEF Exclusive, NoReply
<1>3. TypeOK
  BY DEF ActiveInv
<1> QED BY <1>1, <1>2, <1>3, PhaseKeeps DEF namespace, TypeOK

LEMMA LoseKeeps ==
  ASSUME ActiveInv, NEW p \in Path, Lose(p), reply = NoReply, reply' = reply
  PROVE  ActiveInv'
<1>1. TypeOK /\ fs \in [Path -> Names] /\ call = NoCall
      /\ UNCHANGED <<faults, plan, effects, dirty, call, answer, unsynced, phase, turn,
                     terminal, undone, fact, up>>
  BY DEF ActiveInv, TypeOK, Names, Lose, owner
<1>2. PICK w \in Names : w = [fs[p] EXCEPT !.displaced = Absent]
  <2>1. [fs[p] EXCEPT !.displaced = Absent] \in Names
    BY <1>1 DEF Names
  <2> QED BY <2>1
<1>3. w.leaf = fs[p].leaf /\ w.displaced = Absent
  BY <1>1, <1>2 DEF Names
<1>4. /\ fs' \in [Path -> Names] /\ fs'[p] = w
      /\ \A q \in Path \ {p} : KeepsNames(q)
  <2>1. fs' = Tree(p, w)
    BY <1>2 DEF Lose
  <2> QED BY <1>1, <2>1, TreeKeeps
<1>5. \A q \in Path : Recovering(q)' <=> Recovering(q)
  BY <1>1 DEF Recovering
<1>6. ASSUME NEW q \in Path
      PROVE  Sound(q)'
  <2>1. Sound(q)
    BY DEF ActiveInv
  <2>2. CASE q = p
    BY <1>1, <1>3, <1>4, <1>5, <2>1, <2>2 DEF Sound, Contradictory, Slot
  <2>3. CASE q # p
    BY <1>1, <1>4, <1>5, <2>1, <2>3, KeptIsSound
  <2> QED BY <2>2, <2>3
<1>7. TypeOK'
  BY <1>1, <1>4 DEF TypeOK, Names
<1>8. Issued' /\ Exclusive'
  BY <1>1 DEF Issued, Exclusive, NoReply
<1>9. Ordered'
  BY <1>1, <1>5, OrderStays DEF ActiveInv, Ordered
<1> QED BY <1>6, <1>7, <1>8, <1>9 DEF ActiveInv

\* The process dies and with it what it knew of the effects.
LEMMA ForgetKeeps ==
  ASSUME ActiveInv, Crash \/ Throw, ForgetAuthority
  PROVE  ActiveInv'
<1>1. /\ UNCHANGED <<faults, plan, fs, unsynced, phase, turn, terminal, undone, fact>>
      /\ up' = "down" /\ reply' = NoReply /\ call' = NoCall
      /\ effects' = [q \in Path |-> "none"] /\ dirty' = "clean" /\ answer' = "none"
  BY DEF Crash, Throw, Forget, ForgetAuthority
<1>2. TypeOK'
  BY <1>1 DEF ActiveInv, TypeOK, NoCall, At, Pending
<1>3. \A q \in Path : Sound(q)'
  BY <1>1 DEF ActiveInv, Sound, Contradictory
<1>4. Issued' /\ Exclusive'
  BY <1>1 DEF Issued, Exclusive, NoReply
<1>5. \A q \in Path : Recovering(q)' => Recovering(q)
  BY <1>1 DEF Recovering, NoCall
<1>6. Ordered'
  BY <1>1, <1>5, OrderStays DEF ActiveInv, Ordered
<1> QED BY <1>2, <1>3, <1>4, <1>6 DEF ActiveInv

\* A restarted process holds an effect for completed when it sees its object.
LEMMA RestartKeeps ==
  ASSUME ActiveInv, BackendInv, LoadRestart
  PROVE  ActiveInv'
<1>1. /\ UNCHANGED <<faults, plan, fs, dirty, call, answer, unsynced, turn, terminal, undone,
                     fact, reply>>
      /\ up = "down" /\ call = NoCall /\ up' \in {"up", "refused"}
      /\ reply = NoReply
  BY DEF LoadRestart, Restart, namespace, backend, ActiveInv, Issued, BackendInv, ReplyAwaited
<1>2. \/ effects' = effects /\ phase' = phase
      \/ /\ \A q \in Completed : Established(q)
         /\ effects' = [q \in Path |-> IF q \in Completed THEN "completed" ELSE "none"]
         /\ phase' = phase \/ (phase' = "recover" /\ phase = "forward")
  BY DEF LoadRestart, Restart, namespace
<1>3. TypeOK
  BY DEF ActiveInv
<1>4. TypeOK'
  <2>1. effects' \in [Path -> {"none", "attempted", "completed"}]
    BY <1>2, <1>3 DEF TypeOK
  <2>2. phase' \in {"forward", "recover", "applied", "restored"}
    BY <1>2, <1>3 DEF TypeOK
  <2> QED BY <1>1, <1>3, <2>1, <2>2 DEF TypeOK
<1>5. \A q \in Path : Recovering(q)' <=> Recovering(q)
  BY <1>1 DEF Recovering
<1>6. ASSUME NEW q \in Path
      PROVE  Sound(q)'
  <2>1. Sound(q)
    BY DEF ActiveInv
  <2>2. CASE effects' = effects
    BY <1>1, <1>5, <2>1, <2>2 DEF Sound, Contradictory
  <2>3. CASE /\ \A r \in Completed : Established(r)
             /\ effects' = [r \in Path |-> IF r \in Completed THEN "completed" ELSE "none"]
    <3>1. effects'[q] = "completed" /\ plan.effect[q] = "incoming" =>
            fs[q].leaf # Absent /\ fs[q].leaf.kind = plan.incoming[q].kind
      BY <2>3 DEF Established, MatchesIncoming
    <3> QED BY <1>1, <2>1, <3>1 DEF Sound, Contradictory
  <2> QED BY <1>2, <2>2, <2>3
<1>7. Issued' /\ Exclusive'
  BY <1>1 DEF Issued, Exclusive, NoReply
<1>8. \A q \in Path : effects'[q] # "none" \/ terminal'[q] # "none" => q \in Intended
  BY <1>1, <1>2 DEF Completed, ActiveInv, Ordered
<1>9. Ordered'
  <2>1. phase' = "forward" => phase = "forward"
    BY <1>2
  <2>2. phase' \in {"forward", "recover"} => phase \in {"forward", "recover"}
    BY <1>2
  <2> QED BY <1>1, <1>5, <1>8, <2>1, <2>2, OrderStays
<1> QED BY <1>4, <1>6, <1>7, <1>9 DEF ActiveInv

\* A command on a store is executed while no operation is under way.
LEMMA StoreKeeps ==
  ASSUME ActiveInv, NEW domain \in Domain, NEW k, Ready(domain), UNCHANGED vars,
         \/ Reply(domain, k, "completed")
         \/ Reply(domain, k, "failed") /\ domain \in Early
  PROVE  ActiveInv'
<1>1. call' = call /\ phase' = phase
  BY VarsKept
<1>2. call = NoCall /\ (domain \in Early => phase = "forward")
  BY DEF Ready, Early
<1>3. Exclusive'
  BY <1>1, <1>2 DEF Exclusive, Reply
<1> QED BY <1>3, QuietKeeps

-----------------------------------------------------------------------------
(* The invariant and what follows from it.                                 *)

LEMMA InitActive == BackendInit => ActiveInv
<1> SUFFICES ASSUME BackendInit PROVE ActiveInv
  OBVIOUS
<1> USE DEF BackendInit, Init
<1>1. plan \in Plans /\ plan \in Plan
  OBVIOUS
<1>2. \A p \in Path : fs[p] \in Names
  BY <1>1 DEF Plan, Names
<1>3. TypeOK
  BY <1>1, <1>2 DEF TypeOK, Names, NoCall, At, Pending
<1>4. ASSUME NEW p \in Path
      PROVE  Sound(p)
  BY DEF Sound, Contradictory, Slot
<1>5. Intended = {}
  BY DEF Intended
<1>6. Issued /\ Exclusive
  BY DEF Issued, Exclusive, NoReply
<1>7. Ordered
  <2>1. Cardinality(Intended) = 0
    BY <1>5, FS_EmptySet
  <2> QED BY <1>5, <2>1 DEF Ordered
<1> QED BY <1>3, <1>4, <1>6, <1>7 DEF ActiveInv

LEMMA NextKeeps ==
  ASSUME ActiveInv, BackendInv, [BackendNext]_<<vars, backend>>
  PROVE  ActiveInv'
<1> USE DEF Early, Domain
<1>1. CASE StagePayloads
  BY <1>1, StoreKeeps DEF StagePayloads, Keep, StoreFails
<1>2. ASSUME NEW p \in Path, CaptureOld(p) \/ ExecuteRejected(p)
      PROVE  ActiveInv'
  <2>1. CASE CaptureOld(p)
    BY <2>1, StoreKeeps DEF CaptureOld, Keep, StoreFails
  <2>2. CASE ExecuteRejected(p)
    BY <2>2, StoreKeeps DEF ExecuteRejected, Keep, StoreFails
  <2> QED BY <1>2, <2>1, <2>2
<1>3. CASE PublishCompletedEvidence
  BY <1>3, StoreKeeps DEF PublishCompletedEvidence, Keep
<1>4. CASE RecordResult
  BY <1>4, ResultKeeps
<1>5. CASE LosePower \/ (\E domain \in Domain : SynchronizeStore(domain))
           \/ UNCHANGED <<vars, backend>>
  <2>1. UNCHANGED vars /\ reply' = reply
    BY <1>5 DEF LosePower, SynchronizeStore, backend
  <2>2. Exclusive'
    BY <2>1, VarsKept DEF ActiveInv, Exclusive
  <2> QED BY <2>1, <2>2, QuietKeeps
<1>6. ASSUME NEW p \in Path, BackendExecuteActive(p)
      PROVE  ActiveInv'
  BY <1>6, ExecuteKeeps DEF BackendExecuteActive
<1>7. ASSUME NEW p \in Path, BackendRecover(p)
      PROVE  ActiveInv'
  BY <1>7, IssueKeeps DEF BackendRecover, RecoverPath
<1>8. CASE SynchronizeActive
  BY <1>8, SynchronizeKeeps
<1>9. CASE BackendConclude
  BY <1>9, ConcludeKeeps
<1>10. CASE reply = NoReply /\ ActiveStep /\ UNCHANGED backend
  <2>1. reply = NoReply /\ reply' = reply
    BY <1>10 DEF backend
  <2>2. ASSUME NEW p \in Path, Mechanism(p) /\ UNCHANGED owner
        PROVE  ActiveInv'
    BY <2>1, <2>2, MechanismPreserves
  <2>3. ASSUME NEW p \in Path, RecordEffect(p)
        PROVE  ActiveInv'
    BY <2>1, <2>3, RecordEffectKeeps
  <2>4. ASSUME NEW p \in Path, RecordRecovery(p) \/ RecordDiscard(p)
        PROVE  ActiveInv'
    BY <2>1, <2>4, RecordUndoneKeeps
  <2>5. ASSUME NEW p \in Path, DiscardPath(p)
        PROVE  ActiveInv'
    BY <2>1, <2>5, IssueKeeps DEF DiscardPath, Displacing
  <2>6. ASSUME NEW p \in Path, Lose(p)
        PROVE  ActiveInv'
    BY <2>1, <2>6, LoseKeeps
  <2>7. CASE Cancel
    BY <2>1, <2>7, CancelKeeps
  <2> QED BY <1>10, <2>2, <2>3, <2>4, <2>5, <2>6, <2>7 DEF ActiveStep
<1>11. CASE (Crash \/ Throw) /\ ForgetAuthority
  BY <1>11, ForgetKeeps
<1>12. CASE LoadRestart
  BY <1>12, RestartKeeps
<1> QED
  BY <1>1, <1>2, <1>3, <1>4, <1>5, <1>6, <1>7, <1>8, <1>9, <1>10, <1>11, <1>12
     DEF BackendNext

LEMMA ActiveInvHolds == Spec => []ActiveInv
<1> QED BY InitActive, NextKeeps, BackendInvHolds, PTL DEF Spec

\* The namespace, the engine and the transaction keep to their types.
THEOREM BackendTypesHold == Spec => []BackendTypeOK
<1>1. ActiveInv /\ BackendInv => BackendTypeOK
  <2> SUFFICES ASSUME ActiveInv, BackendInv PROVE BackendTypeOK
    OBVIOUS
  <2>1. TypeOK /\ Typed
    BY DEF ActiveInv, BackendInv
  <2>2. reply \in [domain : Domain \cup {"none"}, path : Key, outcome : Outcomes]
    <3>1. CASE reply = NoReply
      BY <3>1 DEF NoReply, Key, Outcomes
    <3>2. CASE reply \in [domain : Domain, path : Key, outcome : {"completed", "failed"}]
      BY <3>2 DEF Outcomes
    <3> QED BY <2>1, <3>1, <3>2 DEF Typed
  <2> QED BY <2>1, <2>2 DEF Typed, BackendTypeOK
<1> QED BY <1>1, ActiveInvHolds, BackendInvHolds, PTL

\* Whatever fails and wherever the process stops, no path has all three names: the
\* state that recover can only answer with "indeterminate" is out of its own reach.
THEOREM NeverAllThreeNames == Spec => []NeverContradictory
<1>1. ActiveInv => NeverContradictory
  BY DEF ActiveInv, Sound, NeverContradictory
<1> QED BY <1>1, ActiveInvHolds, PTL

\* A step that is none of an operation and no loss leaves the tree as it is.
LEMMA OthersKeepTree ==
  ASSUME BackendNext,
         ~\E p \in Path : Mechanism(p) /\ UNCHANGED owner,
         ~\E p \in Path : Lose(p)
  PROVE  fs' = fs /\ plan' = plan
<1>1. \A p \in Path :
        \/ RecordEffect(p) \/ RecordRecovery(p) \/ RecordDiscard(p)
        \/ BackendExecuteActive(p) \/ BackendRecover(p) \/ DiscardPath(p)
        => fs' = fs /\ plan' = plan
  BY DEF RecordEffect, RecordRecovery, RecordDiscard, Returned, BackendExecuteActive,
         BackendRecover, ExecuteActive, RecoverPath, DiscardPath, Issue
<1>2. Cancel \/ BackendConclude \/ SynchronizeActive \/ RecordResult
        => fs' = fs /\ plan' = plan
  BY DEF Cancel, BackendConclude, Conclude, SynchronizeActive, Synchronize, RecordResult,
         namespace
<1>3. Crash \/ Throw \/ LoadRestart => fs' = fs /\ plan' = plan
  BY DEF Crash, Throw, LoadRestart, Restart, namespace
<1>4. UNCHANGED vars => fs' = fs /\ plan' = plan
  BY DEF vars, namespace
<1>5. LosePower \/ (\E domain \in Domain : SynchronizeStore(domain)) => UNCHANGED vars
  BY DEF SynchronizeStore, LosePower
<1>6. StagePayloads \/ PublishCompletedEvidence => UNCHANGED vars
  BY DEF StagePayloads, PublishCompletedEvidence, Keep, StoreFails
<1>7. \A p \in Path : CaptureOld(p) \/ ExecuteRejected(p) => UNCHANGED vars
  BY DEF CaptureOld, ExecuteRejected, Keep, StoreFails
<1>8. ActiveStep => fs' = fs /\ plan' = plan
  BY <1>1, <1>2 DEF ActiveStep
<1> QED BY <1>1, <1>2, <1>3, <1>4, <1>5, <1>6, <1>7, <1>8 DEF BackendNext

LEMMA LoseKeepsOthers ==
  ASSUME ActiveInv, NEW p \in Path, NEW q \in Path, p # q, Lose(q), OldIsThere(p)
  PROVE  OldIsThere(p)'
<1>1. TypeOK /\ Sound(p) /\ fs[q] \in Names
  BY DEF ActiveInv, TypeOK, Names
<1>2. PICK w \in Names : w = [fs[q] EXCEPT !.displaced = Absent]
  <2>1. [fs[q] EXCEPT !.displaced = Absent] \in Names
    BY <1>1 DEF Names
  <2> QED BY ONLY <2>1
<1>3. fs' = Tree(q, w)
  BY <1>2 DEF Lose
<1>4. KeepsNames(p)
  BY <1>1, <1>3, TreeKeeps
<1>5. plan' = plan /\ effects' = effects /\ call' = call /\ undone' = undone
  BY DEF Lose, owner
<1>6. Recovering(p) => Recovering(p)'
  BY <1>5 DEF Recovering
<1> QED BY <1>1, <1>4, <1>5, <1>6, KeptIsSound

LEMMA OldStays ==
  ASSUME ActiveInv, [BackendNext]_<<vars, backend>>, phase' \in {"forward", "recover"},
         NEW p \in Path, p \in plan.captured, OldIsThere(p), ~Lose(p)
  PROVE  OldIsThere(p)'
<1>1. CASE \E q \in Path : Lose(q)
  BY <1>1, LoseKeepsOthers
<1>2. CASE \E q \in Path : Mechanism(q) /\ UNCHANGED owner
  <2>1. phase' = phase
    BY <1>2 DEF owner
  <2>2. StepKeeps
    BY <1>2, MechanismStepKeeps
  <2> QED BY <2>1, <2>2 DEF StepKeeps
<1>3. CASE fs' = fs /\ plan' = plan
  BY <1>3 DEF OldIsThere
<1>4. CASE UNCHANGED <<vars, backend>>
  BY <1>3, <1>4 DEF vars, namespace
<1> QED BY <1>1, <1>2, <1>3, <1>4, OthersKeepTree

\* Until the attempt is applied or restored every step of every operation, failed
\* ones included, leaves the old object of a captured path in the target tree.
THEOREM OldObjectsStay == Spec => OldObjectKept
<1>1. ActiveInv => plan.captured \subseteq Path
  BY DEF ActiveInv, TypeOK, Plan
<1>2. ActiveInv /\ [BackendNext]_<<vars, backend>> =>
        [phase' \in {"forward", "recover"} =>
           \A p \in plan.captured : OldIsThere(p) => OldIsThere(p)' \/ Lose(p)]_vars
  BY <1>1, OldStays
<1> QED BY <1>2, ActiveInvHolds, PTL DEF Spec, OldObjectKept

-----------------------------------------------------------------------------
(* The paths are a tree. *)

\* Of some paths one has no other of them above it.
LEMMA Lowest ==
  ASSUME NEW some \in SUBSET Path, some # {}
  PROVE  \E x \in some : \A y \in some :
           ~(Above[y] \subseteq Above[x] /\ Above[y] # Above[x])
<1>1. FiniteSubsetsOf(Path) = SUBSET Path
  BY FS_FiniteSubsetsOfFinite
<1>2. IsWellFoundedOn(StrictSubsetOrdering(Path), SUBSET Path)
  <2>1. IsWellFoundedOn(StrictSubsetOrdering(Path), FiniteSubsetsOf(Path))
    BY FS_StrictSubsetOrderingWellFounded
  <2> QED BY <1>1, <2>1
<1>3. \A T : T \subseteq SUBSET Path /\ T # {} =>
        \E s \in T : \A t \in T : ~(<<t, s>> \in StrictSubsetOrdering(Path))
  BY <1>2, WFMin
<1>4. PICK s \in {Above[x] : x \in some} :
        \A t \in {Above[x] : x \in some} : ~(<<t, s>> \in StrictSubsetOrdering(Path))
  <2>1. {Above[x] : x \in some} \subseteq SUBSET Path /\ {Above[x] : x \in some} # {}
    BY PathsAbove
  <2> QED BY <1>3, <2>1
<1>5. PICK x \in some : s = Above[x]
  BY <1>4
<1>6. ASSUME NEW y \in some, Above[y] \subseteq Above[x], Above[y] # Above[x]
      PROVE  FALSE
  <2>1. <<Above[y], s>> \in StrictSubsetOrdering(Path)
    BY <1>5, <1>6, PathsAbove DEF StrictSubsetOrdering
  <2> QED BY <1>4, <1>6, <2>1
<1> QED BY <1>6

\* A path below p has an entry of p above it, or is one.
LEMMA EntryTowards ==
  ASSUME NEW p \in Path, NEW x \in Path, p \in Above[x]
  PROVE  \E c \in Above[x] \cup {x} : Parent[c] = p
<1> DEFINE Lacks(y) == p \in Above[y] /\ \A c \in Above[y] \cup {y} : Parent[c] # p
<1> SUFFICES ASSUME Lacks(x) PROVE FALSE
  OBVIOUS
<1>1. PICK y \in {z \in Path : Lacks(z)} : \A z \in {z \in Path : Lacks(z)} :
        ~(Above[z] \subseteq Above[y] /\ Above[z] # Above[y])
  <2>1. {z \in Path : Lacks(z)} \in SUBSET Path /\ {z \in Path : Lacks(z)} # {}
    OBVIOUS
  <2> QED BY <2>1, Lowest
<1>2. /\ Parent[y] \in Path /\ Parent[y] # p
      /\ Above[y] = {Parent[y]} \cup Above[Parent[y]]
      /\ Parent[y] \notin Above[Parent[y]]
  BY <1>1, PathsAbove
<1>3. Lacks(Parent[y])
  BY <1>1, <1>2
<1> QED BY <1>1, <1>2, <1>3

-----------------------------------------------------------------------------
(* The tree agrees with the results.                                       *)

\* Nothing is being undone.
Going == phase \in {"forward", "applied"}

\* Effects without a result, and what the results say of a path.
Open    == {p \in Intended : terminal[p] = "none"}
Want(p) == IF terminal[p] = "completed" THEN Final(p) ELSE plan.before[p]

\* One effect at a time is open: the latest, and the one in progress.
OneOpen ==
  /\ up = "up" => Open = IF call.op \in {"publish", "remove"} THEN {call.path} ELSE {}
  /\ phase = "applied" => Open = {}
  /\ \A p \in Open : \A q \in Intended \ {p} : turn[q] < turn[p]

\* An applied attempt has left nothing out.
Through == phase = "applied" => Planned \subseteq Intended

\* effects_ are the recorded results.
Known ==
  up = "up" => \A p \in Path \ Open :
                 effects[p] = "completed" <=> terminal[p] = "completed"

\* The tree is what the results say, but for what the open effect is changing and,
\* once displaced objects are discarded, the mtimes of directories.
Near == \A p \in Path \ Open : Alike(fs[p].leaf, Want(p))

Untouched(p) == \A x \in Open : p # x /\ p \notin Above[x]

Exact == fact = "none" => \A p \in Path : Untouched(p) => fs[p].leaf = Want(p)

\* A completed path is still reached through directories, or gone with them.
DirOrGone(a) == fs[a].leaf # Absent => IsDir(fs[a].leaf)

Reached ==
  \A p \in Completed : \A a \in Above[p] :
    IF plan.effect[p] = "incoming" THEN IsDir(fs[a].leaf) ELSE DirOrGone(a)

\* What the operation under way has done so far.
AllAsWanted == \A p \in Path : fs[p].leaf = Want(p)

Working(p) ==
  /\ call.at # "enter" => Resolves(p)
  /\ call.at \in {"enter", "take"} => AllAsWanted
  /\ call.at = "take" => effects[p] = "attempted"
  /\ call.at = "refresh" => fs[p].leaf = Final(p) /\ effects[p] = "completed"
  /\ call.at = "returned" /\ answer = "completed" =>
       /\ fs[p].leaf = Final(p) /\ effects[p] = "completed"
       /\ \A q \in Path \ {p} : fs[q].leaf = Want(q)
  /\ call.at = "returned" /\ answer = "conditional_retained" =>
       AllAsWanted /\ effects[p] # "completed"

Agrees ==
  /\ OneOpen /\ Through /\ Known /\ Near /\ Exact /\ Reached
  /\ call.op \in {"publish", "remove"} => Working(call.path)
  /\ call.op = "discard" => fact # "none"

TreeInv ==
  /\ Going => Agrees
  /\ phase \in {"forward", "recover"} => fact = "none"

-----------------------------------------------------------------------------
\* What the plan names has not been changed since it was admitted.
LEMMA PlanUnmoved ==
  ASSUME TypeOK, NEW p \in Path
  PROVE  /\ plan.before[p] # Absent => ~plan.before[p].moved
         /\ plan.incoming[p] # Absent => ~plan.incoming[p].moved
BY DEF TypeOK

\* Alike objects are directories, or absent, together.
LEMMA AlikeDirs ==
  ASSUME NEW a, NEW b, Alike(a, b)
  PROVE  (IsDir(a) <=> IsDir(b)) /\ (a = Absent <=> b = Absent)
BY DEF Alike, IsDir

\* Alikeness is transitive.
LEMMA AlikeOnward ==
  ASSUME NEW a, NEW b, NEW c, Alike(a, b), Alike(b, c)
  PROVE  Alike(a, c)
BY DEF Alike

\* A step on p leaves the leaf of every path but p and the directories above it,
\* and these are moved or refreshed.
Beside(p) ==
  /\ \A q \in Path \ {p} : Alike(fs'[q].leaf, fs[q].leaf)
  /\ \A q \in Path \ {p} : q \notin Above[p] => fs'[q].leaf = fs[q].leaf

\* A change of one path's names is a step on that path.
LEMMA TreeBeside ==
  ASSUME TypeOK, NEW p \in Path, NEW w \in Names, fs' = Tree(p, w)
  PROVE  Beside(p) /\ fs'[p] = w
<1>1. fs'[p] = w /\ \A q \in Path \ {p} : KeepsNames(q)
  BY TreeKeeps
<1>2. ASSUME NEW q \in Path \ {p}, q \notin Above[p]
      PROVE  fs'[q].leaf = fs[q].leaf
  <2>1. q # Parent[p]
    BY <1>2
  <2> QED BY <2>1 DEF Tree
<1> QED BY <1>1, <1>2 DEF Beside, KeepsNames

\* A step that changes no name is a step on any path.
LEMMA SameBeside ==
  ASSUME fs' = fs, NEW p \in Path
  PROVE  Beside(p)
BY DEF Beside, Alike

\* A step on a path does not take its parents away.
LEMMA BesideResolves ==
  ASSUME NEW p \in Path, Beside(p), Resolves(p)
  PROVE  Resolves(p)'
<1>1. \A a \in Above[p] : a \in Path \ {p}
  BY PathsAbove
<1> QED BY <1>1, AlikeDirs DEF Beside, Resolves

-----------------------------------------------------------------------------
(* An effect in progress. *)

Pursuing(p) == call.path = p /\ call.op \in {"publish", "remove"}

\* While an effect is carried out it is the one open effect, and the last one.
LEMMA WorkContext ==
  ASSUME ActiveInv, TreeInv, NEW p \in Path, Pursuing(p)
  PROVE  /\ TypeOK /\ call # NoCall /\ up = "up" /\ phase = "forward" /\ fact = "none"
         /\ Agrees /\ Working(p) /\ Open = {p} /\ terminal[p] = "none"
         /\ \A q \in Intended \ {p} : turn[q] < turn[p]
         /\ p \in Intended
         /\ plan.effect[p] = IF call.op = "publish" THEN "incoming" ELSE "remove"
<1>1. call # NoCall
  BY DEF Pursuing, NoCall
<1>2. /\ up = "up" /\ phase = "forward" /\ p \in Intended
      /\ plan.effect[p] = IF call.op = "publish" THEN "incoming" ELSE "remove"
  BY <1>1 DEF ActiveInv, Issued, Pursuing
<1>3. Agrees /\ fact = "none"
  BY <1>2 DEF TreeInv, Going
<1>4. Open = {p} /\ Working(p)
  BY <1>2, <1>3 DEF Agrees, OneOpen, Pursuing
<1>5. terminal[p] = "none"
  BY <1>4 DEF Open
<1>6. \A q \in Intended \ {p} : turn[q] < turn[p]
  BY <1>3, <1>4 DEF Agrees, OneOpen
<1> QED BY <1>1, <1>2, <1>3, <1>4, <1>5, <1>6 DEF ActiveInv

\* What is to be shown of a step of it.
LEMMA WorkKeeps ==
  ASSUME ActiveInv, TreeInv, UNCHANGED owner, NEW p \in Path, Pursuing(p),
         Beside(p), Noted(p), plan' = plan, call'.path = p, call'.op = call.op,
         \A q \in Completed : p \in Above[q] =>
           \/ fs'[p].leaf = fs[p].leaf
           \/ fs'[p].leaf = Absent /\ plan.effect[q] # "incoming",
         Working(p)'
  PROVE  TreeInv'
<1>1. /\ TypeOK /\ up = "up" /\ phase = "forward" /\ fact = "none" /\ Agrees
      /\ Open = {p}
  BY WorkContext
<1>2. /\ phase' = phase /\ turn' = turn /\ terminal' = terminal /\ fact' = fact
      /\ up' = up
  BY DEF owner
<1>3. Intended' = Intended /\ Open' = Open /\ Completed' = Completed
  BY <1>2 DEF Intended, Open, Completed
<1>4. \A q \in Path : Want(q)' = Want(q)
  BY <1>2 DEF Want, Final
<1>5. OneOpen'
  BY <1>1, <1>2, <1>3 DEF Agrees, OneOpen, Pursuing
<1>6. Known'
  BY <1>1, <1>2, <1>3 DEF Agrees, Known, Noted
<1>7. Near'
  <2>1. ASSUME NEW q \in Path \ {p}
        PROVE  Alike(fs'[q].leaf, Want(q)')
    BY <1>1, <1>4, AlikeOnward DEF Agrees, Near, Beside
  <2> QED BY <1>1, <1>3, <2>1 DEF Near
<1>8. Exact'
  <2>1. ASSUME NEW q \in Path, q # p, q \notin Above[p]
        PROVE  fs'[q].leaf = Want(q)'
    BY <1>1, <1>4, <2>1 DEF Agrees, Exact, Untouched, Beside
  <2> QED BY <1>1, <1>3, <2>1 DEF Exact, Untouched
<1>9. Reached'
  <2>1. ASSUME NEW q \in Completed, NEW a \in Above[q]
        PROVE  IF plan'.effect[q] = "incoming" THEN IsDir(fs'[a].leaf)
               ELSE fs'[a].leaf # Absent => IsDir(fs'[a].leaf)
    <3>1. a \in Path
      BY PathsAbove DEF Completed
    <3>2. IF plan.effect[q] = "incoming" THEN IsDir(fs[a].leaf)
          ELSE fs[a].leaf # Absent => IsDir(fs[a].leaf)
      BY <1>1 DEF Agrees, Reached, DirOrGone
    <3>3. CASE a # p
      BY <3>1, <3>2, <3>3, AlikeDirs DEF Beside
    <3>4. CASE a = p
      BY <3>2, <3>4
    <3> QED BY <3>3, <3>4
  <2> QED BY <1>3, <2>1 DEF Reached, DirOrGone
<1>10. Through'
  BY <1>1, <1>2 DEF Through
<1> QED BY <1>1, <1>2, <1>5, <1>6, <1>7, <1>8, <1>9, <1>10 DEF TreeInv, Agrees, Pursuing

\* Nothing completed is below a path that is being published.
LEMMA NoneBelow ==
  ASSUME ActiveInv, TreeInv, NEW p \in Path, Pursuing(p), call.op = "publish",
         NEW q \in Completed
  PROVE  p \notin Above[q]
<1>1. /\ TypeOK /\ p \in Intended /\ plan.effect[p] = "incoming" /\ terminal[p] = "none"
      /\ \A r \in Intended \ {p} : turn[r] < turn[p]
  BY WorkContext
<1>2. q \in Intended /\ q # p /\ q \in Path
  BY <1>1 DEF Completed, ActiveInv, Ordered
<1>3. turn[q] < turn[p] /\ turn[q] \in Nat /\ turn[p] \in Nat
  BY <1>1, <1>2 DEF TypeOK
<1>4. p \in Above[q] => turn[p] < turn[q]
  BY <1>1, <1>2 DEF ActiveInv, Ordered
<1> QED BY <1>3, <1>4

\* A directory on the way to a completed publication has an entry.
LEMMA EntryBelow ==
  ASSUME ActiveInv, TreeInv, NEW p \in Path, Pursuing(p), NEW q \in Completed,
         plan.effect[q] = "incoming", p \in Above[q]
  PROVE  /\ IsDir(fs[p].leaf)
         /\ \E c \in Path : Parent[c] = p /\ fs[c].leaf # Absent
<1>1. TypeOK /\ Agrees /\ Open = {p} /\ terminal[p] = "none" /\ q \in Path
  BY WorkContext DEF Completed
<1>2. \A a \in Above[q] : IsDir(fs[a].leaf)
  BY <1>1 DEF Agrees, Reached
<1>3. fs[q].leaf # Absent
  <2>1. q # p
    BY <1>1 DEF Completed
  <2>2. Want(q) = plan.incoming[q]
    BY DEF Want, Completed, Final
  <2>3. Alike(fs[q].leaf, plan.incoming[q])
    BY <1>1, <2>1, <2>2 DEF Agrees, Near
  <2> QED BY <1>1, <2>3, PlanTyped DEF Alike
<1>4. PICK c \in Above[q] \cup {q} : Parent[c] = p
  BY <1>1, EntryTowards
<1>5. fs[c].leaf # Absent
  BY <1>2, <1>3 DEF IsDir
<1> QED BY <1>1, <1>2, <1>4, <1>5, PathsAbove

\* The directories above a path are refreshed to what the results say of them.
LEMMA RefreshToWant ==
  ASSUME ActiveInv, Agrees, Going, up = "up", NEW a \in Path \ Open
  PROVE  /\ Refreshable(a) => RefreshTo(a) = Want(a)
         /\ RefreshTo(a) # Absent => RefreshTo(a) = Want(a) \/ fs[a].leaf = Absent
         /\ RefreshTo(a) = Absent => Want(a) = Absent
<1>1. effects[a] = "completed" <=> terminal[a] = "completed"
  BY DEF Agrees, Known
<1>2. TypeOK /\ Alike(fs[a].leaf, Want(a))
  BY DEF ActiveInv, Agrees, Near
<1>3. /\ plan.effect[a] \in {"none", "incoming", "remove"}
      /\ plan.effect[a] = "incoming" <=> plan.incoming[a] # Absent
      /\ plan.effect[a] = "remove" => plan.before[a] # Absent
  BY <1>2, PlanTyped
<1>4. effects[a] = "completed" => plan.effect[a] # "none"
  <2>1. effects[a] # "none" => a \in Planned
    BY DEF ActiveInv, Ordered
  <2> QED BY <2>1 DEF Planned
<1>5. RefreshTo(a) = Want(a) \/ (Want(a) = Absent /\ RefreshTo(a) # Absent)
  <2>1. CASE effects[a] # "completed"
    BY <1>1, <2>1 DEF RefreshTo, Republished, Want
  <2>2. CASE effects[a] = "completed" /\ plan.effect[a] = "incoming"
    BY <1>1, <2>2 DEF RefreshTo, Republished, Want, Final
  <2>3. CASE effects[a] = "completed" /\ plan.effect[a] = "remove"
    BY <1>1, <1>3, <2>3 DEF RefreshTo, Republished, Want, Final
  <2> QED BY <1>3, <1>4, <2>1, <2>2, <2>3
<1>6. Want(a) = Absent => fs[a].leaf = Absent
  BY <1>2 DEF Alike
<1>7. Refreshable(a) => fs[a].leaf # Absent
  BY DEF Refreshable, IsDir
<1> QED BY <1>5, <1>6, <1>7

\* The ancestors whose mtime is set get the object the plan gives them.
LEMMA RefreshedLeaves ==
  ASSUME ActiveInv, Agrees, Going, up = "up", NEW p \in Path, Open \subseteq {p},
         call.path = p, Refreshed(p)
  PROVE  /\ fs' \in [Path -> Names]
         /\ \A q \in Path : fs'[q].leaf = fs[q].leaf
              \/ (q \in Above[p] /\ fs'[q].leaf = Want(q))
         /\ Beside(p) /\ fs'[p] = fs[p]
         /\ effects' = effects /\ plan' = plan
         /\ call' = [call EXCEPT !.at = "returned"]
         /\ answer' \in {"completed", "indeterminate"}
         /\ answer' = "completed" => \A a \in Above[p] : fs'[a].leaf = Want(a)
<1>1. TypeOK /\ fs \in [Path -> Names]
  BY DEF ActiveInv, TypeOK, Names
<1>2. Above[p] \subseteq Path \ Open /\ p \notin Above[p] /\ Above[p] \subseteq Path \ {p}
  BY PathsAbove
<1>3. PICK done \in SUBSET NeedsRefresh(p) :
        /\ \A a \in done : Refreshable(a)
        /\ RefreshAncestors(p, done)
        /\ \/ Answer("completed") /\ done = NeedsRefresh(p)
           \/ Answer("indeterminate")
  BY DEF Refreshed
<1>4. fs' = [a \in Path |-> IF a \in done THEN [fs[a] EXCEPT !.leaf = RefreshTo(a)]
                                          ELSE fs[a]]
  BY <1>3 DEF RefreshAncestors
<1>5. done \subseteq Above[p]
  BY <1>3 DEF NeedsRefresh
<1>6. ASSUME NEW a \in done
      PROVE  fs'[a] \in Names /\ fs'[a].leaf = Want(a) /\ fs'[a].leaf = RefreshTo(a)
  <2>1. a \in Path \ Open /\ RefreshTo(a) = Want(a)
    BY <1>2, <1>3, <1>5, RefreshToWant
  <2>2. RefreshTo(a) \in Object \cup {Absent}
    BY <1>1, <2>1, PlanTyped DEF RefreshTo
  <2>3. fs'[a] = [fs[a] EXCEPT !.leaf = RefreshTo(a)] /\ fs[a] \in Names
    BY <1>1, <1>4, <2>1
  <2> QED BY <2>1, <2>2, <2>3, WithLeaf
<1>7. \A q \in Path \ done : fs'[q] = fs[q]
  BY <1>4
<1>8. fs' \in [Path -> Names]
  <2>1. \A q \in Path : fs'[q] \in Names
    BY <1>1, <1>6, <1>7
  <2>2. fs' = [q \in Path |-> fs'[q]]
    BY <1>4
  <2> QED BY <2>1, <2>2
<1>9. Beside(p)
  <2>1. ASSUME NEW q \in Path \ {p}
        PROVE  Alike(fs'[q].leaf, fs[q].leaf)
    <3>1. CASE q \notin done
      BY <1>7, <3>1 DEF Alike
    <3>2. CASE q \in done
      <4>1. Alike(fs[q].leaf, Want(q)) /\ fs'[q].leaf = Want(q)
        BY <1>6, <3>2 DEF Agrees, Near
      <4> QED BY <4>1 DEF Alike
    <3> QED BY <3>1, <3>2
  <2> QED BY <1>5, <1>7, <2>1 DEF Beside
<1>10. ASSUME done = NeedsRefresh(p), NEW a \in Above[p]
       PROVE  fs'[a].leaf = Want(a)
  <2>1. CASE a \in done
    BY <1>6, <2>1
  <2>2. CASE a \notin done
    <3>1. a \in Path \ Open /\ fs'[a] = fs[a]
      BY <1>2, <1>7, <2>2
    <3>2. RefreshTo(a) = Absent \/ fs[a].leaf = RefreshTo(a)
      BY <1>10, <2>2 DEF NeedsRefresh
    <3>3. Alike(fs[a].leaf, Want(a))
      BY <3>1 DEF Agrees, Near
    <3>4. Want(a) = Absent => fs[a].leaf = Absent
      BY <3>3 DEF Alike
    <3>5. CASE RefreshTo(a) = Absent
      BY <3>1, <3>4, <3>5, RefreshToWant
    <3>6. CASE RefreshTo(a) # Absent
      BY <3>1, <3>2, <3>6, RefreshToWant
    <3> QED BY <3>5, <3>6
  <2> QED BY <2>1, <2>2
<1>11. answer' \in {"completed", "indeterminate"}
       /\ (answer' = "completed" => done = NeedsRefresh(p))
       /\ call' = [call EXCEPT !.at = "returned"] /\ plan' = plan
  BY <1>3 DEF Answer
<1>12. effects' = effects
  BY <1>3 DEF RefreshAncestors
<1>13. fs'[p] = fs[p]
  BY <1>2, <1>5, <1>7
<1>14. \A q \in Path : fs'[q].leaf = fs[q].leaf \/ (q \in Above[p] /\ fs'[q].leaf = Want(q))
  BY <1>5, <1>6, <1>7
<1> QED BY <1>8, <1>9, <1>10, <1>11, <1>12, <1>13, <1>14

\* What each step of an effect keeps to.
Pace(p) ==
  /\ Beside(p)
  /\ \A q \in Completed : p \in Above[q] =>
       \/ fs'[p].leaf = fs[p].leaf
       \/ fs'[p].leaf = Absent /\ plan.effect[q] # "incoming"
  /\ Working(p)'

Midway == {"prepare", "displace", "activate", "update", "finish_update"}

\* A step that neither completes the effect nor gives it up for good.
LEMMA GoesOn ==
  ASSUME NEW p \in Path, Beside(p), Resolves(p),
         \/ call'.at \in Midway
         \/ call'.at = "returned" /\ answer' \in {"failed", "indeterminate"}
  PROVE  Working(p)'
BY BesideResolves DEF Working, Midway

\* An effect past its first step has its parents.
LEMMA PursuitResolves ==
  ASSUME ActiveInv, TreeInv, NEW p \in Path, Pursuing(p), call.at # "enter"
  PROVE  Resolves(p)
BY WorkContext DEF Working

\* The early returns: nothing changes.
LEMMA RefusePace ==
  ASSUME ActiveInv, TreeInv, NEW p \in Path, Pursuing(p), Resolves(p),
         Refuse("failed") \/ Refuse("indeterminate")
  PROVE  Pace(p)
<1>1. fs' = fs /\ call'.at = "returned" /\ answer' \in {"failed", "indeterminate"}
  BY WorkContext DEF Refuse, Answer, TypeOK
<1>2. Beside(p)
  BY <1>1, SameBeside
<1> QED BY <1>1, <1>2, GoesOn DEF Pace

LEMMA AbandonPace ==
  ASSUME ActiveInv, TreeInv, NEW p \in Path, Pursuing(p), call.op = "publish", Resolves(p),
         NEW workspace \in Names,
         Abandon(p, workspace, "failed") \/ Abandon(p, workspace, "indeterminate")
  PROVE  Pace(p)
<1>1. call'.at = "returned" /\ answer' \in {"failed", "indeterminate"}
  BY WorkContext DEF Abandon, Answer, TypeOK
<1>2. PICK w \in WithoutPrepared(workspace) : fs' = Tree(p, w)
  BY DEF Abandon
<1>3. w \in Names
  <2>1. w \in {[workspace EXCEPT !.prepared = Absent], workspace}
    BY <1>2 DEF WithoutPrepared
  <2> QED BY <2>1 DEF Names
<1>4. Beside(p)
  BY <1>2, <1>3, WorkContext, TreeBeside
<1> QED BY <1>1, <1>4, GoesOn, NoneBelow DEF Pace

LEMMA PublishIncomingPace ==
  ASSUME ActiveInv, TreeInv, NEW p \in Path, Pursuing(p), PublishIncoming(p)
  PROVE  Pace(p)
<1>1. CASE Refuse("failed") \/ Refuse("indeterminate")
  BY <1>1, RefusePace DEF PublishIncoming
<1>2. CASE ~(Refuse("failed") \/ Refuse("indeterminate"))
  <2>1. fs' = fs /\ Resolves(p) /\ call'.at \in Midway
    BY <1>2, WorkContext DEF PublishIncoming, Goto, Midway, TypeOK
  <2>2. Beside(p)
    BY <2>1, SameBeside
  <2> QED BY <2>1, <2>2, GoesOn DEF Pace
<1> QED BY <1>1, <1>2

LEMMA PreparePace ==
  ASSUME ActiveInv, TreeInv, NEW p \in Path, Pursuing(p), Prepare(p)
  PROVE  Pace(p)
<1>1. /\ TypeOK /\ call.op = "publish" /\ Resolves(p) /\ fs[p] \in Names
  BY OwnContext, PursuitResolves DEF Prepare, Running, Placed, At
<1>2. PICK w \in Names : w = [fs[p] EXCEPT !.prepared = plan.incoming[p]]
  <2>1. [fs[p] EXCEPT !.prepared = plan.incoming[p]] \in Names
    BY <1>1, PlanTyped DEF Names
  <2> QED BY <2>1
<1>3. CASE Refuse("failed")
  BY <1>1, <1>3, RefusePace
<1>4. CASE Abandon(p, w, "failed")
  BY <1>1, <1>4, AbandonPace
<1>5. CASE fs' = Tree(p, w) /\ Goto(IF Displaces(p) THEN "displace" ELSE "activate")
  <2>1. Beside(p)
    BY <1>1, <1>5, TreeBeside
  <2>2. call'.at \in Midway
    BY <1>1, <1>5 DEF Goto, Midway, TypeOK
  <2> QED BY <1>1, <2>1, <2>2, GoesOn, NoneBelow DEF Pace
<1> QED BY <1>2, <1>3, <1>4, <1>5 DEF Prepare, Fails

LEMMA DisplacePace ==
  ASSUME ActiveInv, TreeInv, NEW p \in Path, Pursuing(p), Displace(p)
  PROVE  Pace(p)
<1>1. /\ TypeOK /\ call.op = "publish" /\ Resolves(p) /\ fs[p] \in Names
  BY OwnContext, PursuitResolves DEF Displace, Running, Placed, At
<1>2. PICK w \in Names : w = [fs[p] EXCEPT !.displaced = fs[p].leaf, !.leaf = Absent]
  <2>1. [fs[p] EXCEPT !.displaced = fs[p].leaf, !.leaf = Absent] \in Names
    BY <1>1 DEF Names
  <2> QED BY <2>1
<1>3. CASE Abandon(p, fs[p], "failed")
  BY <1>1, <1>3, AbandonPace
<1>4. CASE fs' = Tree(p, w) /\ Goto("activate")
  <2>1. Beside(p)
    BY <1>1, <1>4, TreeBeside
  <2>2. call'.at \in Midway
    BY <1>1, <1>4 DEF Goto, Midway, TypeOK
  <2> QED BY <1>1, <2>1, <2>2, GoesOn, NoneBelow DEF Pace
<1> QED BY <1>2, <1>3, <1>4 DEF Displace, Change

\* An effect that is completed, but for the directories above it.
LEMMA CompletePace ==
  ASSUME ActiveInv, TreeInv, UNCHANGED owner, NEW p \in Path, Pursuing(p), Resolves(p),
         Beside(p), plan' = plan,
         fs'[p].leaf = Final(p), Complete(p), Goto("refresh"),
         \A q \in Completed : p \in Above[q] =>
           \/ fs'[p].leaf = fs[p].leaf
           \/ fs'[p].leaf = Absent /\ plan.effect[q] # "incoming"
  PROVE  Pace(p)
<1>1. call'.at = "refresh" /\ effects'[p] = "completed"
  BY WorkContext DEF Goto, Complete, TypeOK
<1>2. Final(p)' = Final(p)
  BY DEF Final
<1>3. Resolves(p)'
  BY BesideResolves
<1> QED BY <1>1, <1>2, <1>3 DEF Pace, Working

LEMMA ActivatePace ==
  ASSUME ActiveInv, TreeInv, UNCHANGED owner, NEW p \in Path, Pursuing(p), Activate(p)
  PROVE  Pace(p)
<1>1. /\ TypeOK /\ call.op = "publish" /\ Resolves(p) /\ fs[p] \in Names
      /\ fs[p].prepared = plan.incoming[p] /\ plan.effect[p] = "incoming"
  BY OwnContext, PursuitResolves DEF Activate, Running, Placed, At
<1>2. CASE Abandon(p, fs[p], "indeterminate")
  BY <1>1, <1>2, AbandonPace
<1>3. CASE Abandon(p, [fs[p] EXCEPT !.leaf = fs[p].displaced, !.displaced = Absent],
                   "indeterminate")
  <2>1. PICK w \in Names :
          w = [fs[p] EXCEPT !.leaf = fs[p].displaced, !.displaced = Absent]
    <3>1. [fs[p] EXCEPT !.leaf = fs[p].displaced, !.displaced = Absent] \in Names
      BY <1>1 DEF Names
    <3> QED BY <3>1
  <2> QED BY <1>1, <1>3, <2>1, AbandonPace
<1>4. CASE Change(p, Published(p)) /\ Complete(p) /\ Goto("refresh")
  <2>1. PICK w \in Names : w = Published(p)
    <3>1. Published(p) \in Names
      BY <1>1 DEF Names, Published
    <3> QED BY <3>1
  <2>2. w.leaf = Final(p)
    BY <1>1, <2>1 DEF Names, Published, Final
  <2>3. Beside(p) /\ fs'[p] = w
    BY <1>1, <1>4, <2>1, TreeBeside DEF Change
  <2>4. plan' = plan
    BY <1>4 DEF Goto
  <2> QED BY <1>1, <1>4, <2>2, <2>3, <2>4, CompletePace, NoneBelow
<1> QED BY <1>2, <1>3, <1>4 DEF Activate

\* A directory that got all its metadata is the planned one.
LEMMA UpdatedIsFinal ==
  ASSUME ActiveInv, NEW p \in Path, call.op = "publish",
         Running(p, "update") \/ Running(p, "finish_update"),
         SetDirectory(p, Wanted(p).value, FALSE)
  PROVE  fs'[p].leaf = plan.incoming[p]
<1>1. /\ fs \in [Path -> Names] /\ fs[p].leaf \in Object /\ Wanted(p) = plan.incoming[p]
      /\ BothDirs(fs[p].leaf, plan.incoming[p]) /\ plan.incoming[p] \in Object
      /\ TypeOK
  BY UpdateContext DEF BothDirs, IsDir, Names, Wanted
<1>2. fs'[p].leaf = [kind |-> fs[p].leaf.kind, value |-> Wanted(p).value, moved |-> FALSE]
  <2>1. PICK once : once = [fs EXCEPT ![p].leaf.value = Wanted(p).value]
    OBVIOUS
  <2>2. fs' = [once EXCEPT ![p].leaf.moved = FALSE]
    BY <2>1 DEF SetDirectory
  <2>3. PICK half : half = [fs[p].leaf EXCEPT !.value = Wanted(p).value]
    OBVIOUS
  <2>4. half = [kind |-> fs[p].leaf.kind, value |-> Wanted(p).value,
                moved |-> fs[p].leaf.moved]
    BY <1>1, <2>3 DEF Object
  <2>5. once \in [Path -> Names] /\ once[p].leaf = half
    <3>1. half \in Object
      BY <1>1, <2>4 DEF Object
    <3>2. once = [fs EXCEPT ![p] = [fs[p] EXCEPT !.leaf = half]]
      BY <2>1, <2>3
    <3> QED BY <1>1, <3>1, <3>2, WithLeaf
  <2>6. fs'[p].leaf = [half EXCEPT !.moved = FALSE]
    BY <2>2, <2>5 DEF Names
  <2> QED BY <2>4, <2>6
<1>3. plan.incoming[p].moved = FALSE
  <2>1. plan.incoming[p] # Absent /\ plan.incoming[p].moved \in BOOLEAN
    BY <1>1 DEF Object
  <2> QED BY <1>1, <2>1, PlanUnmoved
<1>4. fs[p].leaf.kind = plan.incoming[p].kind /\ Wanted(p).value = plan.incoming[p].value
  BY <1>1 DEF BothDirs, IsDir
<1>5. plan.incoming[p] = [kind |-> plan.incoming[p].kind, value |-> plan.incoming[p].value,
                          moved |-> plan.incoming[p].moved]
  BY <1>1 DEF Object
<1> QED BY ONLY <1>2, <1>3, <1>4, <1>5

LEMMA SetDirectoryBeside ==
  ASSUME TypeOK, NEW p \in Path, NEW value, NEW moved, SetDirectory(p, value, moved)
  PROVE  Beside(p)
BY DEF SetDirectory, Beside, Alike, TypeOK

LEMMA UpdateDirectoryPace ==
  ASSUME ActiveInv, TreeInv, UNCHANGED owner, NEW p \in Path, Pursuing(p),
         UpdateDirectory(p) \/ FinishUpdate(p)
  PROVE  Pace(p)
<1>1. Running(p, "update") \/ Running(p, "finish_update")
  BY DEF UpdateDirectory, FinishUpdate
<1>2. /\ TypeOK /\ call.op = "publish" /\ Resolves(p) /\ plan.effect[p] = "incoming"
      /\ Wanted(p) = plan.incoming[p]
  BY <1>1, UpdateContext, WorkContext, PursuitResolves DEF Pursuing, Running, Wanted
<1>3. Final(p) = plan.incoming[p]
  BY <1>2 DEF Final
<1>4. CASE Refuse("failed") \/ Refuse("indeterminate")
  BY <1>2, <1>4, RefusePace
<1>5. CASE fs' = fs /\ fs[p].leaf = Wanted(p) /\ Updated(p)
  <2>1. Complete(p) /\ Goto("refresh") /\ plan' = plan
    BY <1>2, <1>5 DEF Updated, Goto
  <2>2. Beside(p)
    BY <1>5, SameBeside
  <2> QED BY <1>2, <1>3, <1>5, <2>1, <2>2, CompletePace
<1>6. CASE SetDirectory(p, Wanted(p).value, FALSE) /\ Updated(p)
  <2>1. Complete(p) /\ Goto("refresh") /\ plan' = plan
    BY <1>2, <1>6 DEF Updated, Goto
  <2>2. Beside(p) /\ fs'[p].leaf = Final(p)
    BY <1>1, <1>2, <1>3, <1>6, SetDirectoryBeside, UpdatedIsFinal
  <2> QED BY <1>2, <2>1, <2>2, CompletePace, NoneBelow
<1>7. CASE SetDirectory(p, "mixed", fs[p].leaf.moved) /\ Goto("finish_update")
  <2>1. Beside(p)
    BY <1>2, <1>7, SetDirectoryBeside
  <2>2. call'.at \in Midway
    BY <1>2, <1>7 DEF Goto, Midway, TypeOK
  <2> QED BY <1>2, <2>1, <2>2, GoesOn, NoneBelow DEF Pace
<1> QED BY <1>4, <1>5, <1>6, <1>7 DEF UpdateDirectory, FinishUpdate, Fails

\* What a path should hold depends on the plan and on what has ended.
LEMMA WantStays ==
  ASSUME UNCHANGED <<plan, terminal>>, NEW q
  PROVE  Want(q)' = Want(q)
BY DEF Want, Final

LEMMA RemovePace ==
  ASSUME ActiveInv, TreeInv, UNCHANGED owner, NEW p \in Path, Pursuing(p), Remove(p)
  PROVE  Pace(p)
<1>1. /\ TypeOK /\ call.at = "enter" /\ Resolves(p) /\ Working(p)
  BY WorkContext DEF Remove, Running
<1>2. CASE Refuse("indeterminate")
  BY <1>1, <1>2, RefusePace
<1>3. CASE Attempt(p) /\ Goto("take") /\ fs' = fs
  <2>1. call'.at = "take" /\ effects'[p] = "attempted" /\ plan' = plan /\ terminal' = terminal
    BY <1>1, <1>3 DEF Goto, Attempt, TypeOK, owner
  <2>2. Beside(p)
    BY <1>3, SameBeside
  <2>3. AllAsWanted'
    BY <1>1, <1>3, <2>1, WantStays DEF Working, AllAsWanted
  <2>4. Resolves(p)'
    BY <1>1, <2>2, BesideResolves
  <2> QED BY <1>3, <2>1, <2>2, <2>3, <2>4 DEF Pace, Working
<1> QED BY <1>2, <1>3 DEF Remove

LEMMA TakePace ==
  ASSUME ActiveInv, TreeInv, UNCHANGED owner, NEW p \in Path, Pursuing(p), Take(p)
  PROVE  Pace(p)
<1>1. /\ TypeOK /\ call.at = "take" /\ Resolves(p) /\ Working(p) /\ fs[p] \in Names
      /\ call.op = "remove" /\ plan.effect[p] = "remove"
      /\ call.path = p /\ call.op = "remove"
  BY OwnContext, WorkContext, PursuitResolves DEF Take, Running, Placed, At
<1>2. CASE Fails("failed")
  BY <1>1, <1>2, RefusePace DEF Fails
<1>3. CASE Refuse("conditional_retained")
  <2>1. call'.at = "returned" /\ effects'[p] = "attempted" /\ plan' = plan
        /\ terminal' = terminal /\ fs' = fs /\ answer' = "conditional_retained"
    BY <1>1, <1>3 DEF Refuse, Answer, TypeOK, owner, Working
  <2>2. Beside(p)
    BY <2>1, SameBeside
  <2>3. AllAsWanted'
    BY <1>1, <2>1, WantStays DEF Working, AllAsWanted
  <2>4. Resolves(p)'
    BY <1>1, <2>2, BesideResolves
  <2> QED BY <2>1, <2>2, <2>3, <2>4 DEF Pace, Working
<1> DEFINE taken == IF p \in plan.captured
                      THEN [fs[p] EXCEPT !.displaced = fs[p].leaf, !.leaf = Absent]
                      ELSE [fs[p] EXCEPT !.leaf = Absent]
           kept == IsDir(fs[p].leaf) /\ (IF p \in plan.captured
                                           THEN LogicallyNonempty(p) ELSE HasEntries(p))
<1>4. CASE ~kept /\ Change(p, taken) /\ Complete(p) /\ Goto("refresh")
  <2>1. PICK w \in Names : w = taken
    <3>1. taken \in Names
      BY <1>1 DEF Names
    <3> QED BY <3>1
  <2>2. w.leaf = Absent
    BY <1>1, <2>1 DEF Names
  <2>3. Beside(p) /\ fs'[p] = w
    BY <1>1, <1>4, <2>1, TreeBeside DEF Change
  <2>4. plan' = plan
    BY <1>4 DEF Goto
  <2>5. ASSUME NEW q \in Completed, p \in Above[q], plan.effect[q] = "incoming"
        PROVE  FALSE
    <3>1. IsDir(fs[p].leaf) /\ \E c \in Path : Parent[c] = p /\ fs[c].leaf # Absent
      BY <2>5, EntryBelow
    <3>2. LogicallyNonempty(p) /\ HasEntries(p)
      BY <3>1 DEF LogicallyNonempty, HasEntries, Slot
    <3> QED BY <1>4, <3>1, <3>2
  <2>6. Final(p) = Absent
    BY <1>1 DEF Final
  <2> QED BY <1>1, <1>4, <2>2, <2>3, <2>4, <2>5, <2>6, CompletePace
<1> QED BY <1>2, <1>3, <1>4 DEF Take

LEMMA RefreshPace ==
  ASSUME ActiveInv, TreeInv, UNCHANGED owner, NEW p \in Path, Pursuing(p), Refresh(p)
  PROVE  Pace(p)
<1>1. /\ TypeOK /\ call.at = "refresh" /\ call.path = p /\ Resolves(p) /\ Working(p)
      /\ Agrees /\ Going /\ up = "up" /\ Open = {p} /\ Refreshed(p) /\ fact = "none"
  BY WorkContext, PursuitResolves DEF Refresh, Running, Going
<1>2. /\ Beside(p) /\ fs'[p] = fs[p] /\ effects' = effects /\ plan' = plan
      /\ call' = [call EXCEPT !.at = "returned"]
      /\ answer' \in {"completed", "indeterminate"}
      /\ answer' = "completed" => \A a \in Above[p] : fs'[a].leaf = Want(a)
  BY <1>1, RefreshedLeaves
<1>3. call'.at = "returned"
  BY <1>1, <1>2 DEF TypeOK
<1>4. terminal' = terminal /\ Final(p)' = Final(p) /\ \A q \in Path : Want(q)' = Want(q)
  BY <1>2 DEF owner, Final, Want
<1>5. answer' = "completed" => \A q \in Path \ {p} : fs'[q].leaf = Want(q)
  <2> SUFFICES ASSUME answer' = "completed", NEW q \in Path \ {p}
               PROVE  fs'[q].leaf = Want(q)
    OBVIOUS
  <2>1. CASE q \in Above[p]
    BY <1>2, <2>1
  <2>2. CASE q \notin Above[p]
    BY <1>1, <1>2, <2>2 DEF Beside, Agrees, Exact, Untouched
  <2> QED BY <2>1, <2>2
<1>6. fs[p].leaf = Final(p) /\ effects[p] = "completed"
  BY <1>1 DEF Working
<1>7. Resolves(p)'
  BY <1>1, <1>2, BesideResolves
<1>8. Working(p)'
  BY <1>2, <1>3, <1>4, <1>5, <1>6, <1>7 DEF Working
<1> QED BY <1>2, <1>8 DEF Pace

\* No step of recover or discard_recovery is a step of an effect.
LEMMA PursuitSteps ==
  ASSUME ActiveInv, TreeInv, NEW p \in Path, NEW x \in Path, Pursuing(x), Mechanism(p)
  PROVE  /\ p = x
         /\ \/ PublishIncoming(p) \/ Prepare(p) \/ Displace(p) \/ Activate(p)
            \/ UpdateDirectory(p) \/ FinishUpdate(p) \/ Remove(p) \/ Take(p) \/ Refresh(p)
<1>1. p = x
  BY StepNotes DEF Noted, Pursuing, ActiveInv
<1>2. call.op \in {"publish", "remove"} /\ Placed(p, call.op, call.at)
  BY <1>1, WorkContext DEF Pursuing, ActiveInv, Issued
<1>3. ~(Clean(p) \/ Unpublish(p) \/ Restore(p) \/ Withdraw(p) \/ Copy(p) \/ Vacate(p)
        \/ Install(p) \/ Readmit(p) \/ DropBelow(p) \/ Drop(p))
  BY <1>2 DEF Placed, Clean, Unpublish, Restore, Withdraw, Copy, Vacate, Install, Readmit,
              DropBelow, Drop, Running
<1>4. ~(Recover(p) \/ DiscardRecovery(p))
  BY <1>2 DEF Recover, DiscardRecovery
<1> QED BY <1>1, <1>3, <1>4 DEF Mechanism

\* The steps of publish and remove keep the tree in agreement.
LEMMA PursuitKeeps ==
  ASSUME ActiveInv, TreeInv, UNCHANGED owner, NEW p \in Path, NEW x \in Path, Pursuing(x),
         Mechanism(p)
  PROVE  TreeInv'
<1>1. p = x /\ Pace(p)
  BY PursuitSteps, PublishIncomingPace, PreparePace, DisplacePace, ActivatePace,
     UpdateDirectoryPace, RemovePace, TakePace, RefreshPace
<1>2. StepKeeps /\ Noted(p) /\ call.path = p
  BY MechanismStepKeeps, StepNotes DEF ActiveInv, Noted
<1>3. plan' = plan /\ call'.path = p /\ call'.op = call.op
  BY <1>2 DEF StepKeeps
<1> QED BY <1>1, <1>2, <1>3, WorkKeeps DEF Pace

-----------------------------------------------------------------------------
(* A discard changes no leaf but for mtimes.                               *)

\* A discard takes what was displaced, and leaves the leaves.
LEMMA DiscardLeaves ==
  ASSUME ActiveInv, Agrees, Going, UNCHANGED owner, NEW p \in Path, call.op = "discard",
         Mechanism(p)
  PROVE  /\ \A q \in Path : Alike(fs'[q].leaf, fs[q].leaf)
         /\ effects' = effects
<1>1. /\ TypeOK /\ call.path = p /\ call # NoCall /\ Placed(p, call.op, call.at)
      /\ up = "up" /\ phase = "applied" /\ Open = {} /\ fs \in [Path -> Names]
  <2>1. call.path = p
    BY StepNotes DEF ActiveInv, Noted
  <2>2. call # NoCall
    BY DEF NoCall
  <2>3. up = "up" /\ phase = "applied" /\ Placed(p, call.op, call.at)
    BY <2>1, <2>2 DEF ActiveInv, Issued
  <2>4. Open = {}
    BY <2>3 DEF Agrees, OneOpen
  <2> QED BY <2>1, <2>2, <2>3, <2>4 DEF ActiveInv, TypeOK, Names
<1>2. ASSUME NEW r \in Path, Change(r, [fs[r] EXCEPT !.displaced = Absent])
      PROVE  \A q \in Path : Alike(fs'[q].leaf, fs[q].leaf)
  <2>1. PICK w \in Names : w = [fs[r] EXCEPT !.displaced = Absent]
    <3>1. fs[r] \in Names
      BY <1>1
    <3>2. [fs[r] EXCEPT !.displaced = Absent] \in Names
      BY <3>1 DEF Names
    <3> QED BY <3>2
  <2>2. w.leaf = fs[r].leaf
    BY <1>1, <2>1 DEF Names
  <2>3. Beside(r) /\ fs'[r] = w
    BY <1>1, <1>2, <2>1, TreeBeside DEF Change
  <2> QED BY <2>2, <2>3 DEF Beside, Alike
<1>3. CASE DiscardRecovery(p) \/ (\E outcome \in Outcome : Refuse(outcome))
  BY <1>3 DEF DiscardRecovery, Refuse, Alike, Outcome
<1>4. CASE DropBelow(p)
  BY <1>2, <1>4 DEF DropBelow
<1>5. CASE Drop(p)
  <2>1. CASE Fails("indeterminate")
    BY <1>3, <2>1 DEF Fails, Outcome
  <2> QED BY <1>2, <1>5, <2>1 DEF Drop
<1>6. CASE Refresh(p)
  <2>1. Refreshed(p)
    BY <1>6 DEF Refresh
  <2>2. Beside(p) /\ fs'[p] = fs[p] /\ effects' = effects
    BY <1>1, <2>1, RefreshedLeaves
  <2> QED BY <2>2 DEF Beside, Alike
<1>7. ~(PublishIncoming(p) \/ Remove(p) \/ Recover(p))
  BY DEF PublishIncoming, Remove, Recover
<1>8. ~(Prepare(p) \/ Displace(p) \/ Activate(p) \/ UpdateDirectory(p) \/ FinishUpdate(p)
        \/ Take(p) \/ Clean(p) \/ Unpublish(p) \/ Restore(p) \/ Withdraw(p) \/ Copy(p)
        \/ Vacate(p) \/ Install(p) \/ Readmit(p))
  BY <1>1 DEF Placed, Prepare, Displace, Activate, UpdateDirectory, FinishUpdate, Take,
              Clean, Unpublish, Restore, Withdraw, Copy, Vacate, Install, Readmit, Running
<1> QED BY <1>3, <1>4, <1>5, <1>6, <1>7, <1>8 DEF Mechanism

\* The steps of a discard keep the tree in agreement.
LEMMA DiscardKeeps ==
  ASSUME ActiveInv, TreeInv, UNCHANGED owner, NEW p \in Path, call.op = "discard",
         Mechanism(p)
  PROVE  TreeInv'
<1>1. /\ phase = "applied" /\ up = "up" /\ call # NoCall
  BY DEF ActiveInv, Issued, NoCall
<1>2. Agrees /\ Going
  BY <1>1 DEF TreeInv, Going
<1>3. /\ \A q \in Path : Alike(fs'[q].leaf, fs[q].leaf)
      /\ effects' = effects
  BY <1>2, DiscardLeaves
<1>4. StepKeeps
  BY MechanismStepKeeps
<1>5. /\ phase' = phase /\ turn' = turn /\ terminal' = terminal /\ fact' = fact
      /\ up' = up /\ plan' = plan /\ call'.op = call.op
  BY <1>4 DEF owner, StepKeeps
<1>6. Intended' = Intended /\ Open' = Open /\ Completed' = Completed /\ Open = {}
      /\ Completed \subseteq Path
  BY <1>1, <1>2, <1>5 DEF Intended, Open, Completed, Agrees, OneOpen
<1>7. \A q \in Path : Want(q)' = Want(q)
  BY <1>5 DEF Want, Final
<1>8. OneOpen' /\ Known'
  BY <1>2, <1>3, <1>5, <1>6 DEF Agrees, OneOpen, Known
<1>9. Near'
  <2>1. \A q \in Path : Alike(fs'[q].leaf, Want(q)')
    BY <1>2, <1>3, <1>6, <1>7, AlikeOnward DEF Agrees, Near
  <2> QED BY <2>1 DEF Near
<1>10. fact # "none"
  BY <1>2 DEF Agrees
<1>11. Reached'
  <2>1. \A q \in Path : \A a \in Above[q] : a \in Path
    BY PathsAbove
  <2> QED BY <1>2, <1>3, <1>5, <1>6, <2>1, AlikeDirs DEF Agrees, Reached, DirOrGone
<1>12. Through'
  BY <1>2, <1>5, <1>6 DEF Agrees, Through, Planned
<1> QED BY <1>1, <1>5, <1>8, <1>9, <1>10, <1>11, <1>12 DEF TreeInv, Agrees, Exact

-----------------------------------------------------------------------------
(* The steps of the engine and the tree.                                   *)

\* The final object of a path depends on the plan alone.
LEMMA FinalStays ==
  ASSUME plan' = plan, NEW q
  PROVE  Final(q)' = Final(q)
BY DEF Final

\* The tree and the results stay.
LEMMA AgreesStays ==
  ASSUME Agrees, UNCHANGED <<plan, fs, turn, terminal>>, fact' = "none" => fact = "none",
         OneOpen', Known',
         phase' = "applied" => phase = "applied" \/ Planned \subseteq Intended,
         call'.op \in {"publish", "remove"} => Working(call.path)',
         call'.op = "discard" => fact' # "none"
  PROVE  Agrees'
<1>1. Intended' = Intended /\ Open' = Open /\ Completed' = Completed
  BY DEF Intended, Open, Completed
<1>2. \A q \in Path : Want(q)' = Want(q)
  BY WantStays
<1>3. Near' /\ Exact' /\ Reached'
  BY <1>1, <1>2 DEF Agrees, Near, Exact, Reached, Untouched, DirOrGone
<1>4. Through'
  BY <1>1 DEF Agrees, Through, Planned
<1> QED BY <1>3, <1>4 DEF Agrees

\* Nothing is under way before the step or after it.
LEMMA IdleStays ==
  ASSUME TreeInv, call = NoCall, call' = NoCall,
         UNCHANGED <<plan, fs, effects, turn, terminal, up>>, up = "up",
         phase' \in {"forward", "applied"} => phase \in {"forward", "applied"},
         phase' = "applied" => phase = "applied" \/ Planned \subseteq Intended,
         phase' \in {"forward", "recover"} => phase \in {"forward", "recover"} /\ fact' = fact,
         fact' = "none" => fact = "none"
  PROVE  TreeInv'
<1>1. Intended' = Intended /\ Open' = Open
  BY DEF Intended, Open
<1>2. ASSUME Going'
      PROVE  Agrees'
  <2>1. Agrees
    BY <1>2 DEF TreeInv, Going
  <2>2. Open = {}
    BY <2>1 DEF Agrees, OneOpen, NoCall
  <2>3. OneOpen' /\ Known'
    BY <1>1, <2>1, <2>2 DEF Agrees, OneOpen, Known, NoCall
  <2> QED BY <2>1, <2>3, AgreesStays DEF NoCall
<1> QED BY <1>2 DEF TreeInv, Going

\* Steps that leave the tree, the engine's records and the call alone.
LEMMA QuietTree ==
  ASSUME TreeInv, UNCHANGED vars
  PROVE  TreeInv'
<1>1. /\ fs' = fs /\ plan' = plan /\ effects' = effects /\ call' = call /\ phase' = phase
      /\ turn' = turn /\ terminal' = terminal /\ up' = up /\ answer' = answer
      /\ fact' = fact
  BY DEF vars, namespace, owner
<1>2. Intended' = Intended /\ Open' = Open /\ \A q \in Path : Want(q)' = Want(q)
  BY <1>1, WantStays DEF Intended, Open
<1>3. ASSUME Agrees
      PROVE  Agrees'
  <2>1. OneOpen' /\ Known'
    BY <1>1, <1>2, <1>3 DEF Agrees, OneOpen, Known
  <2>2. ASSUME NEW p, Working(p)
        PROVE  Working(p)'
    <3>1. Final(p)' = Final(p) /\ (Resolves(p) => Resolves(p)')
      BY <1>1, FinalStays DEF Resolves
    <3>2. AllAsWanted => AllAsWanted'
      BY <1>1, <1>2 DEF AllAsWanted
    <3> QED BY <1>1, <1>2, <2>2, <3>1, <3>2 DEF Working
  <2>3. call.op \in {"publish", "remove"} => Working(call.path)'
    BY <1>1, <1>3, <2>2 DEF Agrees
  <2> QED BY <1>1, <1>3, <2>1, <2>3, AgreesStays DEF Agrees
<1> QED BY <1>1, <1>3 DEF TreeInv, Going

LEMMA ExecuteTree ==
  ASSUME ActiveInv, TreeInv, NEW p \in Path, ExecuteActive(p)
  PROVE  TreeInv'
<1>1. /\ fs' = fs /\ plan' = plan /\ effects' = effects /\ phase' = phase
      /\ terminal' = terminal /\ up' = up /\ up = "up"
      /\ fact' = fact /\ call = NoCall /\ phase = "forward"
      /\ p \in Planned /\ p \notin Intended
      /\ call' = [op |-> IF plan.effect[p] = "incoming" THEN "publish" ELSE "remove",
                  path |-> p, at |-> "enter"]
      /\ turn' = [turn EXCEPT ![p] = Cardinality(Intended) + 1]
  BY DEF ExecuteActive, Issue
<1>2. TypeOK /\ Agrees /\ fact = "none"
  BY <1>1 DEF ActiveInv, TreeInv, Going
<1>3. Open = {} /\ terminal[p] = "none"
  BY <1>1, <1>2 DEF Agrees, OneOpen, NoCall, ActiveInv, Ordered
<1>4. /\ Cardinality(Intended) \in Nat
      /\ \A q \in Intended : turn[q] \in Nat /\ turn[q] <= Cardinality(Intended)
  <2>1. Intended \subseteq Path
    BY DEF Intended
  <2> QED BY <1>2, <2>1, FS_Subset, FS_CardinalityType DEF TypeOK, ActiveInv, Ordered
<1>5. /\ turn'[p] = Cardinality(Intended) + 1
      /\ \A q \in Path \ {p} : turn'[q] = turn[q]
  BY <1>2 , <1>1 DEF TypeOK
<1>6. Intended' = Intended \cup {p}
  BY <1>4, <1>5 DEF Intended
<1>7. Open' = {p}
  BY <1>1, <1>3, <1>6 DEF Open
<1>8. \A q \in Path : Want(q)' = Want(q)
  BY <1>1, WantStays
<1>9. \A q \in Path : fs[q].leaf = Want(q)
  BY <1>2, <1>3 DEF Agrees, Exact, Untouched
<1>10. OneOpen'
  <2>1. call'.op \in {"publish", "remove"} /\ call'.path = p
    BY <1>1
  <2>2. \A q \in Intended' \ {p} : turn'[q] < turn'[p]
    <3>1. \A q \in Intended : q \in Path
      BY DEF Intended
    <3> QED BY <1>4, <1>5, <1>6, <3>1
  <2> QED BY <1>1, <1>7, <2>1, <2>2 DEF OneOpen
<1>11. Known'
  BY <1>1, <1>2, <1>3, <1>7 DEF Agrees, Known
<1>12. Near' /\ Exact'
  BY <1>1, <1>8, <1>9 DEF Near, Exact, Alike
<1>13. Reached'
  BY <1>1, <1>2 DEF Agrees, Reached, DirOrGone, Completed
<1>14. Through'
  BY <1>1 DEF Through
<1>15. Working(p)' /\ call'.path = p /\ call'.op # "discard"
  <2>1. call'.at = "enter" /\ call'.path = p /\ call'.op # "discard"
    BY <1>1
  <2> QED BY <1>1, <1>8, <1>9, <2>1 DEF Working, AllAsWanted
<1> QED BY <1>1, <1>2, <1>10, <1>11, <1>12, <1>13, <1>14, <1>15 DEF TreeInv, Agrees

\* The result of an effect says what the effect did.
LEMMA RecordEffectTree ==
  ASSUME ActiveInv, TreeInv, NEW p \in Path, RecordEffect(p)
  PROVE  TreeInv'
<1>1. /\ fs' = fs /\ plan' = plan /\ effects' = effects /\ up' = up
      /\ turn' = turn /\ fact' = fact
      /\ call' = NoCall /\ call.at = "returned" /\ Pursuing(p)
      /\ terminal' = [terminal EXCEPT ![p] = answer]
      /\ phase' = IF answer \in {"failed", "indeterminate"} THEN "recover" ELSE phase
  BY DEF RecordEffect, Returned, Pursuing
<1>2. /\ TypeOK /\ Agrees /\ Working(p) /\ Open = {p} /\ fact = "none" /\ up = "up"
      /\ phase = "forward" /\ answer # "none" /\ call # NoCall
  <2>1. TypeOK /\ Agrees /\ Working(p) /\ Open = {p} /\ fact = "none" /\ up = "up"
        /\ phase = "forward" /\ call # NoCall
    BY <1>1, WorkContext
  <2> QED BY <1>1, <2>1 DEF ActiveInv, Issued
<1>3. CASE answer \in {"failed", "indeterminate"}
  BY <1>1, <1>2, <1>3 DEF TreeInv, Going
<1>4. CASE answer \in {"completed", "conditional_retained"}
  <2>1. terminal'[p] = answer /\ \A q \in Path \ {p} : terminal'[q] = terminal[q]
    BY <1>1, <1>2 DEF TypeOK
  <2>2. Intended' = Intended
    BY <1>1 DEF Intended
  <2>3. Open' = {}
    BY <1>2, <1>4, <2>1, <2>2 DEF Open, Intended
  <2>4. OneOpen'
    BY <1>1, <2>3 DEF OneOpen, NoCall
  <2>5. effects[p] = "completed" <=> answer = "completed"
    BY <1>1, <1>2, <1>4 DEF Working
  <2>6. Known'
    BY <1>1, <1>2, <2>1, <2>3, <2>5 DEF Agrees, Known
  <2>7. \A q \in Path : fs[q].leaf = Want(q)'
    <3>1. ASSUME NEW q \in Path \ {p}
          PROVE  fs[q].leaf = Want(q) /\ Want(q)' = Want(q)
      <4>1. fs[q].leaf = Want(q)
        BY <1>1, <1>2, <1>4 DEF Working, AllAsWanted
      <4>2. Want(q)' = Want(q)
        BY <1>1, <2>1, FinalStays DEF Want
      <4> QED BY <4>1, <4>2
    <3>2. CASE answer = "completed"
      <4>1. Want(p)' = Final(p)
        BY <1>1, <2>1, <3>2 DEF Want, Final
      <4>2. fs[p].leaf = Final(p)
        BY <1>1, <1>2, <3>2 DEF Working
      <4> QED BY <3>1, <4>1, <4>2
    <3>3. CASE answer = "conditional_retained"
      <4>1. Want(p)' = plan.before[p] /\ Want(p) = plan.before[p]
        BY <1>1, <1>2, <2>1, <3>3 DEF Want, Open
      <4>2. fs[p].leaf = Want(p)
        BY <1>1, <1>2, <3>3 DEF Working, AllAsWanted
      <4> QED BY <3>1, <4>1, <4>2
    <3> QED BY <1>4, <3>2, <3>3
  <2>8. Near' /\ Exact'
    BY <1>1, <2>7 DEF Near, Exact, Alike
  <2>9. Reached'
    <3>1. Resolves(p)
      BY <1>1, <1>2 DEF Working
    <3>2. Completed' \subseteq Completed \cup {p}
      BY <2>1 DEF Completed
    <3>3. ASSUME NEW q \in Completed', NEW a \in Above[q]
          PROVE  IF plan.effect[q] = "incoming" THEN IsDir(fs[a].leaf) ELSE DirOrGone(a)
      BY <1>2, <3>1, <3>2, <3>3 DEF Agrees, Reached, Resolves, DirOrGone
    <3> QED BY <1>1, <3>3 DEF Reached, DirOrGone
  <2>10. Through'
    BY <1>1, <1>2, <1>4 DEF Through
  <2>11. Agrees'
    BY <1>1, <2>4, <2>6, <2>8, <2>9, <2>10 DEF Agrees, NoCall
  <2> QED BY <1>1, <1>2, <1>4, <2>11 DEF TreeInv, Going
<1> QED BY <1>2, <1>3, <1>4 DEF TypeOK, Pending, Outcome

\* A discard is issued or its result recorded.
LEMMA DiscardTree ==
  ASSUME ActiveInv, TreeInv, NEW p \in Path, DiscardPath(p) \/ RecordDiscard(p)
  PROVE  TreeInv'
<1>1. /\ UNCHANGED <<fs, plan, effects, up, turn, fact, terminal, phase>>
      /\ call.op \notin {"publish", "remove"}
      /\ call'.op \notin {"publish", "remove"}
      /\ call'.op = "discard" => fact # "none"
  BY DEF DiscardPath, RecordDiscard, Returned, Issue, owner, NoCall
<1>2. Intended' = Intended /\ Open' = Open
  BY <1>1 DEF Intended, Open
<1>3. ASSUME Agrees
      PROVE  Agrees'
  <2>1. OneOpen' /\ Known'
    BY <1>1, <1>2, <1>3 DEF Agrees, OneOpen, Known
  <2> QED BY <1>1, <1>3, <2>1, AgreesStays
<1> QED BY <1>1, <1>3 DEF TreeInv, Going

LEMMA ForgetTree ==
  ASSUME ActiveInv, TreeInv, Crash \/ Throw
  PROVE  TreeInv'
<1>1. /\ UNCHANGED <<fs, plan, turn, fact, terminal, phase>>
      /\ up' = "down" /\ call' = NoCall
  BY DEF Crash, Throw, Forget
<1>2. Intended' = Intended /\ Open' = Open
  BY <1>1 DEF Intended, Open
<1>3. ASSUME Agrees
      PROVE  Agrees'
  <2>1. OneOpen' /\ Known'
    BY <1>1, <1>2, <1>3 DEF Agrees, OneOpen, Known
  <2> QED BY <1>1, <1>3, <2>1, AgreesStays DEF NoCall
<1> QED BY <1>1, <1>3 DEF TreeInv, Going

LEMMA RestartTree ==
  ASSUME ActiveInv, TreeInv, LoadRestart
  PROVE  TreeInv'
<1>1. /\ UNCHANGED <<fs, plan, turn, fact, terminal, call>>
      /\ up = "down" /\ call = NoCall
      /\ phase' = phase \/ (phase = "forward" /\ phase' = "recover")
  BY DEF LoadRestart, Restart, namespace, ActiveInv, Issued
<1>2. Intended' = Intended /\ Open' = Open
  BY <1>1 DEF Intended, Open
<1>3. up' = "refused" \/
      /\ effects' = [p \in Path |-> IF p \in Completed THEN "completed" ELSE "none"]
      /\ phase' = IF phase = "forward" /\ \E p \in Intended : terminal[p] = "none"
                    THEN "recover" ELSE phase
  BY DEF LoadRestart, Restart
<1>4. ASSUME Agrees, Going'
      PROVE  Agrees'
  <2>1. up' = "up" => Open = {}
    <3>1. CASE phase = "applied"
      BY <1>4, <3>1 DEF Agrees, OneOpen
    <3>2. CASE phase # "applied"
      BY <1>1, <1>3, <1>4, <3>2 DEF Going, Open
    <3> QED BY <3>1, <3>2
  <2>2. OneOpen'
    BY <1>1, <1>2, <1>4, <2>1 DEF Agrees, OneOpen, NoCall, Going
  <2>3. Known'
    BY <1>1, <1>3 DEF Known, Completed
  <2> QED BY <1>1, <1>4, <2>2, <2>3, AgreesStays DEF NoCall
<1> QED BY <1>1, <1>4 DEF TreeInv, Going

LEMMA SynchronizeTree ==
  ASSUME TreeInv, SynchronizeActive
  PROVE  TreeInv'
<1>1. /\ UNCHANGED <<plan, fs, effects, call, phase, turn, terminal, up>>
      /\ call = NoCall /\ up = "up" /\ phase \in {"applied", "restored"}
      /\ fact' # "none"
  BY DEF SynchronizeActive, Synchronize, namespace
<1> QED BY <1>1, IdleStays

LEMMA ConcludeTree ==
  ASSUME TreeInv, BackendConclude
  PROVE  TreeInv'
<1>1. /\ UNCHANGED <<plan, fs, effects, call, turn, terminal, up, fact>>
      /\ call = NoCall /\ up = "up"
      /\ \/ phase = "forward" /\ phase' = "applied" /\ Planned \subseteq Intended
         \/ phase = "recover" /\ phase' = "restored"
  BY DEF BackendConclude, Conclude, namespace
<1> QED BY <1>1, IdleStays

\* What is being undone is no concern of the results.
LEMMA RecoverTree ==
  ASSUME TreeInv, phase' \notin {"forward", "applied"},
         phase' = "recover" => phase \in {"forward", "recover"} /\ fact' = fact
  PROVE  TreeInv'
BY DEF TreeInv, Going

LEMMA MechanismTree ==
  ASSUME ActiveInv, TreeInv, UNCHANGED owner, NEW p \in Path, Mechanism(p)
  PROVE  TreeInv'
<1>1. call # NoCall /\ call.path = p
  BY MechanismKeeps, StepNotes DEF ActiveInv, Noted
<1>2. call.op \in {"publish", "remove", "recover", "discard"}
      /\ (call.op = "recover" => phase = "recover")
  BY <1>1 DEF ActiveInv, Issued
<1>3. CASE call.op \in {"publish", "remove"}
  BY <1>1, <1>3, PursuitKeeps DEF Pursuing
<1>4. CASE call.op = "discard"
  BY <1>4, DiscardKeeps
<1>5. CASE call.op = "recover"
  BY <1>2, <1>5, RecoverTree DEF owner
<1> QED BY <1>2, <1>3, <1>4, <1>5

LEMMA InitTree == BackendInit => TreeInv
<1> SUFFICES ASSUME BackendInit PROVE TreeInv
  OBVIOUS
<1> USE DEF BackendInit, Init
<1>1. Intended = {} /\ Open = {} /\ Completed = {}
  BY DEF Intended, Open, Completed
<1>2. OneOpen /\ Through /\ Known /\ Reached
  BY <1>1 DEF OneOpen, Through, Known, Reached, NoCall
<1>3. Near /\ Exact
  BY DEF Near, Exact, Want, Alike
<1> QED BY <1>2, <1>3 DEF TreeInv, Agrees, NoCall

LEMMA TreeNext ==
  ASSUME ActiveInv, TreeInv, [BackendNext]_<<vars, backend>>
  PROVE  TreeInv'
<1>1. CASE UNCHANGED vars
  BY <1>1, QuietTree
<1>2. StagePayloads \/ PublishCompletedEvidence \/ LosePower => UNCHANGED vars
  BY DEF StagePayloads, PublishCompletedEvidence, LosePower, Keep, StoreFails
<1>3. \A p \in Path : CaptureOld(p) \/ ExecuteRejected(p) => UNCHANGED vars
  BY DEF CaptureOld, ExecuteRejected, Keep, StoreFails
<1>4. \A domain \in Domain : SynchronizeStore(domain) => UNCHANGED vars
  BY DEF SynchronizeStore
<1>5. CASE RecordResult
  <2>1. /\ UNCHANGED <<namespace, turn, terminal, undone, fact, up>> /\ call = NoCall
        /\ up = "up"
        /\ phase' = phase \/ (phase' = "recover" /\ phase = "forward")
    BY <1>5 DEF RecordResult, ActiveInv, Exclusive
  <2>2. UNCHANGED <<plan, fs, effects, call, turn, terminal, fact, up>>
    BY <2>1 DEF namespace
  <2> QED BY <2>1, <2>2, IdleStays
<1>6. ASSUME NEW p \in Path, BackendExecuteActive(p)
      PROVE  TreeInv'
  BY <1>6, ExecuteTree DEF BackendExecuteActive
<1>7. ASSUME NEW p \in Path, BackendRecover(p)
      PROVE  TreeInv'
  BY <1>7, RecoverTree DEF BackendRecover, RecoverPath, owner
<1>8. CASE SynchronizeActive
  BY <1>8, SynchronizeTree
<1>9. CASE BackendConclude
  BY <1>9, ConcludeTree
<1>10. CASE ActiveStep
  <2>1. ASSUME NEW p \in Path, Mechanism(p) /\ UNCHANGED owner
        PROVE  TreeInv'
    BY <2>1, MechanismTree
  <2>2. ASSUME NEW p \in Path, RecordEffect(p)
        PROVE  TreeInv'
    BY <2>2, RecordEffectTree
  <2>3. ASSUME NEW p \in Path, RecordRecovery(p)
        PROVE  TreeInv'
    <3>1. call # NoCall /\ call.op = "recover" /\ phase' = phase /\ fact' = fact
      BY <2>3 DEF RecordRecovery, Returned, NoCall
    <3>2. phase = "recover"
      BY <3>1 DEF ActiveInv, Issued
    <3> QED BY <3>1, <3>2, RecoverTree
  <2>4. ASSUME NEW p \in Path, DiscardPath(p) \/ RecordDiscard(p)
        PROVE  TreeInv'
    BY <2>4, DiscardTree
  <2>5. ASSUME NEW p \in Path, Lose(p)
        PROVE  TreeInv'
    BY <2>5, RecoverTree DEF Lose, owner
  <2>6. CASE Cancel
    BY <2>6, RecoverTree DEF Cancel
  <2> QED BY <1>10, <2>1, <2>2, <2>3, <2>4, <2>5, <2>6 DEF ActiveStep
<1>11. CASE Crash \/ Throw
  BY <1>11, ForgetTree
<1>12. CASE LoadRestart
  BY <1>12, RestartTree
<1> QED
  BY <1>1, <1>2, <1>3, <1>4, <1>5, <1>6, <1>7, <1>8, <1>9, <1>10, <1>11, <1>12
     DEF BackendNext

\* The tree agrees with the results in every state.
LEMMA TreeInvHolds == Spec => []TreeInv
<1> QED BY InitTree, TreeNext, ActiveInvHolds, PTL DEF Spec

\* Where every effect completed, what is wanted of a path is what is planned.
LEMMA WantIsFinal ==
  ASSUME TreeInv, phase = "applied", \A x \in Intended : terminal[x] = "completed",
         NEW p \in Path
  PROVE  Want(p) = Final(p)
<1>1. CASE terminal[p] = "completed"
  BY <1>1 DEF Want
<1>2. CASE terminal[p] # "completed"
  <2>1. p \notin Intended
    BY <1>2
  <2>2. plan.effect[p] = "none"
    BY <2>1 DEF TreeInv, Going, Agrees, Through, Planned
  <2> QED BY <1>2, <2>2 DEF Want, Final
<1> QED BY <1>1, <1>2

\* When every effect says "completed" the target is the planned tree, directories and
\* their mtimes included, for every tree, every plan and every combination of faults.
THEOREM AppliedIsPlanned == Spec => []AppliedAsPlanned
<1>1. ActiveInv /\ TreeInv => AppliedAsPlanned
  <2> SUFFICES ASSUME ActiveInv, TreeInv, phase = "applied", fact = "none",
                      \A p \in Intended : terminal[p] = "completed",
                      NEW p \in Path
               PROVE  AsPlanned(p)
    BY DEF AppliedAsPlanned
  <2>1. Agrees /\ Open = {}
    BY DEF TreeInv, Going, Agrees, OneOpen
  <2>2. fs[p].leaf = Want(p)
    BY <2>1 DEF Agrees, Exact, Untouched
  <2>3. Want(p) = Final(p)
    BY WantIsFinal
  <2> QED BY <2>2, <2>3 DEF AsPlanned
<1> QED BY <1>1, ActiveInvHolds, TreeInvHolds, PTL

-----------------------------------------------------------------------------
(* What a refused restart is due to.                                       *)

\* A domain is synchronized when its results are complete, and a confirmation
\* leaves nothing behind that could be lost.
FactsInv ==
  \A domain \in Domain :
    /\ facts[domain] # "none" => Completes(domain)
    /\ facts[domain] = "confirmed" =>
         \A k \in Key : result[domain][k] = "completed" => stored[domain][k] = "durable"
    /\ facts[domain] = "not_attempted" => \A k \in Key : result[domain][k] = "none"

LEMMA InitFacts == BackendInit => FactsInv
BY DEF BackendInit, FactsInv

\* A store that keeps what is durable keeps to its fact.
LEMMA FactsStay ==
  ASSUME FactsInv, BackendInv, UNCHANGED <<plan, result, facts>>,
         \A domain \in Domain, k \in Key :
           stored[domain][k] = "durable" => stored'[domain][k] = "durable"
  PROVE  FactsInv'
<1>1. \A domain \in Domain : Keys(domain)' = Keys(domain)
  BY DEF Keys, HasImage
<1>2. \A domain \in Domain : Completes(domain)' <=> Completes(domain)
  BY <1>1 DEF Completes
<1> QED BY <1>2 DEF FactsInv

\* A store that is written to keeps what it is answerable for.
LEMMA KeepFacts ==
  ASSUME FactsInv, BackendInv, NEW domain \in Domain, NEW k \in Key,
         Keep(domain, k) \/ StoreFails(domain, k)
  PROVE  FactsInv'
<1>1. UNCHANGED <<plan, result, facts>>
  BY VarsKept DEF Keep, StoreFails
<1>2. \A d \in Domain, j \in Key :
        stored[d][j] = "durable" => stored'[d][j] = "durable"
  BY DEF Keep, StoreFails, BackendInv, Typed
<1> QED BY <1>1, <1>2, FactsStay

\* A result is recorded with what the store answered.
LEMMA RecordFacts ==
  ASSUME FactsInv, BackendInv, RecordResult
  PROVE  FactsInv'
<1>1. /\ plan' = plan /\ stored' = stored /\ facts' = facts
      /\ result' = [result EXCEPT ![reply.domain][reply.path] = reply.outcome]
      /\ Lacking(reply.domain, reply.path)
      /\ reply.domain \in Domain /\ reply.path \in Key
  BY DEF RecordResult, namespace, BackendInv, Typed, ReplyAwaited
<1>2. facts[reply.domain] = "none"
  BY <1>1 DEF FactsInv, Completes, Lacking
<1>3. \A d \in Domain \ {reply.domain} : result'[d] = result[d]
  BY <1>1 DEF BackendInv, Typed
<1>4. \A d \in Domain : Keys(d)' = Keys(d)
  BY <1>1 DEF Keys, HasImage
<1> QED BY <1>1, <1>2, <1>3, <1>4 DEF FactsInv, Completes

LEMMA SynchronizeFacts ==
  ASSUME FactsInv, BackendInv, NEW domain \in Domain, SynchronizeStore(domain)
  PROVE  FactsInv'
<1>1. /\ plan' = plan /\ result' = result /\ up = "up" /\ Completes(domain)
      /\ facts[domain] = "none"
  BY VarsKept DEF SynchronizeStore, Ready
<1>2. \A d \in Domain : Keys(d)' = Keys(d) /\ (Completes(d)' <=> Completes(d))
  BY <1>1 DEF Keys, HasImage, Completes
<1>3. \A d \in Domain \ {domain} : facts'[d] = facts[d] /\ stored'[d] = stored[d]
  BY DEF SynchronizeStore, BackendInv, Typed
<1>4. CASE Retained(domain) = {} /\ facts' = [facts EXCEPT ![domain] = "not_attempted"]
  <2>1. facts'[domain] = "not_attempted" /\ \A k \in Key : result[domain][k] = "none"
    BY <1>4 DEF Retained, BackendInv, Typed
  <2> QED BY <1>1, <1>2, <1>3, <2>1 DEF FactsInv
<1>5. CASE /\ facts' = [facts EXCEPT ![domain] = "confirmed"]
           /\ stored' = [stored EXCEPT ![domain] =
                [k \in Key |-> IF stored[domain][k] = "visible" THEN "durable"
                                                          ELSE stored[domain][k]]]
  <2>1. facts'[domain] = "confirmed"
    BY <1>5 DEF BackendInv, Typed
  <2>2. \A k \in Key : stored'[domain][k] = IF stored[domain][k] = "visible" THEN "durable"
                                                               ELSE stored[domain][k]
    BY <1>5 DEF BackendInv, Typed
  <2>3. \A k \in Key : result[domain][k] = "completed" => stored[domain][k] # "absent"
    BY <1>1 DEF BackendInv, GotStored, Got
  <2>4. \A k \in Key : stored[domain][k] \in {"absent", "visible", "durable"}
    BY DEF BackendInv, Typed
  <2> QED BY <1>1, <1>2, <1>3, <2>1, <2>2, <2>3, <2>4 DEF FactsInv
<1>6. CASE facts' = [facts EXCEPT ![domain] = "unconfirmed"]
  <2>1. facts'[domain] = "unconfirmed"
    BY <1>6 DEF BackendInv, Typed
  <2> QED BY <1>1, <1>2, <1>3, <2>1 DEF FactsInv
<1> QED BY <1>4, <1>5, <1>6 DEF SynchronizeStore

LEMMA PowerFacts ==
  ASSUME FactsInv, BackendInv, LosePower
  PROVE  FactsInv'
<1> DEFINE loose == {at \in Domain \X Key : stored[at[1]][at[2]] = "visible"}
<1>1. UNCHANGED <<plan, result, facts>>
  BY VarsKept DEF LosePower
<1>2. PICK lost \in SUBSET loose :
        stored' = [domain \in Domain |-> [k \in Key |->
                CASE <<domain, k>> \in lost         -> "absent"
                  [] <<domain, k>> \in loose \ lost -> "durable"
                  [] OTHER                          -> stored[domain][k]]]
  BY DEF LosePower
<1>3. ASSUME NEW d \in Domain, NEW j \in Key, stored[d][j] = "durable"
      PROVE  stored'[d][j] = "durable"
  <2>1. <<d, j>> \notin loose
    BY <1>3
  <2>2. <<d, j>> \notin lost /\ <<d, j>> \notin loose \ lost
    BY <2>1
  <2> QED BY <1>2, <1>3, <2>2
<1> QED BY <1>1, <1>3, FactsStay

LEMMA FactsNext ==
  ASSUME FactsInv, BackendInv, [BackendNext]_<<vars, backend>>
  PROVE  FactsInv'
<1> USE DEF Domain, Key
<1>1. CASE StagePayloads \/ PublishCompletedEvidence
           \/ \E p \in Path : CaptureOld(p) \/ ExecuteRejected(p)
  BY <1>1, KeepFacts DEF StagePayloads, PublishCompletedEvidence, CaptureOld, ExecuteRejected
<1>2. CASE UNCHANGED <<plan, result, facts, stored>>
  BY <1>2, FactsStay
<1>3. UNCHANGED <<vars, backend>> \/ (ActiveStep /\ UNCHANGED backend)
        => UNCHANGED <<plan, result, facts, stored>>
  BY VarsKept, ActiveStepQuiet DEF backend
<1>4. SynchronizeActive \/ BackendConclude => UNCHANGED <<plan, result, facts, stored>>
  BY DEF SynchronizeActive, BackendConclude, Synchronize, Conclude, backend, namespace
<1>5. \A p \in Path : BackendExecuteActive(p) \/ BackendRecover(p)
        => UNCHANGED <<plan, result, facts, stored>>
  BY DEF BackendExecuteActive, BackendRecover, ExecuteActive, RecoverPath, Issue
<1>6. ((Crash \/ Throw) /\ ForgetAuthority) \/ LoadRestart
        => UNCHANGED <<plan, result, facts, stored>>
  BY DEF Crash, Throw, ForgetAuthority, LoadRestart, Restart, namespace, backend
<1> QED
  BY <1>1, <1>2, <1>3, <1>4, <1>5, <1>6, RecordFacts, SynchronizeFacts, PowerFacts
     DEF BackendNext

\* The store facts account for every result in every state.
LEMMA FactsInvHolds == Spec => []FactsInv
<1> QED BY InitFacts, FactsNext, BackendInvHolds, PTL DEF Spec

\* A restart accepts every completed effect while nothing is being undone.
LEMMA GoingIsEstablished ==
  ASSUME ActiveInv, TreeInv, Going, NEW p \in Completed
  PROVE  Established(p)
<1>1. /\ Agrees /\ TypeOK /\ p \in Path /\ p \notin Open /\ p \in Planned
      /\ Want(p) = Final(p)
  BY DEF TreeInv, ActiveInv, Completed, Open, Want, Ordered
<1>2. Alike(fs[p].leaf, Final(p))
  BY <1>1 DEF Agrees, Near
<1>3. CASE plan.effect[p] = "incoming"
  <2>1. Resolves(p) /\ ~Contradictory(p)
    BY <1>1, <1>3 DEF Agrees, Reached, Resolves, ActiveInv, Sound
  <2>2. Final(p) = plan.incoming[p] /\ plan.incoming[p] # Absent
    BY <1>1, <1>3, PlanTyped DEF Final
  <2> QED BY <1>2, <1>3, <2>1, <2>2 DEF Established, MatchesIncoming, Alike
<1>4. CASE plan.effect[p] = "remove"
  <2>1. fs[p].leaf = Absent
    BY <1>2, <1>4 DEF Final, Alike
  <2>2. \A a \in Above[p] : fs[a].leaf # Absent => IsDir(fs[a].leaf)
    BY <1>1, <1>4 DEF Agrees, Reached, DirOrGone
  <2> QED BY <1>4, <2>1, <2>2 DEF Established
<1> QED BY <1>1, <1>3, <1>4, PlanTyped DEF Planned

\* Nothing is done in an attempt whose restart was refused.
LEMMA RefusedStays ==
  ASSUME ActiveInv, BackendInv, up = "refused", [BackendNext]_<<vars, backend>>
  PROVE  UNCHANGED <<vars, backend>>
<1>1. call = NoCall /\ reply = NoReply
  BY DEF ActiveInv, Issued, BackendInv, ReplyAwaited
<1>2. \A p \in Path : ~Mechanism(p)
  BY <1>1, MechanismKeeps
<1>3. ~ActiveStep
  BY <1>2 DEF ActiveStep, RecordEffect, RecordRecovery, RecordDiscard, Returned, DiscardPath,
              Issue, Lose, Cancel
<1>4. ~(StagePayloads \/ PublishCompletedEvidence \/ RecordResult
        \/ SynchronizeActive \/ BackendConclude \/ Crash \/ Throw \/ LosePower)
  BY DEF StagePayloads, PublishCompletedEvidence, Ready, RecordResult, SynchronizeActive,
         Synchronize, BackendConclude, Conclude, Crash, Throw, LosePower
<1>5. \A domain \in Domain : ~SynchronizeStore(domain)
  BY DEF SynchronizeStore, Ready
<1>6. \A p \in Path : ~(CaptureOld(p) \/ ExecuteRejected(p) \/ BackendExecuteActive(p)
                        \/ BackendRecover(p))
  BY DEF CaptureOld, ExecuteRejected, Ready, BackendExecuteActive, ExecuteActive, Issue,
         BackendRecover, RecoverPath
<1>7. ~LoadRestart
  BY DEF LoadRestart, Restart
<1> QED BY <1>3, <1>4, <1>5, <1>6, <1>7 DEF BackendNext

\* Only a restart refuses.
LEMMA OnlyRestartRefuses ==
  ASSUME ActiveInv, BackendNext, up # "refused", up' = "refused"
  PROVE  LoadRestart
<1>1. UNCHANGED vars => up' = up
  BY VarsKept
<1>2. StagePayloads \/ PublishCompletedEvidence \/ RecordResult \/ SynchronizeActive
        \/ BackendConclude \/ LosePower => up' = up
  BY <1>1 DEF StagePayloads, PublishCompletedEvidence, Keep, StoreFails, RecordResult,
              SynchronizeActive, Synchronize, BackendConclude, Conclude, LosePower
<1>3. \A domain \in Domain : SynchronizeStore(domain) => up' = up
  BY <1>1 DEF SynchronizeStore
<1>4. \A p \in Path : CaptureOld(p) \/ ExecuteRejected(p) \/ BackendExecuteActive(p)
                        \/ BackendRecover(p) => up' = up
  BY <1>1 DEF CaptureOld, ExecuteRejected, Keep, StoreFails, BackendExecuteActive,
              ExecuteActive, BackendRecover, RecoverPath, owner
<1>5. ActiveStep => up' = up
  BY ActiveStepQuiet
<1>6. Crash \/ Throw => up' = "down"
  BY DEF Crash, Throw
<1> QED BY <1>2, <1>3, <1>4, <1>5, <1>6 DEF BackendNext

\* A refused restart has one of the causes ConfirmedRestarts allows.
LEMMA RefusedForAReason ==
  ASSUME ActiveInv, TreeInv, FactsInv, BackendInv, up # "refused", up' = "refused",
         BackendNext
  PROVE  ConfirmedRestarts'
<1>1. LoadRestart
  BY OnlyRestartRefuses
<1>2. CASE ~Revalidated /\ UNCHANGED <<namespace, phase, terminal, backend>>
  <2>1. PICK domain \in Domain, k \in Key :
          result[domain][k] = "completed" /\ stored[domain][k] = "absent"
    BY <1>2 DEF Revalidated
  <2>2. facts[domain] \in {"none", "unconfirmed"}
    <3>1. facts[domain] \in {"none", "not_attempted", "confirmed", "unconfirmed"}
      BY DEF BackendInv, Typed
    <3>2. facts[domain] # "confirmed" /\ facts[domain] # "not_attempted"
      BY <2>1 DEF FactsInv
    <3> QED BY <3>1, <3>2
  <2>3. facts' = facts /\ result' = result
    BY <1>2 DEF backend
  <2> QED BY <2>1, <2>2, <2>3 DEF ConfirmedRestarts
<1>3. CASE Restart
  <2>1. /\ \E p \in Completed : ~Established(p)
        /\ phase' = phase /\ Completed' = Completed
    BY <1>3 DEF Restart, Completed
  <2>2. ~Going
    BY <2>1, GoingIsEstablished
  <2>3. phase \in {"recover", "restored"}
    BY <2>2 DEF Going, ActiveInv, TypeOK
  <2> QED BY <2>1, <2>3 DEF ConfirmedRestarts
<1> QED BY <1>1, <1>2, <1>3 DEF LoadRestart

\* The cause of a refusal remains.
LEMMA ReasonStays ==
  ASSUME ActiveInv, TreeInv, FactsInv, BackendInv, ConfirmedRestarts,
         [BackendNext]_<<vars, backend>>
  PROVE  ConfirmedRestarts'
<1>1. CASE up' # "refused"
  BY <1>1 DEF ConfirmedRestarts
<1>2. CASE up = "refused"
  <2>1. UNCHANGED <<vars, backend>>
    BY <1>2, RefusedStays
  <2>2. phase' = phase /\ Completed' = Completed /\ facts' = facts /\ result' = result
        /\ up' = up
    BY <2>1 DEF vars, owner, backend, Completed
  <2> QED BY <2>2 DEF ConfirmedRestarts
<1>3. CASE up # "refused" /\ up' = "refused"
  <2>1. BackendNext
    BY <1>3, VarsKept
  <2> QED BY <1>3, <2>1, RefusedForAReason
<1> QED BY <1>1, <1>2, <1>3

\* A restart is refused only where a result was not confirmed durable, or where an
\* undone effect had been recorded as completed: what was confirmed is found again,
\* and a tree on the way forward is always recognized.
THEOREM RestartsAreConfirmed == Spec => []ConfirmedRestarts
<1>1. BackendInit => ConfirmedRestarts
  BY DEF BackendInit, Init, ConfirmedRestarts
<1> QED BY <1>1, ReasonStays, ActiveInvHolds, TreeInvHolds, FactsInvHolds, BackendInvHolds,
           PTL DEF Spec

-----------------------------------------------------------------------------
(* What a process that never dies leaves unflushed.                        *)

\* A change whose filesystem is retained by a later step of its operation.
Unflushed == {"activate", "finish_update", "restore", "install"}

Settled == dirty = "dirty" \/ unsynced = {} \/ call.at \in Unflushed

Latest(p) == \A q \in Intended : undone[q] = "none" => turn[q] <= turn[p]

\* A path whose parent is gone: the engine goes back to it after every restart, and
\* nothing else is done.
StuckAt(p) ==
  /\ ~Resolves(p)
  /\ undone[p] = "none"
  /\ Latest(p)
  /\ \/ /\ phase = "recover"
        /\ call = NoCall \/ (call.path = p /\ call.at = "enter" /\ call.op = "recover")
     \/ /\ phase = "forward" /\ up # "up" /\ terminal[p] = "none"

TurnsDiffer == \A p, q \in Intended : turn[p] = turn[q] => p = q

CallsWork == faults \cap {"io", "fd"} = {}
Undying   == faults \cap {"crash", "power"} = {}

\* An effect that is to retain the filesystem has done so, or has made the authority
\* incomplete.
Marked == \A p \in Path : Retaining(p) => dirty # "clean"

\* Only a directory is updated to an incoming one.
UpdatesDirectory ==
  call.op = "publish" /\ call.at = "update" => IsDir(plan.before[call.path])

FlushInv ==
  /\ TurnsDiffer
  /\ call.op = "recover" => Latest(call.path)
  /\ UpdatesDirectory
  /\ CallsWork => dirty # "incomplete"
  /\ Undying /\ fact = "none" => \/ up = "up" /\ (CallsWork => Settled) /\ Marked
                                 \/ \E p \in Intended : StuckAt(p)

\* Every filesystem that is to be retained is, when no call fails.
LEMMA WorkingRetains ==
  ASSUME CallsWork, dirty # "incomplete", RetainDirty
  PROVE  dirty' = "dirty"
BY DEF RetainDirty, CallsWork

\* What is marked stays so while nothing is completed and nothing flushed.
LEMMA MarkedStays ==
  ASSUME UNCHANGED <<faults, plan, effects, dirty>>, Marked
  PROVE  Marked'
BY DEF Marked, Retaining

\* Steps without a change on disk leave nothing new to flush.
LEMMA SettledQuietly ==
  ASSUME UNCHANGED <<dirty, unsynced>>, Settled, call.at \notin Unflushed
  PROVE  Settled'
BY DEF Settled

\* Setting the mtimes retains their filesystem.
LEMMA RefreshedSettles ==
  ASSUME CallsWork, dirty # "incomplete", NEW p \in Path, Refreshed(p),
         call.at \notin Unflushed
  PROVE  dirty' # "incomplete" /\ (Settled => Settled')
<1>1. PICK done \in SUBSET Above[p] : RefreshAncestors(p, done)
  BY DEF Refreshed, NeedsRefresh
<1>2. CASE done = {}
  BY <1>1, <1>2, SettledQuietly DEF RefreshAncestors
<1>3. CASE done # {}
  BY <1>1, <1>3, WorkingRetains DEF RefreshAncestors, Settled
<1> QED BY <1>2, <1>3

LEMMA MechanismSettles ==
  ASSUME ActiveInv, CallsWork, dirty # "incomplete", NEW p \in Path, Mechanism(p)
  PROVE  /\ dirty' # "incomplete"
         /\ Settled /\ call.op # "discard" => Settled'
<1> USE WorkingRetains DEF Running, CallsWork
<1>0. call \in Calls /\ (call # NoCall => Placed(call.path, call.op, call.at))
  BY DEF ActiveInv, TypeOK, Issued, Calls
<1>1. CASE PublishIncoming(p)
  BY <1>1, SettledQuietly DEF PublishIncoming, Refuse, Unflushed
<1>2. CASE Prepare(p)
  BY <1>2, SettledQuietly DEF Prepare, Abandon, Fails, Refuse, Unflushed
<1>3. CASE Displace(p)
  <2>1. CASE Goto("activate") /\ UNCHANGED dirty
    BY <1>0, <1>3, <2>1 DEF Displace, Goto, Calls, Settled, Unflushed
  <2> QED BY <1>3, <2>1, SettledQuietly DEF Displace, Abandon, Unflushed
<1>4. CASE Activate(p)
  BY <1>4 DEF Activate, RetainPublished, Settled
<1>5. CASE UpdateDirectory(p)
  <2>1. CASE Goto("finish_update") /\ UNCHANGED dirty
    BY <1>0, <2>1 DEF Goto, Calls, Settled, Unflushed
  <2>2. CASE RetainDirty
    BY <2>2 DEF Settled
  <2> QED BY <1>5, <2>1, <2>2, SettledQuietly DEF UpdateDirectory, Fails, Refuse, Unflushed
<1>6. CASE FinishUpdate(p)
  BY <1>6 DEF FinishUpdate, Fails, Settled
<1>7. CASE Remove(p)
  BY <1>7, SettledQuietly DEF Remove, Refuse, Unflushed
<1>8. CASE Take(p)
  <2>1. CASE RetainDirty
    BY <2>1 DEF Settled
  <2> QED BY <1>8, <2>1, SettledQuietly DEF Take, Fails, Refuse, Unflushed
<1>9. CASE Recover(p)
  BY <1>9, SettledQuietly DEF Recover, Refuse, Unflushed
<1>10. CASE Clean(p)
  BY <1>10, SettledQuietly DEF Clean, Fails, Unflushed
<1>11. CASE Unpublish(p)
  <2>1. CASE Goto("restore") /\ UNCHANGED dirty
    BY <1>0, <2>1 DEF Goto, Calls, Settled, Unflushed
  <2> QED BY <1>11, <2>1, SettledQuietly DEF Unpublish, Fails, Refuse, Unflushed
<1>12. CASE Restore(p)
  BY <1>12 DEF Restore, Fails, Settled
<1>13. CASE Withdraw(p)
  <2>1. CASE RetainDirty
    BY <2>1 DEF Settled
  <2> QED BY <1>13, <2>1, SettledQuietly DEF Withdraw, Fails, Refuse, Unflushed
<1>14. CASE Copy(p)
  BY <1>14, SettledQuietly DEF Copy, Abandon, Fails, Refuse, Unflushed
<1>15. CASE Vacate(p)
  <2>1. CASE Goto("install") /\ UNCHANGED dirty
    BY <1>0, <2>1 DEF Goto, Calls, Settled, Unflushed
  <2> QED BY <1>15, <2>1, SettledQuietly DEF Vacate, Abandon, Unflushed
<1>16. CASE Install(p)
  BY <1>16 DEF Install, RetainPublished, Settled
<1>17. CASE Readmit(p)
  <2>1. CASE Refreshed(p)
    BY <1>17, <2>1, RefreshedSettles DEF Readmit, Unflushed
  <2> QED BY <1>17, <2>1, SettledQuietly DEF Readmit, Refuse, Unflushed
<1>18. CASE Refresh(p)
  BY <1>18, RefreshedSettles DEF Refresh, Unflushed
<1>19. CASE DiscardRecovery(p)
  BY <1>19, SettledQuietly DEF DiscardRecovery, Refuse, Unflushed
<1>20. CASE DropBelow(p) \/ Drop(p)
  <2>1. call.op = "discard"
    BY <1>0, <1>20, MechanismKeeps DEF DropBelow, Drop, Placed
  <2> QED BY <1>20, <2>1 DEF DropBelow, Drop, Fails, Refuse
<1> QED
  BY <1>1, <1>2, <1>3, <1>4, <1>5, <1>6, <1>7, <1>8, <1>9, <1>10, <1>11, <1>12,
     <1>13, <1>14, <1>15, <1>16, <1>17, <1>18, <1>19, <1>20 DEF Mechanism

\* No step of an operation forgets what was retained.
LEMMA MechanismRetains ==
  ASSUME NEW p \in Path, Mechanism(p), dirty # "clean"
  PROVE  dirty' # "clean"
<1>1. CASE Activate(p) \/ Install(p)
  BY <1>1 DEF Activate, Install, RetainPublished, RetainDirty, Abandon
<1>2. CASE UpdateDirectory(p) \/ FinishUpdate(p)
  BY <1>2 DEF UpdateDirectory, FinishUpdate, RetainDirty, Fails, Refuse
<1>3. CASE Take(p) \/ Restore(p) \/ Withdraw(p) \/ Drop(p)
  BY <1>3 DEF Take, Restore, Withdraw, Drop, RetainDirty, Fails, Refuse
<1>4. ASSUME Refreshed(p)
      PROVE  dirty' # "clean"
  <2>1. PICK done \in SUBSET Above[p] : RefreshAncestors(p, done)
    BY <1>4 DEF Refreshed, NeedsRefresh
  <2> QED BY <2>1 DEF RefreshAncestors, RetainDirty
<1>5. CASE Readmit(p) \/ Refresh(p)
  BY <1>4, <1>5 DEF Readmit, Refresh, Refuse
<1>6. CASE PublishIncoming(p) \/ Remove(p) \/ Recover(p) \/ DiscardRecovery(p)
  BY <1>6 DEF PublishIncoming, Remove, Recover, DiscardRecovery, Refuse
<1>7. CASE Prepare(p) \/ Displace(p) \/ Copy(p) \/ Vacate(p)
  BY <1>7 DEF Prepare, Displace, Copy, Vacate, Abandon, Fails, Refuse
<1>8. CASE Clean(p) \/ Unpublish(p) \/ DropBelow(p)
  BY <1>8 DEF Clean, Unpublish, DropBelow, Fails, Refuse
<1> QED BY <1>1, <1>2, <1>3, <1>5, <1>6, <1>7, <1>8 DEF Mechanism

\* An operation completes its effect once it has retained what it is to retain.
LEMMA CompletesMarked ==
  ASSUME ActiveInv, UNCHANGED owner, UpdatesDirectory, NEW p \in Path, Mechanism(p),
         effects'[p] = "completed", effects[p] # "completed", Retaining(p)'
  PROVE  dirty' # "clean"
<1>1. plan' = plan /\ faults' = faults
  BY MechanismStepKeeps DEF StepKeeps
<1>2. effects \in [Path -> {"none", "attempted", "completed"}]
  BY DEF ActiveInv, TypeOK
<1>3. ~UNCHANGED effects /\ ~Attempt(p)
  BY <1>2 DEF Attempt
<1>4. CASE Activate(p)
  <2>1. fs[p].prepared = plan.incoming[p] /\ plan.effect[p] = "incoming"
    <3>1. Running(p, "activate")
      BY <1>4 DEF Activate
    <3> QED BY <3>1, OwnContext DEF Placed, At
  <2>2. RetainPublished(p)
    BY <1>3, <1>4 DEF Activate, Abandon
  <2>3. IsDir(plan.incoming[p]) \/ "fd" \notin faults
    BY <1>1, <2>1 DEF Retaining
  <2> QED BY <2>1, <2>2, <2>3 DEF RetainPublished, RetainDirty
<1>5. CASE UpdateDirectory(p)
  <2>1. call.path = p /\ call.at = "update" /\ Updated(p)
    BY <1>3, <1>5 DEF UpdateDirectory, Running, Fails, Refuse
  <2>2. call.op = "publish"
    BY <1>3, <2>1 DEF Updated
  <2>3. IsDir(plan.before[p]) /\ BothDirs(fs[p].leaf, plan.incoming[p])
        /\ plan.effect[p] = "incoming"
    <3>1. Running(p, "update")
      BY <2>1 DEF Running
    <3>2. IsDir(plan.before[p])
      BY <2>1, <2>2 DEF UpdatesDirectory
    <3>3. BothDirs(fs[p].leaf, plan.incoming[p])
      BY <2>2, <3>1, UpdateContext
    <3>4. plan.effect[p] = "incoming"
      BY <2>2, <3>1, OwnContext DEF At
    <3> QED BY <3>2, <3>3, <3>4
  <2> QED BY <1>1, <2>3 DEF Retaining, BothDirs
<1>6. CASE FinishUpdate(p) \/ Take(p)
  <2>1. RetainDirty
    BY <1>3, <1>6 DEF FinishUpdate, Take, Fails, Refuse
  <2> QED BY <2>1 DEF RetainDirty
<1>7. CASE PublishIncoming(p) \/ Remove(p) \/ Recover(p) \/ DiscardRecovery(p)
  BY <1>3, <1>7 DEF PublishIncoming, Remove, Recover, DiscardRecovery, Refuse
<1>8. CASE Prepare(p) \/ Displace(p) \/ Copy(p) \/ Vacate(p)
  BY <1>3, <1>8 DEF Prepare, Displace, Copy, Vacate, Abandon, Fails, Refuse
<1>9. CASE Clean(p) \/ Unpublish(p) \/ Restore(p) \/ Withdraw(p) \/ Install(p)
  BY <1>3, <1>9 DEF Clean, Unpublish, Restore, Withdraw, Install, Abandon, Fails, Refuse
<1>10. CASE Readmit(p) \/ Refresh(p) \/ Drop(p) \/ DropBelow(p)
  BY <1>3, <1>10 DEF Readmit, Refresh, Refreshed, RefreshAncestors, Drop, DropBelow,
                     Fails, Refuse
<1> QED BY <1>4, <1>5, <1>6, <1>7, <1>8, <1>9, <1>10 DEF Mechanism

LEMMA MechanismMarks ==
  ASSUME ActiveInv, UNCHANGED owner, UpdatesDirectory, Marked, NEW p \in Path, Mechanism(p)
  PROVE  Marked'
<1>1. plan' = plan /\ faults' = faults /\ Noted(p)
  BY MechanismStepKeeps, StepNotes DEF ActiveInv, StepKeeps
<1> SUFFICES ASSUME NEW q \in Path, Retaining(q)' PROVE dirty' # "clean"
  BY DEF Marked
<1>2. effects'[q] = "completed"
  BY DEF Retaining
<1>3. CASE effects[q] = "completed"
  <2>1. Retaining(q)
    BY <1>1, <1>3 DEF Retaining
  <2> QED BY <2>1, MechanismRetains DEF Marked
<1>4. CASE effects[q] # "completed"
  <2>1. q = p
    BY <1>1, <1>2, <1>4 DEF Noted
  <2> QED BY <1>2, <1>4, <2>1, CompletesMarked
<1> QED BY <1>3, <1>4

\* publish_incoming goes on to the update of a directory that it found admitted.
LEMMA MechanismUpdates ==
  ASSUME ActiveInv, UNCHANGED owner, NEW p \in Path, Mechanism(p)
  PROVE  UpdatesDirectory'
<1>1. /\ call \in Calls /\ plan' = plan /\ call'.op = call.op /\ call'.path = call.path
      /\ call.path = p /\ call # NoCall
  BY MechanismStepKeeps, MechanismKeeps, StepNotes
     DEF ActiveInv, TypeOK, StepKeeps, Noted, Calls
<1> SUFFICES ASSUME call.op = "publish", call'.at = "update"
             PROVE  IsDir(plan.before[p])
  BY <1>1 DEF UpdatesDirectory
<1>2. CASE PublishIncoming(p)
  BY <1>1, <1>2 DEF PublishIncoming, Refuse, Answer, Goto, Calls, Admitted
<1>3. CASE Prepare(p) \/ Displace(p) \/ Activate(p)
  BY <1>1, <1>3 DEF Prepare, Displace, Activate, Abandon, Fails, Refuse, Answer, Goto, Calls
<1>4. CASE UpdateDirectory(p) \/ FinishUpdate(p)
  <2>1. \/ Goto("refresh") \/ Goto("finish_update")
        \/ Answer("failed") \/ Answer("indeterminate")
    BY <1>4 DEF UpdateDirectory, FinishUpdate, Updated, Fails, Refuse
  <2> QED BY <1>1, <2>1 DEF Answer, Goto, Calls
<1>5. CASE Remove(p) \/ Take(p)
  BY <1>1, <1>5 DEF Remove, Take, Fails, Refuse, Answer, Goto, Calls
<1>6. CASE Refresh(p) \/ Readmit(p)
  BY <1>1, <1>6 DEF Refresh, Readmit, Refreshed, Refuse, Answer, Calls
<1>7. CASE Recover(p)
  BY <1>7 DEF Recover
<1>8. CASE \/ Clean(p) \/ Unpublish(p) \/ Restore(p) \/ Withdraw(p) \/ Copy(p)
           \/ Vacate(p) \/ Install(p)
  <2>1. call.op = "recover"
    BY <1>1, <1>8 DEF ActiveInv, Issued, Placed, Running, Clean, Unpublish, Restore,
                      Withdraw, Copy, Vacate, Install
  <2> QED BY <2>1
<1>9. CASE DiscardRecovery(p) \/ DropBelow(p) \/ Drop(p)
  <2>1. call.op = "discard"
    BY <1>1, <1>9 DEF ActiveInv, Issued, Placed, Running, DiscardRecovery, DropBelow, Drop
  <2> QED BY <2>1
<1> QED BY <1>2, <1>3, <1>4, <1>5, <1>6, <1>7, <1>8, <1>9 DEF Mechanism

\* The engine stays where it is stuck.
LEMMA StuckStays ==
  ASSUME UNCHANGED <<fs, turn, undone, terminal>>, NEW p \in Intended, StuckAt(p),
         \/ /\ phase' = "recover"
            /\ call' = NoCall \/ (call'.path = p /\ call'.at = "enter" /\ call'.op = "recover")
         \/ phase' = phase /\ phase = "forward" /\ up' # "up"
  PROVE  \E q \in Intended' : StuckAt(q)'
<1>1. Intended' = Intended
  BY DEF Intended
<1>2. StuckAt(p)'
  BY <1>1 DEF StuckAt, Resolves, Latest
<1> QED BY <1>1, <1>2

\* Nothing the order of the recoveries depends on changes.
LEMMA LatestStays ==
  ASSUME UNCHANGED <<turn, undone>>, NEW p, Latest(p)
  PROVE  Latest(p)'
BY DEF Latest, Intended

\* Turns stay distinct while none is given.
LEMMA OrderOfTurnsStays ==
  ASSUME TurnsDiffer, turn' = turn
  PROVE  TurnsDiffer'
BY DEF TurnsDiffer, Intended

\* Steps that leave the engine, the tree and the dirty set alone.
LEMMA QuietFlush ==
  ASSUME FlushInv, UNCHANGED vars
  PROVE  FlushInv'
<1>1. /\ faults' = faults /\ fs' = fs /\ dirty' = dirty /\ call' = call /\ phase' = phase
      /\ unsynced' = unsynced /\ turn' = turn /\ undone' = undone /\ up' = up
      /\ fact' = fact /\ terminal' = terminal /\ plan' = plan /\ effects' = effects
  BY DEF vars, namespace, owner
<1>2. TurnsDiffer' /\ UpdatesDirectory' /\ (call'.op = "recover" => Latest(call.path)')
  BY <1>1, OrderOfTurnsStays, LatestStays DEF FlushInv, UpdatesDirectory
<1>3. (Settled => Settled') /\ (Marked => Marked')
  BY <1>1, MarkedStays DEF Settled
<1>4. \A p \in Intended : StuckAt(p) => \E q \in Intended' : StuckAt(q)'
  BY <1>1, StuckStays DEF StuckAt
<1> QED BY <1>1, <1>2, <1>3, <1>4 DEF FlushInv, CallsWork, Undying

\* The engine goes on, and leaves the tree, the filesystems and the order alone.
LEMMA EngineFlush ==
  ASSUME FlushInv, UNCHANGED <<faults, plan, fs, effects, dirty, unsynced>>,
         UNCHANGED <<turn, undone, fact, up, terminal>>,
         up = "up", call.at \notin Unflushed, call'.at # "update",
         call'.op = "recover" => Latest(call'.path),
         \A p \in Intended : StuckAt(p) =>
           /\ phase' = "recover"
           /\ call' = NoCall \/ (call'.path = p /\ call'.at = "enter" /\ call'.op = "recover")
  PROVE  FlushInv'
<1>1. TurnsDiffer' /\ UpdatesDirectory' /\ (call'.op = "recover" => Latest(call.path)')
  BY OrderOfTurnsStays, LatestStays DEF FlushInv, UpdatesDirectory
<1>2. (Settled => Settled') /\ (Marked => Marked')
  BY SettledQuietly, MarkedStays
<1>3. \A p \in Intended : StuckAt(p) => \E q \in Intended' : StuckAt(q)'
  BY StuckStays
<1> QED BY <1>1, <1>2, <1>3 DEF FlushInv, CallsWork, Undying

LEMMA ExecuteFlush ==
  ASSUME ActiveInv, FlushInv, NEW p \in Path, ExecuteActive(p)
  PROVE  FlushInv'
<1>1. /\ UNCHANGED <<faults, plan, fs, effects, dirty, unsynced>>
      /\ UNCHANGED <<undone, fact, up, terminal, phase>>
      /\ up = "up" /\ call = NoCall /\ phase = "forward" /\ p \notin Intended
      /\ call'.at = "enter" /\ call'.op # "recover"
      /\ turn' = [turn EXCEPT ![p] = Cardinality(Intended) + 1]
  BY DEF ExecuteActive, Issue
<1>2. TypeOK
  BY DEF ActiveInv
<1>3. /\ Cardinality(Intended) \in Nat
      /\ \A q \in Intended : turn[q] \in Nat /\ turn[q] <= Cardinality(Intended)
  <2>1. Intended \subseteq Path
    BY DEF Intended
  <2> QED BY <1>2, <2>1, FS_Subset, FS_CardinalityType DEF TypeOK, ActiveInv, Ordered
<1>4. /\ turn'[p] = Cardinality(Intended) + 1
      /\ \A q \in Path \ {p} : turn'[q] = turn[q]
  BY <1>1, <1>2 DEF TypeOK
<1>5. Intended' = Intended \cup {p}
  BY <1>3, <1>4 DEF Intended
<1>6. TurnsDiffer'
  <2>1. \A q \in Intended : turn'[q] = turn[q] /\ turn'[q] # turn'[p]
    <3>1. \A q \in Intended : q \in Path \ {p}
      BY <1>1 DEF Intended
    <3> QED BY <1>3, <1>4, <3>1
  <2> QED BY <1>5, <2>1 DEF FlushInv, TurnsDiffer
<1>7. Undying /\ fact = "none" => (CallsWork => Settled) /\ Marked
  BY <1>1 DEF FlushInv, StuckAt
<1>8. (Settled => Settled') /\ (Marked => Marked')
  BY <1>1, SettledQuietly, MarkedStays DEF NoCall, Unflushed
<1>9. UpdatesDirectory'
  BY <1>1 DEF UpdatesDirectory
<1> QED BY <1>1, <1>6, <1>7, <1>8, <1>9 DEF FlushInv, CallsWork, Undying

LEMMA MechanismFlush ==
  ASSUME ActiveInv, TreeInv, FlushInv, UNCHANGED owner, NEW p \in Path, Mechanism(p)
  PROVE  FlushInv'
<1>1. call # NoCall /\ call.path = p /\ up = "up"
  BY MechanismKeeps, StepNotes DEF ActiveInv, Noted, Issued
<1>2. StepKeeps
  BY MechanismStepKeeps
<1>3. /\ faults' = faults /\ call'.op = call.op /\ call'.path = call.path
      /\ turn' = turn /\ undone' = undone /\ fact' = fact /\ up' = up
  BY <1>2 DEF StepKeeps, owner
<1>4. TurnsDiffer' /\ (call'.op = "recover" => Latest(call.path)')
  BY <1>3, OrderOfTurnsStays, LatestStays DEF FlushInv
<1>5. \A q \in Intended : ~StuckAt(q)
  <2> SUFFICES ASSUME NEW q \in Intended, StuckAt(q) PROVE FALSE
    OBVIOUS
  <2>1. q = p /\ call.at = "enter" /\ call.op = "recover" /\ ~Resolves(p)
    BY <1>1 DEF StuckAt
  <2>2. Recover(p)
    BY <2>1 DEF Mechanism, PublishIncoming, Prepare, Displace, Activate, UpdateDirectory,
                FinishUpdate, Remove, Take, Clean, Unpublish, Restore, Withdraw, Copy, Vacate,
                Install, Readmit, Refresh, DiscardRecovery, DropBelow, Drop, Running
  <2> QED BY <2>1, <2>2 DEF Recover
<1>6. Undying /\ fact = "none" => (CallsWork => Settled) /\ Marked /\ call.op # "discard"
  <2>1. call.op = "discard" => Going
    BY <1>1 DEF ActiveInv, Issued, Going
  <2> QED BY <1>5, <2>1 DEF FlushInv, TreeInv, Agrees
<1>7. UpdatesDirectory' /\ (Marked => Marked')
  BY MechanismUpdates, MechanismMarks DEF FlushInv
<1>8. (CallsWork <=> CallsWork') /\ (Undying <=> Undying')
  BY <1>3 DEF CallsWork, Undying
<1>9. CallsWork => /\ dirty' # "incomplete"
                   /\ Settled /\ call.op # "discard" => Settled'
  BY MechanismSettles DEF FlushInv
<1> QED BY <1>1, <1>3, <1>4, <1>6, <1>7, <1>8, <1>9 DEF FlushInv

\* An operation that throws leaves the engine stuck at its path.
LEMMA ThrowFlush ==
  ASSUME ActiveInv, TreeInv, FlushInv, Throw
  PROVE  FlushInv'
<1>1. /\ UNCHANGED <<faults, fs, unsynced, phase, turn, terminal, undone, fact>>
      /\ up' = "down" /\ dirty' = "clean" /\ call' = NoCall
      /\ call.at = "enter" /\ ~Resolves(call.path) /\ call # NoCall
  BY DEF Throw, Forget, NoCall
<1>2. TurnsDiffer'
  BY <1>1, OrderOfTurnsStays DEF FlushInv
<1>3. ASSUME fact = "none"
      PROVE  \E q \in Intended' : StuckAt(q)'
  <2>1. PICK p \in Path : p = call.path
    BY <1>1 DEF ActiveInv, Issued, Intended
  <2>2. TypeOK /\ p \in Intended /\ call.op \in {"publish", "remove", "recover", "discard"}
    BY <1>1, <2>1 DEF ActiveInv, Issued
  <2>3. call.op # "discard"
    <3>1. call.op = "discard" => Going
      BY <1>1 DEF ActiveInv, Issued, Going
    <3> QED BY <1>3, <3>1 DEF TreeInv, Agrees
  <2>4. CASE call.op \in {"publish", "remove"}
    <3>1. /\ phase = "forward" /\ terminal[p] = "none"
          /\ \A q \in Intended \ {p} : turn[q] < turn[p]
      BY <2>1, <2>4, WorkContext DEF Pursuing
    <3>2. undone[p] = "none"
      BY <3>1 DEF ActiveInv, Ordered
    <3>3. Latest(p)
      <4>1. \A q \in Intended : q \in Path /\ turn[q] \in Nat
        BY <2>2 DEF TypeOK, Intended
      <4> QED BY <2>2, <3>1, <4>1 DEF Latest
    <3>4. Latest(p)' /\ Intended' = Intended
      BY <1>1, <3>3, LatestStays DEF Intended
    <3>5. StuckAt(p)'
      BY <1>1, <2>1, <3>1, <3>2, <3>4 DEF StuckAt, Resolves
    <3> QED BY <2>2, <3>4, <3>5
  <2>5. CASE call.op = "recover"
    <3>1. phase = "recover" /\ undone[p] = "none" /\ Latest(p)
      BY <1>1, <2>1, <2>5 DEF ActiveInv, Issued, FlushInv
    <3>2. Latest(p)' /\ Intended' = Intended
      BY <1>1, <3>1, LatestStays DEF Intended
    <3>3. StuckAt(p)'
      BY <1>1, <2>1, <3>1, <3>2 DEF StuckAt, Resolves
    <3> QED BY <2>2, <3>2, <3>3
  <2> QED BY <2>2, <2>3, <2>4, <2>5
<1> QED BY <1>1, <1>2, <1>3 DEF FlushInv, NoCall, UpdatesDirectory, CallsWork, Undying

\* A stuck engine is stuck after a restart.
LEMMA RestartFlush ==
  ASSUME ActiveInv, FlushInv, LoadRestart
  PROVE  FlushInv'
<1>1. /\ UNCHANGED <<faults, fs, dirty, unsynced, turn, terminal, undone, fact, call>>
      /\ up = "down" /\ call = NoCall
  BY DEF LoadRestart, Restart, namespace, ActiveInv, Issued
<1>2. \/ up' = "refused" /\ phase' = phase
      \/ phase' = IF phase = "forward" /\ \E p \in Intended : terminal[p] = "none"
                    THEN "recover" ELSE phase
  BY DEF LoadRestart, Restart
<1>3. TurnsDiffer'
  BY <1>1, OrderOfTurnsStays DEF FlushInv
<1>4. \A p \in Intended : StuckAt(p) => \E q \in Intended' : StuckAt(q)'
  <2> SUFFICES ASSUME NEW p \in Intended, StuckAt(p) PROVE \E q \in Intended' : StuckAt(q)'
    OBVIOUS
  <2>1. \/ phase' = "recover"
        \/ phase' = phase /\ phase = "forward" /\ up' # "up"
    BY <1>2 DEF StuckAt
  <2> QED BY <1>1, <2>1, StuckStays
<1>5. UpdatesDirectory'
  BY <1>1 DEF UpdatesDirectory, NoCall
<1> QED BY <1>1, <1>3, <1>4, <1>5 DEF FlushInv, NoCall, CallsWork, Undying

\* The loss of a displaced object leaves everything else as it is.
LEMMA LoseFlush ==
  ASSUME ActiveInv, FlushInv, NEW p \in Path, Lose(p)
  PROVE  FlushInv'
<1>1. /\ TypeOK /\ fs \in [Path -> Names] /\ call = NoCall
      /\ UNCHANGED <<faults, plan, effects, dirty, call, unsynced>>
      /\ UNCHANGED <<phase, turn, terminal, undone, fact, up>>
  BY DEF ActiveInv, TypeOK, Names, Lose, owner
<1>2. PICK w \in Names : w = [fs[p] EXCEPT !.displaced = Absent]
  <2>1. [fs[p] EXCEPT !.displaced = Absent] \in Names
    BY <1>1 DEF Names
  <2> QED BY <2>1
<1>3. w.leaf = fs[p].leaf
  BY <1>1, <1>2 DEF Names
<1>4. fs'[p] = w /\ \A q \in Path \ {p} : KeepsNames(q)
  <2>1. fs' = Tree(p, w)
    BY <1>2 DEF Lose
  <2> QED BY <1>1, <2>1, TreeKeeps
<1>5. \A q \in Path : IsDir(fs'[q].leaf) <=> IsDir(fs[q].leaf)
  BY <1>3, <1>4, AlikeDirs DEF KeepsNames
<1>6. \A q \in Path : Resolves(q)' <=> Resolves(q)
  BY <1>5, PathsAbove DEF Resolves
<1>7. Intended' = Intended /\ \A q \in Intended : StuckAt(q) => StuckAt(q)'
  <2>1. Intended' = Intended
    BY <1>1 DEF Intended
  <2> SUFFICES ASSUME NEW q \in Intended, StuckAt(q) PROVE StuckAt(q)'
    BY <2>1
  <2>2. ~Resolves(q)' /\ Latest(q)'
    BY <1>1, <1>6, LatestStays DEF StuckAt, Intended
  <2> QED BY <1>1, <2>2 DEF StuckAt
<1>8. TurnsDiffer' /\ (Settled => Settled') /\ (Marked => Marked')
  BY <1>1, OrderOfTurnsStays, MarkedStays DEF FlushInv, Settled
<1> QED BY <1>1, <1>7, <1>8 DEF FlushInv, NoCall, UpdatesDirectory, CallsWork, Undying

LEMMA InitFlush == BackendInit => FlushInv
<1> SUFFICES ASSUME BackendInit PROVE FlushInv
  OBVIOUS
<1>1. Intended = {}
  BY DEF BackendInit, Init, Intended
<1>2. Marked
  BY DEF BackendInit, Init, Marked, Retaining
<1> QED BY <1>1, <1>2 DEF BackendInit, Init, FlushInv, TurnsDiffer, Settled, NoCall,
                        UpdatesDirectory

LEMMA FlushNext ==
  ASSUME ActiveInv, TreeInv, FlushInv, [BackendNext]_<<vars, backend>>
  PROVE  FlushInv'
<1>1. CASE UNCHANGED vars
  BY <1>1, QuietFlush
<1>2. StagePayloads \/ PublishCompletedEvidence \/ LosePower => UNCHANGED vars
  BY DEF StagePayloads, PublishCompletedEvidence, LosePower, Keep, StoreFails
<1>3. \A p \in Path : CaptureOld(p) \/ ExecuteRejected(p) => UNCHANGED vars
  BY DEF CaptureOld, ExecuteRejected, Keep, StoreFails
<1>4. \A domain \in Domain : SynchronizeStore(domain) => UNCHANGED vars
  BY DEF SynchronizeStore
<1>5. CASE RecordResult
  <2>1. /\ UNCHANGED <<namespace, turn, terminal, undone, fact, up>> /\ call = NoCall
        /\ up = "up"
        /\ phase' = phase \/ (phase' = "recover" /\ phase = "forward")
    BY <1>5 DEF RecordResult, ActiveInv, Exclusive
  <2>2. /\ UNCHANGED <<faults, plan, fs, effects, dirty, unsynced, call>>
        /\ UNCHANGED <<turn, undone, fact, up, terminal>>
    BY <2>1 DEF namespace
  <2> QED BY <2>1, <2>2, EngineFlush DEF NoCall, Unflushed, StuckAt
<1>6. ASSUME NEW p \in Path, BackendExecuteActive(p)
      PROVE  FlushInv'
  BY <1>6, ExecuteFlush DEF BackendExecuteActive
<1>7. ASSUME NEW p \in Path, BackendRecover(p)
      PROVE  FlushInv'
  <2>1. /\ UNCHANGED <<faults, plan, fs, effects, dirty, unsynced>>
        /\ UNCHANGED <<turn, undone, fact, up, terminal, phase>>
        /\ up = "up" /\ call = NoCall /\ phase = "recover" /\ undone[p] = "none"
        /\ p \in Intended /\ Latest(p)
        /\ call' = [op |-> "recover", path |-> p, at |-> "enter"]
    BY <1>7 DEF BackendRecover, RecoverPath, Issue, owner, Latest
  <2>2. \A q \in Intended : StuckAt(q) => q = p
    <3> SUFFICES ASSUME NEW q \in Intended, StuckAt(q) PROVE q = p
      OBVIOUS
    <3>1. turn[p] <= turn[q] /\ turn[q] <= turn[p]
      BY <2>1 DEF StuckAt, Latest
    <3>2. turn[p] \in Nat /\ turn[q] \in Nat
      BY <2>1 DEF ActiveInv, TypeOK, Intended
    <3>3. turn[p] = turn[q]
      BY ONLY <3>1, <3>2
    <3> QED BY <2>1, <3>3 DEF FlushInv, TurnsDiffer
  <2>3. call'.op = "recover" /\ call'.path = p /\ call'.at = "enter"
    BY <2>1
  <2> QED BY <2>1, <2>2, <2>3, EngineFlush DEF NoCall, Unflushed
<1>8. CASE SynchronizeActive
  <2>1. /\ UNCHANGED <<faults, turn, call>> /\ call = NoCall /\ fact' # "none"
        /\ dirty' = dirty \/ dirty' = "clean"
    BY <1>8 DEF SynchronizeActive, Synchronize, namespace
  <2> QED BY <2>1, OrderOfTurnsStays DEF FlushInv, NoCall, UpdatesDirectory, CallsWork
<1>9. CASE BackendConclude
  <2>1. /\ UNCHANGED <<namespace, turn, terminal, undone, fact, up>> /\ call = NoCall
        /\ up = "up"
        /\ phase = "forward" \/ \A p \in Intended : undone[p] # "none"
    BY <1>9 DEF BackendConclude, Conclude
  <2>2. /\ UNCHANGED <<faults, plan, fs, effects, dirty, unsynced, call>>
        /\ UNCHANGED <<turn, undone, fact, up, terminal>>
    BY <2>1 DEF namespace
  <2> QED BY <2>1, <2>2, EngineFlush DEF NoCall, Unflushed, StuckAt
<1>10. CASE ActiveStep
  <2>1. ASSUME NEW p \in Path, Mechanism(p) /\ UNCHANGED owner
        PROVE  FlushInv'
    BY <2>1, MechanismFlush
  <2>2. ASSUME NEW p \in Path, RecordEffect(p)
        PROVE  FlushInv'
    <3>1. /\ UNCHANGED <<faults, plan, effects, fs, dirty, unsynced, turn, undone, fact, up>>
          /\ up = "up" /\ call.at = "returned" /\ call' = NoCall
      BY <2>2 DEF RecordEffect, Returned
    <3>2. TurnsDiffer' /\ (Settled => Settled') /\ (Marked => Marked')
      BY <3>1, OrderOfTurnsStays, SettledQuietly, MarkedStays DEF FlushInv, Unflushed
    <3>3. \A q \in Intended : ~StuckAt(q)
      BY <3>1 DEF StuckAt, NoCall
    <3> QED BY <3>1, <3>2, <3>3 DEF FlushInv, NoCall, UpdatesDirectory, CallsWork, Undying
  <2>3. ASSUME NEW p \in Path, RecordRecovery(p) \/ RecordDiscard(p)
        PROVE  FlushInv'
    <3>1. /\ UNCHANGED <<faults, plan, effects, fs, dirty, unsynced, turn, fact, up>>
          /\ up = "up" /\ call.at = "returned" /\ call' = NoCall
      BY <2>3 DEF RecordRecovery, RecordDiscard, Returned
    <3>2. TurnsDiffer' /\ (Settled => Settled') /\ (Marked => Marked')
      BY <3>1, OrderOfTurnsStays, SettledQuietly, MarkedStays DEF FlushInv, Unflushed
    <3>3. \A q \in Intended : ~StuckAt(q)
      BY <3>1 DEF StuckAt, NoCall
    <3> QED BY <3>1, <3>2, <3>3 DEF FlushInv, NoCall, UpdatesDirectory, CallsWork, Undying
  <2>4. ASSUME NEW p \in Path, DiscardPath(p)
        PROVE  FlushInv'
    <3>1. /\ UNCHANGED <<faults, dirty, turn, fact>> /\ fact # "none"
          /\ call'.op = "discard"
      BY <2>4 DEF DiscardPath, Issue, owner
    <3> QED BY <3>1, OrderOfTurnsStays DEF FlushInv, UpdatesDirectory, CallsWork
  <2>5. ASSUME NEW p \in Path, Lose(p)
        PROVE  FlushInv'
    BY <2>5, LoseFlush
  <2>6. CASE Cancel
    <3>1. /\ UNCHANGED <<namespace, turn, terminal, undone, fact, up>> /\ call = NoCall
          /\ up = "up" /\ phase = "forward"
      BY <2>6 DEF Cancel
    <3>2. /\ UNCHANGED <<faults, plan, fs, effects, dirty, unsynced, call>>
          /\ UNCHANGED <<turn, undone, fact, up, terminal>>
      BY <3>1 DEF namespace
    <3> QED BY <3>1, <3>2, EngineFlush DEF NoCall, Unflushed, StuckAt
  <2> QED BY <1>10, <2>1, <2>2, <2>3, <2>4, <2>5, <2>6 DEF ActiveStep
<1>11. CASE Crash
  <2>1. /\ "crash" \in faults /\ UNCHANGED <<faults, turn>>
        /\ call' = NoCall /\ dirty' = "clean"
    BY <1>11 DEF Crash, Forget
  <2> QED BY <2>1, OrderOfTurnsStays DEF FlushInv, NoCall, UpdatesDirectory, Undying
<1>12. CASE Throw
  BY <1>12, ThrowFlush
<1>13. CASE LoadRestart
  BY <1>13, RestartFlush
<1> QED
  BY <1>1, <1>2, <1>3, <1>4, <1>5, <1>6, <1>7, <1>8, <1>9, <1>10, <1>11, <1>12, <1>13
     DEF BackendNext

\* What must be flushed is known in every state.
LEMMA FlushInvHolds == Spec => []FlushInv
<1> QED BY InitFlush, FlushNext, ActiveInvHolds, TreeInvHolds, PTL DEF Spec

\* Only a synchronization of the active namespace confirms it.
LEMMA ConfirmedBySynchronize ==
  ASSUME [BackendNext]_<<vars, backend>>, Confirms
  PROVE  Synchronize
<1>1. UNCHANGED vars => fact' = fact
  BY VarsKept
<1>2. StagePayloads \/ PublishCompletedEvidence \/ RecordResult \/ BackendConclude
        \/ LosePower => fact' = fact
  BY <1>1 DEF StagePayloads, PublishCompletedEvidence, Keep, StoreFails, RecordResult,
              BackendConclude, Conclude, LosePower
<1>3. \A domain \in Domain : SynchronizeStore(domain) => fact' = fact
  BY <1>1 DEF SynchronizeStore
<1>4. \A p \in Path : CaptureOld(p) \/ ExecuteRejected(p) \/ BackendExecuteActive(p)
                        \/ BackendRecover(p) => fact' = fact
  BY <1>1 DEF CaptureOld, ExecuteRejected, Keep, StoreFails, BackendExecuteActive,
              ExecuteActive, BackendRecover, RecoverPath, owner
<1>5. ActiveStep => fact' = fact
  BY DEF ActiveStep, RecordEffect, RecordRecovery, RecordDiscard, Returned, DiscardPath,
         Lose, Cancel, owner
<1>6. Crash \/ Throw \/ LoadRestart => fact' = fact
  BY DEF Crash, Throw, LoadRestart, Restart
<1>7. SynchronizeActive => Synchronize \/ fact' = "not_attempted"
  BY DEF SynchronizeActive
<1> QED BY <1>1, <1>2, <1>3, <1>4, <1>5, <1>6, <1>7 DEF BackendNext, Confirms

\* In an attempt whose process never dies, a confirmation of the active namespace
\* leaves nothing changed unflushed where no call fails, or once a completed effect has
\* retained the filesystem: an operation retains what it changed before its effect is
\* complete, and an engine that lost what it retained never gets to synchronize.
THEOREM ConfirmationsAreFlushed == Spec => ConfirmedIsFlushed
<1>1. ActiveInv /\ FlushInv /\ [BackendNext]_<<vars, backend>> =>
        [/\ Confirms
         /\ faults \cap {"crash", "power"} = {}
         /\ faults \cap {"io", "fd"} = {} \/ \E p \in Path : Retaining(p)
         => unsynced' = {}]_vars
  <2> SUFFICES ASSUME ActiveInv, FlushInv, [BackendNext]_<<vars, backend>>, Confirms,
                      Undying, CallsWork \/ \E p \in Path : Retaining(p)
               PROVE  unsynced' = {}
    BY DEF Undying, CallsWork
  <2>1. Synchronize
    BY ConfirmedBySynchronize
  <2>2. /\ call = NoCall /\ phase \in {"applied", "restored"}
        /\ dirty # "incomplete"
        /\ unsynced' = IF dirty = "dirty" THEN {} ELSE unsynced
    BY <2>1 DEF Synchronize, Confirms
  <2>3. (CallsWork => Settled) /\ Marked
    BY <2>2 DEF FlushInv, Confirms, StuckAt
  <2>4. CASE CallsWork
    BY <2>2, <2>3, <2>4 DEF Settled, NoCall, Unflushed
  <2>5. CASE \E p \in Path : Retaining(p)
    <3>1. dirty = "dirty"
      BY <2>2, <2>3, <2>5 DEF Marked, ActiveInv, TypeOK
    <3> QED BY <2>2, <3>1
  <2> QED BY <2>4, <2>5
<1> QED BY <1>1, ActiveInvHolds, FlushInvHolds, PTL DEF Spec, ConfirmedIsFlushed
=============================================================================
