--------------------------- MODULE ActiveAttempt ----------------------------
(***************************************************************************)
(* One application attempt over the active namespace: the commands of the  *)
(* engine (libpkgapply, outside this repository) as src/src/backend.cpp    *)
(* executes them, the terminal results the engine keeps durably, and what  *)
(* a restart hands back to the backend (load_restart).                     *)
(*                                                                         *)
(* The engine records an intent before each effect and its result after    *)
(* it, executes each path once, and on failure, cancellation or an intent  *)
(* left open by a crash recovers the attempted paths, latest first.        *)
(***************************************************************************)
EXTENDS ActiveNamespace

VARIABLES
  phase,     \* durable: "forward", "recover", and "applied" or "restored"
  turn,      \* durable: when the effect of each path was intended, 0 if not
  terminal,  \* durable: the recorded result of each effect
  undone,    \* durable: the recorded result of each recovery
  fact,      \* the durability fact of the active namespace
  up         \* whether a process runs the attempt, or cannot reopen it

owner == <<phase, turn, terminal, undone, fact, up>>
vars  == <<namespace, owner>>

Pending == Outcome \cup {"none"}

Init ==
  /\ faults \in Worlds
  /\ plan \in Plans
  /\ fs = [p \in Path |-> [leaf |-> plan.before[p], prepared |-> Absent,
                           displaced |-> Absent]]
  /\ effects = [p \in Path |-> "none"]
  /\ dirty = "clean"
  /\ call = NoCall
  /\ answer = "none"
  /\ unsynced = {}
  /\ phase = "forward"
  /\ turn = [p \in Path |-> 0]
  /\ terminal = [p \in Path |-> "none"]
  /\ undone = [p \in Path |-> "none"]
  /\ fact = "none"
  /\ up = "up"

-----------------------------------------------------------------------------
(* The engine. *)

Intended == {p \in Path : turn[p] > 0}
Planned  == {p \in Path : plan.effect[p] # "none"}

\* What is published comes before what is removed, directories before what
\* goes into them and after what was in them (the order of the tests).
Precedes(p, q) ==
  \/ plan.effect[p] = "incoming" /\ plan.effect[q] = "remove"
  \/ plan.effect[p] = "incoming" /\ p \in Above[q]
  \/ plan.effect[p] = "remove" /\ plan.effect[q] = "remove" /\ q \in Above[p]

Issue(p, op) ==
  /\ up = "up"
  /\ call = NoCall
  /\ call' = [op |-> op, path |-> p, at |-> "enter"]
  /\ UNCHANGED <<faults, plan, fs, effects, dirty, answer, unsynced>>

ExecuteActive(p) ==
  /\ phase = "forward"
  /\ p \in Planned \ Intended
  /\ \A q \in Planned \ Intended : ~Precedes(q, p)
  /\ Issue(p, IF plan.effect[p] = "incoming" THEN "publish" ELSE "remove")
  /\ turn' = [turn EXCEPT ![p] = Cardinality(Intended) + 1]
  /\ UNCHANGED <<phase, terminal, undone, fact, up>>

Returned ==
  /\ up = "up"
  /\ call.at = "returned"
  /\ call' = NoCall
  /\ answer' = "none"
  /\ UNCHANGED <<faults, plan, fs, effects, dirty, unsynced, turn, fact, up>>

RecordEffect(p) ==
  /\ call.path = p
  /\ call.op \in {"publish", "remove"}
  /\ Returned
  /\ terminal' = [terminal EXCEPT ![p] = answer]
  /\ phase' = IF answer \in {"failed", "indeterminate"} THEN "recover" ELSE phase
  /\ UNCHANGED undone

\* Cancellation after a mutation of the target.
Cancel ==
  /\ up = "up"
  /\ phase = "forward"
  /\ call = NoCall
  /\ Intended # {}
  /\ phase' = "recover"
  /\ UNCHANGED <<namespace, turn, terminal, undone, fact, up>>

RecoverPath(p) ==
  /\ phase = "recover"
  /\ p \in Intended
  /\ undone[p] = "none"
  /\ \A q \in Intended : undone[q] = "none" => turn[q] <= turn[p]
  /\ Issue(p, "recover")
  /\ UNCHANGED owner

RecordRecovery(p) ==
  /\ call.path = p
  /\ call.op = "recover"
  /\ Returned
  /\ undone' = [undone EXCEPT ![p] = answer]
  /\ UNCHANGED <<phase, terminal>>

Conclude ==
  /\ up = "up"
  /\ call = NoCall
  /\ \/ phase = "forward" /\ Planned \subseteq Intended /\ phase' = "applied"
     \/ /\ phase = "recover"
        /\ \A p \in Intended : undone[p] # "none"
        /\ phase' = "restored"
  /\ UNCHANGED <<namespace, turn, terminal, undone, fact, up>>

\* synchronize(active_namespace): syncfs of every retained filesystem.
Synchronize ==
  /\ up = "up"
  /\ phase \in {"applied", "restored"}
  /\ call = NoCall
  /\ fact = "none"
  /\ \/ /\ dirty # "incomplete"
        /\ fact' = "confirmed"
        /\ dirty' = "clean"
        /\ unsynced' = IF dirty = "dirty" THEN {} ELSE unsynced
     \/ /\ dirty = "incomplete" \/ "io" \in faults
        /\ fact' = "unconfirmed"
        /\ UNCHANGED <<dirty, unsynced>>
  /\ UNCHANGED <<faults, plan, fs, effects, call, answer,
                 phase, turn, terminal, undone, up>>

\* What was displaced is discarded once the attempt is applied, where a
\* capture or a change of kind displaced something.
Displacing ==
  {p \in Intended :
     \/ p \in plan.captured
     \/ /\ plan.effect[p] = "incoming"
        /\ plan.before[p] # Absent
        /\ IsDir(plan.before[p]) # IsDir(plan.incoming[p])}

DiscardPath(p) ==
  /\ phase = "applied"
  /\ fact # "none"
  /\ p \in Displacing
  /\ undone[p] = "none"
  /\ \A q \in Displacing : undone[q] = "none" => turn[q] <= turn[p]
  /\ Issue(p, "discard")
  /\ UNCHANGED owner

RecordDiscard(p) ==
  /\ call.path = p
  /\ call.op = "discard"
  /\ Returned
  /\ undone' = [undone EXCEPT ![p] = answer]
  /\ UNCHANGED <<phase, terminal>>

-----------------------------------------------------------------------------
(* Crash and restart. *)

Forget ==
  /\ effects' = [p \in Path |-> "none"]
  /\ dirty' = "clean"
  /\ call' = NoCall
  /\ answer' = "none"

Crash ==
  /\ "crash" \in faults
  /\ up = "up"
  /\ up' = "down"
  /\ Forget
  /\ UNCHANGED <<faults, plan, fs, unsynced, phase, turn, terminal, undone, fact>>

\* A parent that does not resolve makes the operation throw: the engine has no
\* result to record and gives the process up.
Throw ==
  /\ up = "up"
  /\ call.at = "enter"
  /\ call.op = "discard" => ~Covered(call.path) /\ Independent(call.path)
  /\ ~Resolves(call.path)
  /\ up' = "down"
  /\ Forget
  /\ UNCHANGED <<faults, plan, fs, unsynced, phase, turn, terminal, undone, fact>>

\* retain_completed_effect accepts a recorded result that it can still see.
Established(p) ==
  IF plan.effect[p] = "incoming"
    THEN Resolves(p) /\ ~Contradictory(p) /\ MatchesIncoming(p, TRUE)
    ELSE IF Resolves(p) THEN fs[p].leaf = Absent
         ELSE \A a \in Above[p] : fs[a].leaf # Absent => IsDir(fs[a].leaf)

Completed == {p \in Path : terminal[p] = "completed"}

\* An open intent, a failure or a recovery under way leads to recovery.
Restart ==
  /\ up = "down"
  /\ \/ /\ \E p \in Completed : ~Established(p)
        /\ up' = "refused"
        /\ UNCHANGED <<effects, phase>>
     \/ /\ \A p \in Completed : Established(p)
        /\ up' = "up"
        /\ effects' = [p \in Path |-> IF p \in Completed THEN "completed" ELSE "none"]
        /\ phase' = IF phase = "forward" /\ \E p \in Intended : terminal[p] = "none"
                      THEN "recover" ELSE phase
  /\ UNCHANGED <<faults, plan, fs, dirty, call, answer, unsynced,
                 turn, terminal, undone, fact>>

\* Another program deletes a displaced object that is to be recovered.
Lose(p) ==
  /\ "loss" \in faults
  /\ up = "up"
  /\ phase = "recover"
  /\ call = NoCall
  /\ fs[p].displaced # Absent
  /\ ~HasEntries(p)
  /\ fs' = Tree(p, [fs[p] EXCEPT !.displaced = Absent])
  /\ UNCHANGED <<faults, plan, effects, dirty, call, answer, unsynced, owner>>

-----------------------------------------------------------------------------
Mechanism(p) ==
  \/ PublishIncoming(p) \/ Prepare(p) \/ Displace(p) \/ Activate(p)
  \/ UpdateDirectory(p) \/ FinishUpdate(p) \/ Remove(p) \/ Take(p)
  \/ Recover(p) \/ Clean(p) \/ Unpublish(p) \/ Restore(p) \/ Withdraw(p)
  \/ Copy(p) \/ Vacate(p) \/ Install(p) \/ Readmit(p) \/ Refresh(p)
  \/ DiscardRecovery(p) \/ DropBelow(p) \/ Drop(p)

\* The steps that concern no other part of the backend; Backend has the rest.
ActiveStep ==
  \/ \E p \in Path :
       \/ Mechanism(p) /\ UNCHANGED owner
       \/ RecordEffect(p) \/ RecordRecovery(p)
       \/ DiscardPath(p) \/ RecordDiscard(p)
       \/ Lose(p)
  \/ Cancel

-----------------------------------------------------------------------------
(* Properties. *)

\* The namespace and the engine keep to their types: a call is at a point of its
\* operation, effects_ holds nothing but attempted and completed effects.
TypeOK ==
  /\ faults \in Worlds
  /\ plan \in Plans
  /\ fs \in [Path -> [leaf : Object \cup {Absent}, prepared : Object \cup {Absent},
                      displaced : Object \cup {Absent}]]
  /\ effects \in [Path -> {"none", "attempted", "completed"}]
  /\ dirty \in {"clean", "dirty", "incomplete"}
  /\ call \in [op : {"none", "publish", "remove", "recover", "discard"},
               path : Path \cup {Root}, at : At]
  /\ answer \in Pending
  /\ unsynced \subseteq Path
  /\ phase \in {"forward", "recover", "applied", "restored"}
  /\ turn \in [Path -> Nat]
  /\ terminal \in [Path -> Pending]
  /\ undone \in [Path -> Pending]
  /\ fact \in {"none", "not_attempted", "confirmed", "unconfirmed"}
  /\ up \in {"up", "down", "refused"}

\* A directory is updated in place, another object keeps its bytes.
SameOld(object, old) ==
  /\ object # Absent
  /\ object.kind = old.kind
  /\ object.kind # "dir" => object.value = "old"

OldIsThere(p) ==
  SameOld(fs[p].leaf, plan.before[p]) \/ SameOld(fs[p].displaced, plan.before[p])

\* Until an attempt is applied or restored, no step of it gives up the old object
\* of a captured path: it stays in the target tree under its own name or the
\* displaced one, whatever failed and whenever the process stopped
\* (publish_prepared, remove, recover).
OldObjectKept ==
  [][phase' \in {"forward", "recover"} =>
       \A p \in plan.captured :
         OldIsThere(p) => OldIsThere(p)' \/ Lose(p)]_vars

AsAdmitted(p) == fs[p] = [leaf |-> plan.before[p], prepared |-> Absent,
                          displaced |-> Absent]

\* When every recovery says "completed" the whole tree, the mtimes of the
\* directories included, is as it was admitted and no workspace name is left
\* (recover: "Restore one path to its exact admitted pre-mutation state").
RecoveryIsExact ==
  (phase = "restored" /\ \A p \in Intended : undone[p] = "completed") =>
    \A p \in Path : AsAdmitted(p)

Final(p) ==
  CASE plan.effect[p] = "incoming" -> plan.incoming[p]
    [] plan.effect[p] = "remove"   -> Absent
    [] plan.effect[p] = "none"     -> plan.before[p]

AsPlanned(p) == fs[p].leaf = Final(p)

\* When every effect says "completed" the tree is the planned one, and the
\* directories that entries came to or left have their planned mtimes
\* (publish_incoming, remove, refresh_ancestor_directories).
AppliedAsPlanned ==
  /\ phase = "applied"
  /\ \A p \in Intended : terminal[p] = "completed"
  /\ fact = "none"
  => \A p \in Path : AsPlanned(p)

SameButMtime(object, planned) ==
  \/ object = planned
  \/ /\ IsDir(object) /\ IsDir(planned)
     /\ object.value = planned.value

\* After the displaced objects are discarded the planned tree is all there is,
\* however often a discard failed, was cut short and repeated; only the mtime of a
\* directory may be off then, for a repeated discard that finds the path clear
\* refreshes nothing (discard_recovery, nested_cleanup_state,
\* remove_recovery_tree).
DiscardLeavesNothing ==
  /\ phase = "applied"
  /\ \A p \in Intended : terminal[p] = "completed"
  /\ \A p \in Displacing : undone[p] = "completed"
  => \A p \in Path :
       /\ Clear(p)
       /\ AsPlanned(p) \/ (faults # {} /\ SameButMtime(fs[p].leaf, Final(p)))

\* A recovery finds the directories above its path, unless the recovery of one of
\* them has been answered with "indeterminate": only then does recover throw, with
\* no result to record, and every restart repeats it (recover, workspace open).
RecoveryFindsItsParent ==
  /\ up = "up"
  /\ call.at = "enter"
  /\ call.op = "recover"
  /\ ~Resolves(call.path)
  => \E a \in Above[call.path] \cap Intended : undone[a] = "indeterminate"

\* No failure and no crash leaves a path with all three names, a state that
\* recover can only answer with "indeterminate" (active_workspace_state).
NeverContradictory == \A p \in Path : ~Contradictory(p)

EverythingCompleted ==
  \A p \in Intended :
    IF phase = "applied" THEN terminal[p] \in {"completed", "conditional_retained"}
                         ELSE undone[p] = "completed"

Confirms == fact = "none" /\ fact' = "confirmed"

\* When every result says "completed", synchronize confirms the active namespace
\* only once every object changed so far has been flushed (active_namespace.h:
\* "Synchronize all active objects and parents changed so far").
ConfirmedIsDurable ==
  [][Confirms /\ EverythingCompleted => unsynced' = {}]_vars

\* A completed effect has retained the filesystem of what it changed, or has made
\* the authority incomplete: every removal, every new directory, and every other
\* new object where its directory's descriptor could be duplicated. An update of a
\* directory may have had nothing to change.
Retaining(p) ==
  /\ effects[p] = "completed"
  /\ \/ plan.effect[p] = "remove"
     \/ /\ plan.effect[p] = "incoming"
        /\ IF IsDir(plan.incoming[p]) THEN ~IsDir(plan.before[p]) ELSE "fd" \notin faults

\* In an attempt whose process never dies, a confirmation of the active namespace
\* leaves no changed object unflushed: whatever was published, removed or recovered
\* where no call fails and every descriptor can be duplicated, and elsewhere once a
\* completed effect has retained the filesystem, what failed publications, updates
\* and recoveries changed included (retain_dirty_filesystem, synchronize).
ConfirmedIsFlushed ==
  [][/\ Confirms
     /\ faults \cap {"crash", "power"} = {}
     /\ faults \cap {"io", "fd"} = {} \/ \E p \in Path : Retaining(p)
     => unsynced' = {}]_vars

\* A restart reopens the physical attempt after a crash at any point
\* (docs/qualification.md, "Backend integration").
RestartAccepted == up # "refused"
=============================================================================
