--------------------------- MODULE TargetObserver ---------------------------
(***************************************************************************)
(* The observation of one path of the target (target_observer.cpp) before  *)
(* an application is admitted, while others change that path: they rewrite *)
(* it, change its mode, link or unlink a second name of it (the anchor),   *)
(* remove or replace it.                                                   *)
(*                                                                         *)
(* A regular file is read in two steps, so that what is read may be parts  *)
(* of two contents (Torn). `stamp` is the time of an object's last change, *)
(* which the file system moves with each change of the object: two changes *)
(* within one tick of its clock are not distinguished by stat and are left *)
(* out.                                                                    *)
(***************************************************************************)
EXTENDS Naturals

CONSTANTS
  Content,     \* bytes of a file, targets of a link, numbers of a device
  Meta,        \* mode, owner, group and modification time
  Torn,        \* bytes of two contents
  NoContent,
  NoObject,
  Unobserved,
  Unknown,     \* no observation: the path changed meanwhile, or a call threw
  MaxChanges   \* how often others change the path or its anchor

ASSUME TargetObserverAssumption ==
  /\ {Torn, NoContent} \cap Content = {}
  /\ Torn # NoContent
  /\ MaxChanges \in Nat

\* special stands for devices of some number, and for directories and fifos,
\* which are like a device of one number; socket for what cannot be captured.
Kind == {"regular", "symlink", "special", "socket"}

ContentOf(kind) ==
  IF kind \in {"regular", "symlink", "special"} THEN Content ELSE {NoContent}

Object == [kind : Kind, id : 1 .. MaxChanges + 1, meta : Meta,
           content : Content \cup {NoContent}, shared : BOOLEAN,
           stamp : 0 .. MaxChanges]

\* What stat shows and same_object compares.
Stat(o) == [kind |-> o.kind, id |-> o.id, meta |-> o.meta, stamp |-> o.stamp]
Stats == [kind : Kind, id : 1 .. MaxChanges + 1, meta : Meta, stamp : 0 .. MaxChanges]

\* What an observation says of a present object; hardlink: that it is the
\* anchor's object.
Facts == [kind : Kind, meta : Meta, content : Content \cup {NoContent},
          hardlink : BOOLEAN]

ASSUME TargetObserverValues ==
  /\ {NoObject, Unobserved, Unknown} \cap Facts = {}
  /\ Unobserved \notin {NoObject, Unknown}

VARIABLES
  object,       \* what is at the path
  anchor,       \* the object at the anchor's path, 0 if none
  changes,      \* how many changes others made
  watch,        \* where the observer is, and what it has seen
  observation,
  seen          \* history: what was at the path, at one moment each; once
                \* there is an observation, only what agrees with it

target == <<object, anchor, changes, seen>>
observer == <<watch, observation>>
observing == <<target, observer>>

Snapshot(o) == [kind |-> o.kind, meta |-> o.meta, content |-> o.content,
                shared |-> o.shared]

Agrees(s, facts) ==
  s.kind = facts.kind /\ s.meta = facts.meta /\ s.content = facts.content

Same(before) == object # NoObject /\ Stat(object) = before

\* Bytes read through a descriptor of the object `before` was seen of. A file
\* that is no longer at the path has lost a link, which its stamp shows, so
\* that no reader keeps what this says of it.
ReadSome(before) ==
  IF object # NoObject /\ object.id = before.id THEN object.content ELSE Torn

ReadRest(before, content) ==
  IF ReadSome(before) = content THEN content ELSE Torn

Watching(point, before, content) ==
  [point |-> point, before |-> before, content |-> content]

ObserverInit ==
  /\ \E kind \in Kind, meta \in Meta, shared \in BOOLEAN :
       \E content \in ContentOf(kind) :
         object = [kind |-> kind, id |-> 1, meta |-> meta, content |-> content,
                   shared |-> shared, stamp |-> 0]
  /\ anchor \in IF object.shared THEN {0, 1} ELSE {0}
  /\ changes = 0
  /\ watch = Watching("stat", NoObject, NoContent)
  /\ observation = Unobserved
  /\ seen = {Snapshot(object)}

-----------------------------------------------------------------------------
\* Others change the path.

Becomes(new) ==
  /\ changes < MaxChanges
  /\ changes' = changes + 1
  /\ object' = new
  /\ seen' = IF new # NoObject
               /\ (observation \in Facts => Agrees(Snapshot(new), observation))
               THEN seen \cup {Snapshot(new)} ELSE seen
  /\ UNCHANGED observer

Stamped(o) == [o EXCEPT !.stamp = changes + 1]

\* The modification time, part of the metadata, moves or is put back.
Rewrite ==
  /\ object # NoObject /\ object.kind = "regular"
  /\ \E content \in Content, meta \in Meta :
       Becomes(Stamped([object EXCEPT !.content = content, !.meta = meta]))
  /\ UNCHANGED anchor

ChangeMeta ==
  /\ object # NoObject
  /\ \E meta \in Meta : Becomes(Stamped([object EXCEPT !.meta = meta]))
  /\ UNCHANGED anchor

Replace ==
  /\ \E kind \in Kind, meta \in Meta :
       \E content \in ContentOf(kind) :
         Becomes([kind |-> kind, id |-> changes + 2, meta |-> meta,
                  content |-> content, shared |-> FALSE, stamp |-> changes + 1])
  /\ UNCHANGED anchor

Remove ==
  /\ object # NoObject
  /\ Becomes(NoObject)
  /\ UNCHANGED anchor

LinkAnchor ==
  /\ object # NoObject /\ anchor # object.id
  /\ Becomes(Stamped([object EXCEPT !.shared = TRUE]))
  /\ anchor' = object.id

\* Other links may be left.
UnlinkAnchor ==
  /\ object # NoObject /\ anchor = object.id
  /\ \E shared \in BOOLEAN : Becomes(Stamped([object EXCEPT !.shared = shared]))
  /\ anchor' = 0

Change == Rewrite \/ ChangeMeta \/ Replace \/ Remove \/ LinkAnchor \/ UnlinkAnchor

-----------------------------------------------------------------------------
\* observe_one

Observed(result) ==
  /\ observation' = result
  /\ watch' = Watching("done", NoObject, NoContent)
  /\ seen' = IF result \in Facts THEN {s \in seen : Agrees(s, result)} ELSE {}
  /\ UNCHANGED <<object, anchor, changes>>

Present(before, content, hardlink) ==
  [kind |-> before.kind, meta |-> before.meta, content |-> content,
   hardlink |-> hardlink]

Watch(point, before, content) ==
  /\ watch' = Watching(point, before, content)
  /\ UNCHANGED <<target, observation>>

ObserveStat ==
  /\ watch.point = "stat"
  /\ \/ object = NoObject /\ Observed(NoObject)
     \/ /\ object # NoObject
        /\ object.kind \in {"special", "socket"}
        /\ Observed(Present(Stat(object), object.content, FALSE))
     \/ /\ object # NoObject
        /\ object.kind = "regular"
        /\ Watch("open", Stat(object), NoContent)
     \/ /\ object # NoObject
        /\ object.kind = "symlink"
        /\ Watch("read_link", Stat(object), NoContent)

ObserveOpen ==
  /\ watch.point = "open"
  /\ IF Same(watch.before) THEN Watch("read", watch.before, NoContent)
     ELSE Observed(Unknown)

ObserveRead ==
  /\ watch.point = "read"
  /\ Watch("read_rest", watch.before, ReadSome(watch.before))

ObserveRest ==
  /\ watch.point = "read_rest"
  /\ Watch("restat", watch.before, ReadRest(watch.before, watch.content))

\* readlink takes whatever link is at the path.
ObserveLink ==
  /\ watch.point = "read_link"
  /\ IF object # NoObject /\ object.kind = "symlink"
       THEN Watch("restat", watch.before, object.content)
       ELSE Observed(Unknown)

\* Mutant: the object is not looked at again after it was read.
ObserveRestatSkipped ==
  /\ watch.point = "restat"
  /\ Observed(Present(watch.before, watch.content, FALSE))

\* The caller may expect a file to be a link to the anchor (find_hardlink).
ObserveRestat ==
  /\ watch.point = "restat"
  /\ \E expected \in BOOLEAN :
       IF ~Same(watch.before) THEN Observed(Unknown)
       ELSE IF watch.before.kind = "regular" /\ expected
         THEN Watch("anchor", watch.before, watch.content)
         ELSE Observed(Present(watch.before, watch.content, FALSE))

ObserveAnchor ==
  /\ watch.point = "anchor"
  /\ Observed(IF anchor = watch.before.id
                THEN Present(watch.before, watch.content, TRUE) ELSE Unknown)

Observe == ObserveStat \/ ObserveOpen \/ ObserveRead \/ ObserveRest
             \/ ObserveLink \/ ObserveRestat \/ ObserveAnchor

\* An observation that the path is present, in whose kind, metadata and bytes
\* the engine trusts from then on, was true of the path at one moment: the
\* observer does not mix an object with the one that replaced it, nor the
\* bytes before a write with those after it (stat before and after).
ObservedAtOnce ==
  observation \in Facts => \E s \in seen : Agrees(s, observation)
=============================================================================
