--------------------------- MODULE CaptureProofs ---------------------------
(***************************************************************************)
(* The invariants of the observation of a path and of its captures, for    *)
(* every set of processes, contents, metadata and purposes, however often  *)
(* others change the path, and for every combination of failing calls,     *)
(* deaths, overlapping calls and losses of power.                          *)
(***************************************************************************)
EXTENDS CaptureStore, FiniteSetTheorems, TLAPS

-----------------------------------------------------------------------------
(* The inductive invariant.                                                *)

Bytes == Content \cup {NoContent, Torn}
Watches == [point : {"stat", "open", "read", "read_rest", "read_link", "restat",
                     "anchor", "done"},
            before : Stats \cup {NoObject}, content : Bytes]
Snapshots == {s \in [kind : Kind, meta : Meta, content : Content \cup {NoContent},
                     shared : BOOLEAN] :
                s.kind = "regular" => s.content \in Content}
Objects == {o \in Object : o.kind = "regular" => o.content \in Content}
CallRecord == [operation : Operation, purpose : Purpose \cup {Absent},
               before : Stats \cup {NoObject}, copied : Bytes,
               exact : BOOLEAN, shared : BOOLEAN, flushed : BOOLEAN]

ObserverTyped ==
  /\ object \in Objects \cup {NoObject}
  /\ changes \in 0 .. MaxChanges
  /\ object # NoObject => object.stamp <= changes
  /\ watch \in Watches
  /\ observation \in {Unobserved, Unknown, NoObject} \cup Facts
  /\ seen \subseteq Snapshots

StoreTyped ==
  /\ world \in Worlds
  /\ dir \in BOOLEAN /\ dirDisk \in BOOLEAN
  /\ files \in Files /\ disk \in Files
  /\ writer \in Process \cup {NoProcess}
  /\ readers \subseteq Process
  /\ pc \in [Process -> Point]
  /\ call \in [Process -> CallRecord]
  /\ returned \subseteq Process
  /\ answers \subseteq BOOLEAN
  /\ confirmed \in Record \cup {Absent}
  /\ lost \in BOOLEAN

Typed == ObserverTyped /\ StoreTyped

\* What stat once showed of an object. No later change of an object has its
\* stamp, so that who finds the same again knows that nothing changed meanwhile.
Shown(before) == before \in Stats /\ before.stamp <= changes

WasThere(kind, meta, content) ==
  \E s \in seen : s.kind = kind /\ s.meta = meta /\ s.content = content

\* What the observer has read is of the object it saw, if that is still there.
Watched ==
  /\ watch.point # "done" => observation = Unobserved
  /\ watch.point \notin {"stat", "done"} => Shown(watch.before)
  /\ watch.point \in {"read_rest", "restat"} /\ Same(watch.before) =>
       watch.content = object.content
  /\ watch.point = "anchor" =>
       WasThere(watch.before.kind, watch.before.meta, watch.content)

Seen ==
  object # NoObject
    /\ (observation \in Facts => Agrees(Snapshot(object), observation))
    /\ observation \in {Unobserved} \cup Facts
    => Snapshot(object) \in seen

\* Nothing is captured of what was not observed, and then it is not observed
\* again.
Admitted ==
  observation \notin Facts =>
    /\ \A p \in Process : pc[p] = "idle"
    /\ files = NoFiles /\ disk = NoFiles /\ ~dir /\ ~dirDisk
    /\ confirmed = Absent /\ answers = {} /\ returned = {}

\* What is there is whole, and flushed names are names.
Sound ==
  /\ loose = {}
  /\ NoDebris
  /\ \A n \in Name : disk[n] # Absent => disk[n] = files[n]
  /\ dirDisk => dir

Single == observation.hardlink \/ \E s \in seen : Agrees(s, observation) /\ ~s.shared

WritePoint == Copying \cup {"link_payload", "link_record"}
SyncPoint == {"sync_attempt", "sync_store"}

Locked == writer # NoProcess => readers = {}

Held(p) ==
  /\ pc[p] \in WritePoint => writer = p
  /\ pc[p] = "look" /\ call[p].operation = "capture" => writer = p
  /\ pc[p] \in SyncPoint => p \in readers

Shape(p) ==
  /\ pc[p] \in WritePoint \cup {"mkdir", "bind"} => call[p].operation = "capture"
  /\ pc[p] \in SyncPoint => call[p].operation = "synchronize"
  /\ pc[p] = "look" => call[p].operation \in {"capture", "load"}
  /\ call[p].operation \in {"capture", "load"} => call[p].purpose \in Purpose
  /\ pc[p] # "idle" => call[p].operation # "none"
  /\ pc[p] \notin {"idle", "mkdir", "open_dir"} => dir
  /\ pc[p] = "open_dir" /\ call[p].operation = "capture" => dir
  /\ call[p].operation = "synchronize" => p \in returned

\* What a capture has seen and copied.
Copied(p) ==
  /\ pc[p] \in {"open", "copy", "copy_rest", "read_link", "restat"} =>
       /\ Shown(call[p].before)
       /\ call[p].before.kind = observation.kind
       /\ call[p].before.meta = observation.meta
  /\ pc[p] \in {"open", "copy", "copy_rest", "sync_payload", "link_payload"} =>
       observation.kind = "regular"
  /\ pc[p] = "copy_rest" \/ (pc[p] = "restat" /\ observation.kind = "regular") =>
       (Same(call[p].before) => call[p].copied = object.content)
  /\ pc[p] = "sync_payload" =>
       \E s \in seen : Agrees(s, observation) /\ s.shared = call[p].shared
  /\ pc[p] \in {"sync_payload", "link_payload"} => call[p].copied = observation.content
  /\ pc[p] = "link_payload" => call[p].flushed
  /\ pc[p] \in {"link_payload", "link_record"} /\ observation.kind = "regular"
       /\ call[p].exact => Single

\* A capture that makes the record found none, and makes it after the payload.
Making(p) ==
  /\ pc[p] \in WritePoint => files["record"] = Absent
  /\ pc[p] = "link_record" => PayloadVerifies

\* Whoever relies on the record has found its payload.
Trusted ==
  Recorded /\ (lost => confirmed # Absent \/ returned # {}) => PayloadVerifies

ExactIsProven ==
  Recorded /\ files["record"].exact /\ observation.kind = "regular" => Single

Answered == \A a \in answers : Recorded /\ files["record"].exact = a

\* What synchronize has flushed so far, and what it has confirmed.
Flushed == disk["record"] = files["record"] /\ disk["payload"] = files["payload"]

Confirmed ==
  /\ confirmed # Absent =>
       /\ dirDisk
       /\ files["record"] = confirmed
       /\ Flushed
  /\ \A p \in Process : pc[p] = "sync_store" => Flushed

IInv ==
  /\ Typed /\ Watched /\ Seen /\ ObservedAtOnce /\ Admitted
  /\ Sound /\ Locked /\ Trusted /\ ExactIsProven /\ Answered /\ Confirmed
  /\ \A p \in Process : Shape(p) /\ Held(p) /\ Copied(p) /\ Making(p)

ObserverInv == ObserverTyped /\ Watched /\ Seen /\ ObservedAtOnce

-----------------------------------------------------------------------------
(* Others change the path.                                                 *)

\* What a change by others does to the observation: the object is another, or
\* bears the stamp of this change.
Changed ==
  /\ changes' = changes + 1 /\ changes < MaxChanges
  /\ object' \in Objects \cup {NoObject}
  /\ object' # NoObject => object'.stamp = changes + 1
  /\ seen' = IF object' # NoObject
               /\ (observation \in Facts => Agrees(Snapshot(object'), observation))
               THEN seen \cup {Snapshot(object')} ELSE seen
  /\ UNCHANGED observer

LEMMA ContentOfKind ==
  ASSUME NEW kind \in Kind
  PROVE  /\ ContentOf(kind) \subseteq Content \cup {NoContent}
         /\ kind = "regular" => ContentOf(kind) = Content
BY DEF ContentOf

LEMMA StampedIsObject ==
  ASSUME ObserverTyped, changes < MaxChanges,
         NEW o \in Objects
  PROVE  Stamped(o) \in Objects /\ Stamped(o).stamp = changes + 1
BY TargetObserverAssumption DEF ObserverTyped, Stamped, Object, Objects

LEMMA ChangeChanges ==
  ASSUME ObserverTyped, Change
  PROVE  Changed
<1>1. ASSUME NEW new, Becomes(new), new \in Objects \cup {NoObject},
             new # NoObject => new.stamp = changes + 1
      PROVE  Changed
  BY <1>1 DEF Becomes, Changed
<1>2. CASE Rewrite
  <2>1. PICK content \in Content, meta \in Meta :
          Becomes(Stamped([object EXCEPT !.content = content, !.meta = meta]))
    BY <1>2 DEF Rewrite
  <2>2. [object EXCEPT !.content = content, !.meta = meta] \in Objects
    BY <1>2 DEF Rewrite, ObserverTyped, Object, Objects
  <2>3. changes < MaxChanges
    BY <2>1 DEF Becomes
  <2> QED BY <1>1, <2>1, <2>2, <2>3, StampedIsObject
<1>3. CASE ChangeMeta
  <2>1. PICK meta \in Meta : Becomes(Stamped([object EXCEPT !.meta = meta]))
    BY <1>3 DEF ChangeMeta
  <2>2. [object EXCEPT !.meta = meta] \in Objects
    BY <1>3 DEF ChangeMeta, ObserverTyped, Object, Objects
  <2>3. changes < MaxChanges
    BY <2>1 DEF Becomes
  <2> QED BY <1>1, <2>1, <2>2, <2>3, StampedIsObject
<1>4. CASE Replace
  <2>1. PICK kind \in Kind, meta \in Meta :
          \E content \in ContentOf(kind) :
            Becomes([kind |-> kind, id |-> changes + 2, meta |-> meta,
                     content |-> content, shared |-> FALSE, stamp |-> changes + 1])
    BY <1>4 DEF Replace
  <2>2. PICK content \in ContentOf(kind) :
          Becomes([kind |-> kind, id |-> changes + 2, meta |-> meta,
                   content |-> content, shared |-> FALSE, stamp |-> changes + 1])
    BY <2>1
  <2>3. changes < MaxChanges
    BY <2>2 DEF Becomes
  <2>4. [kind |-> kind, id |-> changes + 2, meta |-> meta,
         content |-> content, shared |-> FALSE, stamp |-> changes + 1] \in Objects
    BY <2>3, ContentOfKind, TargetObserverAssumption DEF ObserverTyped, Object, Objects
  <2> QED BY <1>1, <2>2, <2>4
<1>5. CASE Remove
  BY <1>1, <1>5 DEF Remove
<1>6. CASE LinkAnchor
  <2>1. Becomes(Stamped([object EXCEPT !.shared = TRUE]))
    BY <1>6 DEF LinkAnchor
  <2>2. [object EXCEPT !.shared = TRUE] \in Objects
    BY <1>6 DEF LinkAnchor, ObserverTyped, Object, Objects
  <2>3. changes < MaxChanges
    BY <2>1 DEF Becomes
  <2> QED BY <1>1, <2>1, <2>2, <2>3, StampedIsObject
<1>7. CASE UnlinkAnchor
  <2>1. PICK shared \in BOOLEAN : Becomes(Stamped([object EXCEPT !.shared = shared]))
    BY <1>7 DEF UnlinkAnchor
  <2>2. [object EXCEPT !.shared = shared] \in Objects
    BY <1>7 DEF UnlinkAnchor, ObserverTyped, Object, Objects
  <2>3. changes < MaxChanges
    BY <2>1 DEF Becomes
  <2> QED BY <1>1, <2>1, <2>2, <2>3, StampedIsObject
<1> QED BY <1>2, <1>3, <1>4, <1>5, <1>6, <1>7 DEF Change

\* After a change of the path nothing that was seen before is found the same.
LEMMA ChangeShows ==
  ASSUME ObserverTyped, Changed, NEW before, Shown(before)
  PROVE  ~Same(before)' /\ Shown(before)'
<1>1. ASSUME object' # NoObject
      PROVE  Stat(object') # before
  <2>1. Stat(object').stamp = changes + 1
    BY <1>1 DEF Changed, Stat
  <2>2. before.stamp <= changes /\ before.stamp \in Nat /\ changes \in Nat
    BY DEF Shown, Stats, ObserverTyped
  <2> QED BY <2>1, <2>2
<1>2. before.stamp <= changes'
  BY DEF Shown, Stats, ObserverTyped, Changed
<1> QED BY <1>1, <1>2 DEF Same, Shown

LEMMA SnapshotTyped ==
  ASSUME NEW o \in Objects
  PROVE  Snapshot(o) \in Snapshots
BY DEF Object, Objects, Snapshot, Snapshots

LEMMA ChangeKeepsObserver ==
  ASSUME ObserverInv, Changed
  PROVE  ObserverInv'
<1>0. /\ ObserverTyped /\ Watched /\ Seen /\ ObservedAtOnce
      /\ watch' = watch /\ observation' = observation
  BY DEF ObserverInv, Changed, observer
<1>1. seen \subseteq seen'
  BY DEF Changed
<1>2. ObserverTyped'
  <2>1. changes' \in 0 .. MaxChanges
    BY <1>0, TargetObserverAssumption DEF Changed, ObserverTyped
  <2>2. seen' \subseteq Snapshots
    BY <1>0, SnapshotTyped DEF Changed, ObserverTyped
  <2>3. /\ object' \in Objects \cup {NoObject}
        /\ object' # NoObject => object'.stamp <= changes'
    BY <2>1 DEF Changed
  <2> QED BY <1>0, <2>1, <2>2, <2>3 DEF ObserverTyped
<1>3. Watched'
  <2>1. watch.point \notin {"stat", "done"} => Shown(watch.before)' /\ ~Same(watch.before)'
    BY <1>0, ChangeShows DEF Watched
  <2>2. watch.point = "anchor" =>
          WasThere(watch.before.kind, watch.before.meta, watch.content)'
    BY <1>0, <1>1 DEF Watched, WasThere
  <2> QED BY <1>0, <2>1, <2>2 DEF Watched, Shown, Same, WasThere
<1>4. Seen'
  BY <1>0 DEF Seen, Changed
<1>5. ObservedAtOnce'
  BY <1>0, <1>1 DEF ObservedAtOnce
<1> QED BY <1>2, <1>3, <1>4, <1>5 DEF ObserverInv

-----------------------------------------------------------------------------
(* The steps of the observer.                                              *)

\* The observer goes on with what it has read, or has its result.
Looked ==
  /\ UNCHANGED <<target, observation>>
  /\ watch' \in Watches
  /\ watch'.point \notin {"stat", "done"}
  /\ watch'.before \in Stats /\ watch'.before.stamp <= changes
  /\ watch'.point \in {"read_rest", "restat"} /\ object # NoObject
       /\ Stat(object) = watch'.before
       => watch'.content = object.content
  /\ watch'.point = "anchor" =>
       \E s \in seen : /\ s.kind = watch'.before.kind
                       /\ s.meta = watch'.before.meta
                       /\ s.content = watch'.content

Concluded ==
  /\ observation' \in {Unknown, NoObject} \cup Facts
  /\ watch' = Watching("done", NoObject, NoContent)
  /\ seen' = IF observation' \in Facts THEN {s \in seen : Agrees(s, observation')} ELSE {}
  /\ observation' \in Facts => \E s \in seen : Agrees(s, observation')
  /\ UNCHANGED <<object, anchor, changes>>

LEMMA LookedKeepsObserver ==
  ASSUME ObserverInv, watch.point # "done", Looked
  PROVE  ObserverInv'
<1>1. UNCHANGED <<object, anchor, changes, seen, observation>>
  BY DEF Looked, target
<1>2. ObserverTyped'
  BY <1>1 DEF ObserverInv, ObserverTyped, Looked
<1>3. Watched'
  BY <1>1 DEF ObserverInv, Watched, Shown, Same, WasThere, Looked
<1>4. Seen' /\ ObservedAtOnce'
  BY <1>1 DEF ObserverInv, Seen, ObservedAtOnce
<1> QED BY <1>2, <1>3, <1>4 DEF ObserverInv

LEMMA ConcludedKeepsObserver ==
  ASSUME ObserverInv, watch.point # "done", Concluded
  PROVE  ObserverInv'
<1>1. watch'.point = "done"
  BY DEF Concluded, Watching
<1>2. ObserverTyped'
  <2>1. watch' \in Watches
    BY DEF Concluded, Watching, Watches, Bytes
  <2>2. seen' \subseteq Snapshots
    BY DEF Concluded, ObserverInv, ObserverTyped
  <2> QED BY <2>1, <2>2 DEF Concluded, ObserverInv, ObserverTyped
<1>3. Watched'
  BY <1>1 DEF Watched
<1>4. Seen'
  <2>1. object # NoObject => Snapshot(object) \in seen
    BY TargetObserverValues DEF ObserverInv, Seen, Watched
  <2> QED BY <2>1, TargetObserverValues DEF Seen, Concluded
<1>5. ObservedAtOnce'
  BY DEF ObservedAtOnce, Concluded
<1> QED BY <1>2, <1>3, <1>4, <1>5 DEF ObserverInv

\* What is at the path while it is observed.
LEMMA ObjectSeen ==
  ASSUME ObserverInv, watch.point # "done", object # NoObject
  PROVE  /\ object \in Objects
         /\ Stat(object) \in Stats /\ Stat(object).stamp <= changes
         /\ object.content \in Content \cup {NoContent}
         /\ Snapshot(object) \in seen
         /\ \E s \in seen : /\ s.kind = Stat(object).kind
                            /\ s.meta = Stat(object).meta
                            /\ s.content = object.content
<1>1. object \in Objects /\ object.stamp <= changes
  BY DEF ObserverInv, ObserverTyped
<1>2. /\ Stat(object) \in Stats /\ Stat(object).stamp <= changes
      /\ object.content \in Content \cup {NoContent}
  BY <1>1 DEF Stat, Stats, Object, Objects
<1>3. Snapshot(object) \in seen
  BY TargetObserverValues DEF ObserverInv, Seen, Watched
<1>4. /\ Snapshot(object).kind = Stat(object).kind
      /\ Snapshot(object).meta = Stat(object).meta
      /\ Snapshot(object).content = object.content
  BY DEF Snapshot, Stat
<1> QED BY <1>1, <1>2, <1>3, <1>4

LEMMA PresentIsFact ==
  ASSUME NEW before \in Stats, NEW content \in Content \cup {NoContent},
         NEW hardlink \in BOOLEAN
  PROVE  /\ Present(before, content, hardlink) \in Facts
         /\ Present(before, content, hardlink).kind = before.kind
         /\ Present(before, content, hardlink).meta = before.meta
         /\ Present(before, content, hardlink).content = content
BY DEF Present, Facts, Stats

LEMMA ObserveLooks ==
  ASSUME ObserverInv, Observe
  PROVE  watch.point # "done" /\ (Looked \/ Concluded)
<1>0. /\ ObserverTyped /\ Watched /\ watch.point # "done"
  BY DEF ObserverInv, Observe, ObserveStat, ObserveOpen, ObserveRead,
         ObserveRest, ObserveLink, ObserveRestat, ObserveAnchor
<1> SUFFICES Looked \/ Concluded
  BY <1>0
<1>1. /\ watch \in Watches /\ watch.content \in Bytes
  BY <1>0 DEF ObserverTyped, Watches
<1>2. watch.point # "stat" => watch.before \in Stats /\ watch.before.stamp <= changes
  BY <1>0 DEF Watched, Shown
<1>3. object # NoObject => object.content \in Bytes
  BY <1>0, ObjectSeen DEF Bytes
<1>4. ASSUME NEW before \in Stats, NEW content \in Content \cup {NoContent},
             NEW hardlink \in BOOLEAN,
             \E s \in seen : s.kind = before.kind /\ s.meta = before.meta
                              /\ s.content = content,
             Observed(Present(before, content, hardlink))
      PROVE  Concluded
  BY <1>4, PresentIsFact DEF Observed, Concluded, Agrees
<1>5. Observed(Unknown) => Concluded
  BY TargetObserverValues DEF Observed, Concluded
<1>6. ASSUME NEW point \in {"open", "read", "read_rest", "read_link", "restat", "anchor"},
             NEW before \in Stats, NEW content \in Bytes
      PROVE  /\ Watching(point, before, content) \in Watches
             /\ Watching(point, before, content).point = point
             /\ Watching(point, before, content).before = before
             /\ Watching(point, before, content).content = content
  BY DEF Watching, Watches
<1>7. CASE ObserveStat
  <2>1. CASE object = NoObject /\ Observed(NoObject)
    BY <2>1, TargetObserverValues DEF Observed, Concluded
  <2>2. CASE object # NoObject /\ Observed(Present(Stat(object), object.content, FALSE))
    <3>1. Stat(object) \in Stats /\ object.content \in Content \cup {NoContent}
      BY <1>0, <2>2, ObjectSeen
    <3>2. /\ Present(Stat(object), object.content, FALSE) \in Facts
          /\ \E s \in seen : Agrees(s, Present(Stat(object), object.content, FALSE))
      BY <1>0, <2>2, <3>1, ObjectSeen, PresentIsFact DEF Agrees
    <3> QED BY <2>2, <3>2 DEF Observed, Concluded
  <2>3. CASE /\ object # NoObject
             /\ \/ Watch("open", Stat(object), NoContent)
                \/ Watch("read_link", Stat(object), NoContent)
    <3>1. Stat(object) \in Stats /\ Stat(object).stamp <= changes /\ NoContent \in Bytes
      BY <1>0, <2>3, ObjectSeen DEF Bytes
    <3> QED BY <1>6, <2>3, <3>1 DEF Watch, Looked
  <2> QED BY <1>7, <2>1, <2>2, <2>3 DEF ObserveStat
<1>8. CASE ObserveOpen
  <2>1. CASE Watch("read", watch.before, NoContent)
    <3>1. NoContent \in Bytes /\ watch.point # "stat"
      BY <1>8 DEF Bytes, ObserveOpen
    <3> QED BY <1>2, <1>6, <2>1, <3>1 DEF Watch, Looked
  <2> QED BY <1>5, <1>8, <2>1 DEF ObserveOpen
<1>9. CASE ObserveRead
  <2>1. Watch("read_rest", watch.before, ReadSome(watch.before)) /\ watch.point # "stat"
    BY <1>9 DEF ObserveRead
  <2>2. ReadSome(watch.before) \in Bytes
    BY <1>3 DEF ReadSome, Bytes
  <2>3. object # NoObject /\ Stat(object) = watch.before =>
          ReadSome(watch.before) = object.content
    BY DEF ReadSome, Stat
  <2> QED BY <1>2, <1>6, <2>1, <2>2, <2>3 DEF Watch, Looked
<1>10. CASE ObserveRest
  <2>1. /\ Watch("restat", watch.before, ReadRest(watch.before, watch.content))
        /\ watch.point = "read_rest"
    BY <1>10 DEF ObserveRest
  <2>2. ReadRest(watch.before, watch.content) \in Bytes
    BY <1>1 DEF ReadRest, Bytes
  <2>3. object # NoObject /\ Stat(object) = watch.before =>
          ReadRest(watch.before, watch.content) = object.content
    <3>1. Same(watch.before) => watch.content = object.content
      BY <1>0, <2>1 DEF Watched
    <3> QED BY <3>1 DEF Same, ReadSome, ReadRest, Stat
  <2> QED BY <1>2, <1>6, <2>1, <2>2, <2>3 DEF Watch, Looked
<1>11. CASE ObserveLink
  <2>1. CASE object # NoObject /\ Watch("restat", watch.before, object.content)
    <3>1. watch.point # "stat" /\ object.content \in Bytes
      BY <1>3, <1>11, <2>1 DEF ObserveLink
    <3> QED BY <1>2, <1>6, <2>1, <3>1 DEF Watch, Looked
  <2> QED BY <1>5, <1>11, <2>1 DEF ObserveLink
<1>12. CASE ObserveRestat
  <2>0. watch.point = "restat" /\ watch.before \in Stats
    BY <1>2, <1>12 DEF ObserveRestat
  <2>1. ASSUME Same(watch.before)
        PROVE  /\ watch.content \in Content \cup {NoContent}
               /\ \E s \in seen : /\ s.kind = watch.before.kind
                                  /\ s.meta = watch.before.meta
                                  /\ s.content = watch.content
    <3>1. watch.content = object.content
      BY <1>0, <2>0, <2>1 DEF Watched
    <3>2. object # NoObject /\ Stat(object) = watch.before
      BY <2>1 DEF Same
    <3> QED BY <1>0, <3>1, <3>2, ObjectSeen
  <2>2. CASE Same(watch.before) /\ Watch("anchor", watch.before, watch.content)
    BY <1>1, <1>2, <1>6, <2>0, <2>1, <2>2 DEF Watch, Looked
  <2>3. CASE Same(watch.before) /\ Observed(Present(watch.before, watch.content, FALSE))
    BY <2>0, <2>1, <2>3, PresentIsFact DEF Observed, Concluded, Agrees
  <2> QED BY <1>5, <1>12, <2>2, <2>3 DEF ObserveRestat
<1>13. CASE ObserveAnchor
  <2>0. watch.point = "anchor" /\ watch.before \in Stats
    BY <1>2, <1>13 DEF ObserveAnchor
  <2>1. \E s \in seen : /\ s.kind = watch.before.kind
                        /\ s.meta = watch.before.meta
                        /\ s.content = watch.content
    BY <1>0, <2>0 DEF Watched, WasThere
  <2>2. watch.content \in Content \cup {NoContent}
    BY <1>0, <2>1 DEF ObserverTyped, Snapshots
  <2>3. CASE Observed(Unknown)
    BY <1>5, <2>3
  <2>4. CASE Observed(Present(watch.before, watch.content, TRUE))
    BY <2>0, <2>1, <2>2, <2>4, PresentIsFact DEF Observed, Concluded, Agrees
  <2> QED BY <1>13, <2>3, <2>4 DEF ObserveAnchor, Observed
<1> QED BY <1>0, <1>7, <1>8, <1>9, <1>10, <1>11, <1>12, <1>13 DEF Observe

LEMMA OthersKeepObserver ==
  ASSUME ObserverInv, Others
  PROVE  ObserverInv'
BY ObserveLooks, LookedKeepsObserver, ConcludedKeepsObserver, ChangeChanges,
   ChangeKeepsObserver DEF Others, ObserverInv

-----------------------------------------------------------------------------
(* What others and the observer do leaves the captures as they are.        *)

LEMMA Distinct ==
  /\ Absent # Empty /\ Absent # Bound /\ Empty # Bound
  /\ Absent \notin Record /\ Empty \notin Record
<1>1. ASSUME NEW a, NEW b, NEW c
      PROVE  Cardinality({a, b, c}) # 4
  <2>1. IsFiniteSet({}) /\ Cardinality({}) = 0
    BY FS_EmptySet
  <2>2. IsFiniteSet({a}) /\ Cardinality({a}) = 1
    BY FS_Singleton
  <2>3. IsFiniteSet({a, b}) /\ Cardinality({a, b}) \in {1, 2}
    <3>1. {a, b} = {a} \cup {b}
      OBVIOUS
    <3> QED BY <2>2, <3>1, FS_AddElement
  <2>4. Cardinality({a, b, c}) \in {1, 2, 3}
    <3>1. {a, b, c} = {a, b} \cup {c}
      OBVIOUS
    <3> QED BY <2>3, <3>1, FS_AddElement
  <2> QED BY <2>4
<1>2. Cardinality({Absent, Empty, Bound, Torn}) = 4
  BY CaptureStoreAssumption
<1>3. ASSUME NEW a, NEW b, NEW c, {Absent, Empty, Bound, Torn} = {a, b, c}
      PROVE  FALSE
  BY <1>1, <1>2, <1>3
<1>4. Absent = Empty => {Absent, Empty, Bound, Torn} = {Absent, Bound, Torn}
  OBVIOUS
<1>5. Absent = Bound => {Absent, Empty, Bound, Torn} = {Absent, Empty, Torn}
  OBVIOUS
<1>6. Empty = Bound => {Absent, Empty, Bound, Torn} = {Absent, Empty, Torn}
  OBVIOUS
<1> QED BY <1>3, <1>4, <1>5, <1>6, CaptureStoreValues

\* Once there is an observation, it stays; what then is found the same as
\* before was not changed.
LEMMA OthersLater ==
  ASSUME ObserverInv, Others
  PROVE  /\ changes \in Nat /\ changes' \in Nat /\ changes <= changes'
         /\ observation \in Facts => observation' = observation /\ seen \subseteq seen'
         /\ \A before \in Stats :
              before.stamp <= changes /\ object' # NoObject /\ Stat(object') = before
                => object' = object
<1>1. CASE Change
  <2>1. Changed
    BY <1>1, ChangeChanges DEF ObserverInv
  <2>2. changes \in Nat /\ changes' = changes + 1
    BY <2>1 DEF Changed, ObserverInv, ObserverTyped
  <2>3. ASSUME NEW before \in Stats, before.stamp <= changes, object' # NoObject,
               Stat(object') = before
        PROVE  FALSE
    <3>1. Stat(object').stamp = changes + 1
      BY <2>1, <2>3 DEF Changed, Stat
    <3>2. before.stamp \in Nat
      BY DEF Stats
    <3> QED BY <2>2, <2>3, <3>1, <3>2
  <2> QED BY <2>1, <2>2, <2>3 DEF Changed, observer
<1>2. CASE Observe
  <2>1. observation \notin Facts /\ UNCHANGED <<object, changes>>
    BY <1>2, ObserveLooks, TargetObserverValues
    DEF ObserverInv, Watched, Looked, Concluded, target
  <2>2. changes \in Nat
    BY DEF ObserverInv, ObserverTyped
  <2> QED BY <2>1, <2>2
<1> QED BY <1>1, <1>2 DEF Others

LEMMA OthersKeepIInv ==
  ASSUME IInv, Others, UNCHANGED <<world, storage, locks, working, history>>
  PROVE  IInv'
<1>0. /\ ObserverInv /\ StoreTyped /\ Admitted /\ Sound /\ Locked /\ Trusted
      /\ ExactIsProven /\ Answered /\ Confirmed
      /\ \A p \in Process : Shape(p) /\ Held(p) /\ Copied(p) /\ Making(p)
  BY DEF IInv, Typed, ObserverInv
<1>1. /\ world' = world /\ dir' = dir /\ dirDisk' = dirDisk /\ files' = files
      /\ disk' = disk /\ loose' = loose /\ writer' = writer /\ readers' = readers
      /\ pc' = pc /\ call' = call /\ returned' = returned
      /\ answers' = answers /\ confirmed' = confirmed /\ lost' = lost
  BY DEF storage, locks, working, history
<1>2. ObserverInv'
  BY <1>0, OthersKeepObserver
<1>3. StoreTyped' /\ Locked' /\ \A p \in Process : Shape(p)' /\ Held(p)'
  BY <1>0, <1>1 DEF StoreTyped, Locked, Shape, Held
<1>4. CASE observation \in Facts
  <2>1. observation' = observation /\ seen \subseteq seen'
    BY <1>0, <1>4, OthersLater
  <2>2. Admitted' /\ Sound' /\ Trusted' /\ Answered' /\ Confirmed'
    BY <1>0, <1>1, <1>4, <2>1
    DEF Admitted, Sound, NoDebris, Trusted, Recorded, PayloadVerifies, Answered,
        Confirmed, Flushed
  <2>3. Single => Single'
    BY <2>1 DEF Single
  <2>4. ExactIsProven'
    BY <1>0, <1>1, <2>1, <2>3 DEF ExactIsProven, Recorded
  <2>5. ASSUME NEW p \in Process
        PROVE  Copied(p)' /\ Making(p)'
    <3>1. Shown(call[p].before) => Shown(call[p].before)'
      BY <1>0, <1>1, OthersLater DEF Shown, Stats
    <3>2. Shown(call[p].before) /\ Same(call[p].before)' =>
            Same(call[p].before) /\ object' = object
      BY <1>0, <1>1, OthersLater DEF Shown, Same
    <3>3. Making(p)'
      BY <1>0, <1>1, <2>1 DEF Making, PayloadVerifies
    <3>4. Copied(p)
      BY <1>0
    <3>5. (\E s \in seen : Agrees(s, observation) /\ s.shared = call[p].shared) =>
            (\E s \in seen : Agrees(s, observation) /\ s.shared = call[p].shared)'
      BY <1>1, <2>1
    <3>6. pc[p] \in {"restat", "copy_rest"} => Shown(call[p].before)
      BY <3>4 DEF Copied
    <3>7. Copied(p)'
      BY <1>1, <2>1, <2>3, <3>1, <3>2, <3>4, <3>5, <3>6 DEF Copied
    <3> QED BY <3>3, <3>7
  <2> QED BY <1>2, <1>3, <2>2, <2>4, <2>5 DEF IInv, Typed, ObserverInv
<1>5. CASE observation \notin Facts
  <2>1. /\ \A p \in Process : pc[p] = "idle"
        /\ files = NoFiles /\ disk = NoFiles /\ ~dir /\ ~dirDisk
        /\ confirmed = Absent /\ answers = {} /\ returned = {}
    BY <1>0, <1>5 DEF Admitted
  <2>2. \A n \in Name : files[n] = Absent
    BY <2>1 DEF NoFiles
  <2>3. ~Recorded'
    BY <1>1, <2>2, Distinct DEF Recorded, Name
  <2>4. /\ Admitted' /\ Sound'
    BY <1>0, <1>1, <2>1, <2>2 DEF Admitted, Sound, NoDebris, Name
  <2>5. Trusted' /\ ExactIsProven' /\ Answered'
    BY <1>1, <2>1, <2>3 DEF Trusted, ExactIsProven, Answered
  <2>6. Confirmed'
    BY <1>1, <2>1 DEF Confirmed
  <2>7. \A p \in Process : Copied(p)' /\ Making(p)'
    BY <1>1, <2>1 DEF Copied, Making, WritePoint, Copying
  <2> QED BY <1>2, <1>3, <2>4, <2>5, <2>6, <2>7 DEF IInv, Typed, ObserverInv
<1> QED BY <1>4, <1>5

-----------------------------------------------------------------------------
(* A step of one process, and the others.                                  *)

\* What a step leaves of the target and of the calls of others.
Alike(p) ==
  /\ UNCHANGED <<observing, world, lost>>
  /\ \A q \in Process \ {p} :
       /\ pc'[q] = pc[q] /\ call'[q] = call[q]
       /\ q \in returned => q \in returned'
       /\ writer = q => writer' = q
       /\ q \in readers => q \in readers'
  /\ dir => dir'

\* Only who writes makes a payload or a record.
Writes(p) ==
  \A n \in {"payload", "record"} : files'[n] # files[n] => writer = p

Mine(p) == Shape(p) /\ Held(p) /\ Copied(p) /\ Making(p)

LEMMA SameTarget ==
  ASSUME UNCHANGED observing
  PROVE  /\ object' = object /\ anchor' = anchor /\ changes' = changes
         /\ watch' = watch /\ observation' = observation /\ seen' = seen
BY DEF observing, target, observer

LEMMA OthersKeep ==
  ASSUME NEW p \in Process, NEW q \in Process, q # p, Alike(p), Writes(p), Mine(q)
  PROVE  Mine(q)'
<1>1. /\ object' = object /\ changes' = changes /\ observation' = observation
      /\ seen' = seen
  BY SameTarget DEF Alike
<1>2. pc'[q] = pc[q] /\ call'[q] = call[q]
  BY DEF Alike
<1>3. /\ q \in returned => q \in returned'
      /\ writer = q => writer' = q
      /\ q \in readers => q \in readers'
      /\ dir => dir'
  BY DEF Alike
<1>4. Shape(q)' /\ Held(q)'
  BY <1>2, <1>3 DEF Mine, Shape, Held
<1>5. Copied(q)'
  BY <1>1, <1>2 DEF Mine, Copied, Single, Shown, Same
<1>6. Making(q)'
  <2>1. pc[q] \in WritePoint =>
          files'["record"] = files["record"] /\ files'["payload"] = files["payload"]
    BY DEF Mine, Held, Writes
  <2>2. "link_record" \in WritePoint
    BY DEF WritePoint
  <2> QED BY <1>1, <1>2, <2>1, <2>2 DEF Mine, Making, PayloadVerifies
<1> QED BY <1>4, <1>5, <1>6 DEF Mine

LEMMA ObserverSame ==
  ASSUME ObserverInv, UNCHANGED observing
  PROVE  ObserverInv'
BY SameTarget DEF ObserverInv, ObserverTyped, Watched, Seen, ObservedAtOnce,
   Shown, Same, WasThere

LEMMA Parts ==
  ASSUME IInv
  PROVE  /\ ObserverInv /\ StoreTyped /\ Admitted /\ Sound /\ Locked /\ Trusted
         /\ ExactIsProven /\ Answered /\ Confirmed
         /\ \A p \in Process : Mine(p)
BY DEF IInv, Typed, ObserverInv, Mine

\* What is left to show of a step of one process.
LEMMA StepKeeps ==
  ASSUME IInv, NEW p \in Process, observation \in Facts, Alike(p), Writes(p),
         StoreTyped', Sound', Locked', Trusted', ExactIsProven', Answered',
         Confirmed', Mine(p)'
  PROVE  IInv'
<1>1. ObserverInv /\ \A q \in Process : Mine(q)
  BY Parts
<1>2. ObserverInv'
  BY <1>1, ObserverSame DEF Alike
<1>3. \A q \in Process : Mine(q)'
  BY <1>1, OthersKeep
<1>4. Admitted'
  BY SameTarget DEF Admitted, Alike
<1> QED BY <1>2, <1>3, <1>4 DEF IInv, Typed, ObserverInv, Mine

\* A call goes on, and nothing but what it knows has changed.
Moves(p) ==
  /\ Unchanged
  /\ pc' = [pc EXCEPT ![p] = pc'[p]] /\ pc'[p] \in Point
  /\ call' = [call EXCEPT ![p] = call'[p]] /\ call'[p] \in CallRecord
  /\ returned' = returned

LEMMA SharedSame ==
  ASSUME UNCHANGED <<observing, world, storage>>
  PROVE  /\ object' = object /\ observation' = observation /\ seen' = seen
         /\ world' = world /\ dir' = dir /\ dirDisk' = dirDisk /\ files' = files
         /\ disk' = disk /\ loose' = loose
         /\ Recorded' = Recorded /\ PayloadVerifies' = PayloadVerifies
         /\ Flushed' = Flushed /\ Single' = Single /\ Sound' = Sound
BY SameTarget DEF storage, Recorded, PayloadVerifies, Flushed, Single, Sound, NoDebris

LEMMA MovesKeep ==
  ASSUME IInv, NEW p \in Process, observation \in Facts, Moves(p), Mine(p)',
         pc'[p] = "sync_store" => Flushed
  PROVE  IInv'
<1>0. /\ StoreTyped /\ Sound /\ Locked /\ Trusted /\ ExactIsProven /\ Answered
      /\ Confirmed
  BY Parts
<1>1. /\ UNCHANGED <<observing, world, storage>>
      /\ writer' = writer /\ readers' = readers
      /\ answers' = answers /\ confirmed' = confirmed /\ lost' = lost
      /\ returned' = returned
  BY DEF Moves, Unchanged, locks, history
<1>2. /\ world' = world /\ dir' = dir /\ dirDisk' = dirDisk /\ files' = files
      /\ disk' = disk /\ observation' = observation
  BY <1>1, SharedSame
<1>3. pc' \in [Process -> Point] /\ call' \in [Process -> CallRecord]
  BY <1>0 DEF StoreTyped, Moves
<1>4. \A q \in Process \ {p} : pc'[q] = pc[q] /\ call'[q] = call[q]
  BY <1>0 DEF StoreTyped, Moves
<1>5. Alike(p)
  BY <1>1, <1>2, <1>4 DEF Alike
<1>6. Writes(p)
  BY <1>2 DEF Writes
<1>7. StoreTyped' /\ Locked'
  BY <1>0, <1>1, <1>2, <1>3 DEF StoreTyped, Locked
<1>8. Sound' /\ Trusted' /\ ExactIsProven' /\ Answered'
  BY <1>0, <1>1, <1>2, SharedSame DEF Trusted, ExactIsProven, Answered
<1>9. Confirmed'
  BY <1>0, <1>1, <1>2, <1>4, SharedSame DEF Confirmed
<1> QED BY <1>5, <1>6, <1>7, <1>8, <1>9, StepKeeps

LEMMA NoCallTyped == NoCall \in CallRecord
BY DEF NoCall, Calling, CallRecord, Operation, Bytes

\* Nothing is to be shown of a process that runs no call.
LEMMA IdleIsMine ==
  ASSUME NEW p \in Process, pc'[p] = "idle", call'[p] = NoCall
  PROVE  Mine(p)'
BY DEF Mine, Shape, Held, Copied, Making, WritePoint, Copying, SyncPoint, NoCall, Calling

LEMMA CloseEffect ==
  ASSUME StoreTyped, NEW p \in Process, Close(p)
  PROVE  /\ pc' \in [Process -> Point] /\ call' \in [Process -> CallRecord]
         /\ pc'[p] = "idle" /\ call'[p] = NoCall
         /\ \A q \in Process \ {p} :
              /\ pc'[q] = pc[q] /\ call'[q] = call[q]
              /\ writer = q => writer' = q
              /\ q \in readers => q \in readers'
         /\ writer' \in Process \cup {NoProcess} /\ readers' \subseteq Process
         /\ Locked => Locked'
<1>1. "idle" \in Point /\ NoCall \in CallRecord
  BY NoCallTyped DEF Point
<1>2. pc \in [Process -> Point] /\ call \in [Process -> CallRecord]
  BY DEF StoreTyped
<1>3. pc' = [pc EXCEPT ![p] = "idle"] /\ call' = [call EXCEPT ![p] = NoCall]
  BY DEF Close, Goto
<1>4. /\ pc' \in [Process -> Point] /\ call' \in [Process -> CallRecord]
      /\ pc'[p] = "idle" /\ call'[p] = NoCall
      /\ \A q \in Process \ {p} : pc'[q] = pc[q] /\ call'[q] = call[q]
  BY <1>1, <1>2, <1>3
<1>5. /\ writer' = (IF writer = p THEN NoProcess ELSE writer)
      /\ readers' = readers \ {p}
  BY DEF Close
<1>6. /\ writer' \in Process \cup {NoProcess} /\ readers' \subseteq Process
      /\ Locked => Locked'
  BY <1>5 DEF StoreTyped, Locked
<1> QED BY <1>4, <1>5, <1>6

\* A call ends without a change of what is stored.
LEMMA ClosesKeep ==
  ASSUME IInv, NEW p \in Process, pc[p] # "idle", Close(p),
         UNCHANGED <<observing, world, storage, confirmed, lost>>,
         \/ returned' = returned
         \/ returned' = returned \ {p}
         \/ returned' = returned \cup {p} /\ (Recorded => PayloadVerifies),
         \/ answers' = answers
         \/ Recorded /\ answers' = answers \cup {files["record"].exact}
  PROVE  IInv'
<1>0. /\ StoreTyped /\ Sound /\ Locked /\ Trusted /\ ExactIsProven /\ Answered
      /\ Confirmed
  BY Parts
<1>1. observation \in Facts
  BY Parts DEF Admitted
<1>2. /\ confirmed' = confirmed /\ lost' = lost
      /\ world' = world /\ dir' = dir /\ dirDisk' = dirDisk /\ files' = files
      /\ disk' = disk /\ observation' = observation
  BY SharedSame
<1>3. Alike(p)
  BY <1>0, <1>2, CloseEffect DEF Alike
<1>4. Writes(p)
  BY <1>2 DEF Writes
<1>5. StoreTyped'
  <2>1. returned' \subseteq Process
    BY <1>0 DEF StoreTyped
  <2>2. answers' \subseteq BOOLEAN
    BY <1>0 DEF StoreTyped, Recorded, Record
  <2> QED BY <1>0, <1>2, <2>1, <2>2, CloseEffect DEF StoreTyped
<1>6. Locked' /\ Mine(p)'
  BY <1>0, CloseEffect, IdleIsMine
<1>7. Trusted'
  <2>1. returned' # {} => returned # {} \/ (Recorded => PayloadVerifies)
    OBVIOUS
  <2>2. (Recorded' <=> Recorded) /\ (PayloadVerifies' <=> PayloadVerifies)
    BY SharedSame
  <2> QED BY <1>0, <1>2, <2>1, <2>2 DEF Trusted
<1>8. Sound' /\ ExactIsProven' /\ Answered'
  BY <1>0, <1>2, SharedSame DEF ExactIsProven, Answered
<1>9. Confirmed'
  BY <1>0, <1>2, CloseEffect, SharedSame DEF Confirmed
<1> QED BY <1>1, <1>3, <1>4, <1>5, <1>6, <1>7, <1>8, <1>9, StepKeeps

LEMMA ThrowKeeps ==
  ASSUME IInv, NEW p \in Process, pc[p] # "idle", Throw(p)
  PROVE  IInv'
BY ClosesKeep DEF Throw, history

LEMMA ReturnKeeps ==
  ASSUME IInv, NEW p \in Process, pc[p] # "idle", Return(p), UNCHANGED storage, ~Recorded
  PROVE  IInv'
BY ClosesKeep DEF Return, history

LEMMA StopKeeps ==
  ASSUME IInv, NEW p \in Process, Stop(p)
  PROVE  IInv'
BY ClosesKeep DEF Stop, history

-----------------------------------------------------------------------------
(* The steps that open the directory and lock it.                          *)

LEMMA GoesOn ==
  ASSUME IInv, NEW p \in Process, Unchanged, returned' = returned,
         NEW point \in Point, pc' = [pc EXCEPT ![p] = point],
         NEW c \in CallRecord, call' = [call EXCEPT ![p] = c]
  PROVE  Moves(p) /\ pc'[p] = point /\ call'[p] = c
<1>1. pc \in [Process -> Point] /\ call \in [Process -> CallRecord]
  BY Parts DEF StoreTyped
<1> QED BY <1>1 DEF Moves

LEMMA StepsOn ==
  ASSUME IInv, NEW p \in Process, Unchanged, UNCHANGED <<call, returned>>,
         NEW point \in Point, pc' = [pc EXCEPT ![p] = point]
  PROVE  Moves(p) /\ pc'[p] = point /\ call'[p] = call[p]
<1>1. pc \in [Process -> Point] /\ call \in [Process -> CallRecord]
  BY Parts DEF StoreTyped
<1>2. call' = [call EXCEPT ![p] = call[p]] /\ call[p] \in CallRecord
  BY <1>1
<1> QED BY <1>2, GoesOn

LEMMA CallingTyped ==
  ASSUME NEW operation \in Operation, NEW purpose \in Purpose \cup {Absent}
  PROVE  /\ Calling(operation, purpose) \in CallRecord
         /\ Calling(operation, purpose).operation = operation
         /\ Calling(operation, purpose).purpose = purpose
BY DEF Calling, CallRecord, Bytes

LEMMA Begun ==
  ASSUME IInv, NEW p \in Process, pc[p] # "idle"
  PROVE  observation \in Facts
BY Parts DEF Admitted

\* The points before anything is looked at ask nothing of what was copied.
EarlyPoint == {"idle", "mkdir", "open_dir", "bind", "lock", "look", "sync_attempt",
               "sync_store"}

LEMMA EarlyIsMine ==
  ASSUME NEW p \in Process, pc'[p] \in EarlyPoint, Shape(p)', Held(p)'
  PROVE  Mine(p)'
BY DEF EarlyPoint, Mine, Copied, Making, WritePoint, Copying

LEMMA StartKeeps ==
  ASSUME IInv, NEW p \in Process, Start(p)
  PROVE  IInv'
<1>1. /\ observation \in Facts /\ Unchanged /\ returned' = returned
  BY DEF Start
<1>2. ASSUME NEW operation \in {"capture", "load"}, NEW purpose \in Purpose,
             call' = [call EXCEPT ![p] = Calling(operation, purpose)],
             pc' = [pc EXCEPT ![p] = IF operation = "capture" THEN "mkdir" ELSE "open_dir"]
      PROVE  IInv'
  <2>1. /\ Moves(p) /\ call'[p] = Calling(operation, purpose)
        /\ pc'[p] = IF operation = "capture" THEN "mkdir" ELSE "open_dir"
    <3>1. "mkdir" \in Point /\ "open_dir" \in Point /\ operation \in Operation
      BY DEF Point, Operation
    <3> QED BY <1>1, <1>2, <3>1, CallingTyped, GoesOn
  <2>2. call'[p].operation = operation /\ call'[p].purpose = purpose
    BY <2>1 DEF Calling
  <2>3. Shape(p)' /\ Held(p)'
    BY <2>1, <2>2 DEF Shape, Held, WritePoint, Copying, SyncPoint
  <2>4. Mine(p)'
    BY <2>1, <2>3, EarlyIsMine DEF EarlyPoint
  <2> QED BY <1>1, <2>1, <2>4, MovesKeep
<1>3. ASSUME p \in returned, call' = [call EXCEPT ![p] = Calling("synchronize", Absent)],
             pc' = [pc EXCEPT ![p] = "open_dir"]
      PROVE  IInv'
  <2>1. /\ Moves(p) /\ call'[p] = Calling("synchronize", Absent)
        /\ pc'[p] = "open_dir"
    <3>1. "open_dir" \in Point /\ "synchronize" \in Operation
      BY DEF Point, Operation
    <3> QED BY <1>1, <1>3, <3>1, CallingTyped, GoesOn
  <2>2. call'[p].operation = "synchronize" /\ p \in returned'
    BY <1>1, <1>3, <2>1 DEF Calling
  <2>3. Shape(p)' /\ Held(p)'
    BY <2>1, <2>2 DEF Shape, Held, WritePoint, Copying, SyncPoint
  <2>4. Mine(p)'
    BY <2>1, <2>3, EarlyIsMine DEF EarlyPoint
  <2> QED BY <1>1, <2>1, <2>4, MovesKeep
<1> QED BY <1>2, <1>3 DEF Start, Goto

LEMMA OpenDirectoryKeeps ==
  ASSUME IInv, NEW p \in Process, OpenDirectory(p)
  PROVE  IInv'
<1> DEFINE unbound == ~dir \/ files["binding"] \in {Absent, Empty}
           capturing == call[p].operation = "capture"
<1>0. pc[p] = "open_dir" /\ Mine(p) /\ observation \in Facts
  BY Parts, Begun DEF OpenDirectory
<1>1. CASE unbound /\ ~capturing
  BY <1>0, <1>1, ThrowKeeps DEF OpenDirectory
<1>2. CASE ~(unbound /\ ~capturing)
  <2>1. /\ Unchanged /\ UNCHANGED <<call, returned>>
        /\ pc' = [pc EXCEPT ![p] = IF unbound THEN "bind" ELSE "lock"]
    BY <1>2 DEF OpenDirectory, Step, Goto
  <2>2. "bind" \in Point /\ "lock" \in Point
    BY DEF Point
  <2>3. /\ Moves(p) /\ pc'[p] = (IF unbound THEN "bind" ELSE "lock")
        /\ call'[p] = call[p]
    BY <2>1, <2>2, StepsOn
  <2>4. dir /\ dir' = dir
    BY <1>0, <1>2, <2>1 DEF Mine, Shape, Unchanged, storage
  <2>5. Shape(p)' /\ Held(p)'
    BY <1>0, <1>2, <2>1, <2>3, <2>4
    DEF Mine, Shape, Held, WritePoint, Copying, SyncPoint
  <2>6. Mine(p)' /\ pc'[p] # "sync_store"
    BY <2>3, <2>5, EarlyIsMine DEF EarlyPoint
  <2> QED BY <1>0, <2>3, <2>6, MovesKeep
<1> QED BY <1>1, <1>2

LEMMA MakeDirectoryKeeps ==
  ASSUME IInv, NEW p \in Process, MakeDirectory(p)
  PROVE  IInv'
<1>0. /\ StoreTyped /\ Sound /\ Locked /\ Trusted /\ ExactIsProven /\ Answered
      /\ Confirmed /\ Mine(p)
  BY Parts
<1>1. /\ pc[p] = "mkdir" /\ pc' = [pc EXCEPT ![p] = "open_dir"] /\ call' = call
      /\ returned' = returned /\ dir' = TRUE
      /\ UNCHANGED <<observing, world, dirDisk, files, disk, loose, locks, history>>
  BY DEF MakeDirectory, Step, Goto
<1>2. observation \in Facts
  BY <1>1, Begun
<1>3. /\ writer' = writer /\ readers' = readers /\ answers' = answers
      /\ confirmed' = confirmed /\ lost' = lost /\ observation' = observation
      /\ seen' = seen
  BY <1>1, SameTarget DEF locks, history
<1>4. pc'[p] = "open_dir" /\ \A q \in Process \ {p} : pc'[q] = pc[q]
  BY <1>0, <1>1 DEF StoreTyped
<1>5. StoreTyped'
  <2>1. "open_dir" \in Point
    BY DEF Point
  <2> QED BY <1>0, <1>1, <1>3, <2>1 DEF StoreTyped
<1>6. Alike(p) /\ Writes(p)
  BY <1>1, <1>3, <1>4 DEF Alike, Writes
<1>7. Sound' /\ Locked' /\ Trusted' /\ Answered'
  BY <1>0, <1>1, <1>3
  DEF Sound, NoDebris, Locked, Trusted, Recorded, PayloadVerifies, Answered
<1>8. Confirmed'
  BY <1>0, <1>1, <1>3, <1>4 DEF Confirmed, Flushed
<1>9. ExactIsProven'
  BY <1>0, <1>1, <1>3 DEF ExactIsProven, Recorded, Single
<1>10. Mine(p)'
  <2>1. Shape(p)' /\ Held(p)'
    BY <1>0, <1>1, <1>4 DEF Mine, Shape, Held, WritePoint, Copying, SyncPoint
  <2> QED BY <1>4, <2>1, EarlyIsMine DEF EarlyPoint
<1> QED BY <1>2, <1>5, <1>6, <1>7, <1>8, <1>9, <1>10, StepKeeps

LEMMA Names ==
  ASSUME NEW f \in Files
  PROVE  /\ f \in [Name -> Content \cup {Absent, Empty, Bound} \cup Record]
         /\ f["binding"] \in {Absent, Empty, Bound}
         /\ f["payload"] \in Content \cup {Absent, Empty}
         /\ f["record"] \in {Absent, Empty} \cup Record
         /\ "binding" \in Name /\ "payload" \in Name /\ "record" \in Name
         /\ \A n \in Name : n \in {"binding", "payload", "record"}
BY DEF Files, Name

LEMMA BindingLinked ==
  ASSUME NEW f \in Files
  PROVE  /\ [f EXCEPT !["binding"] = Bound] \in Files
         /\ [f EXCEPT !["binding"] = Bound]["binding"] = Bound
         /\ [f EXCEPT !["binding"] = Bound]["payload"] = f["payload"]
         /\ [f EXCEPT !["binding"] = Bound]["record"] = f["record"]
BY DEF Files, Name

LEMMA PayloadLinked ==
  ASSUME NEW f \in Files, NEW content \in Content
  PROVE  /\ [f EXCEPT !["payload"] = content] \in Files
         /\ [f EXCEPT !["payload"] = content]["binding"] = f["binding"]
         /\ [f EXCEPT !["payload"] = content]["payload"] = content
         /\ [f EXCEPT !["payload"] = content]["record"] = f["record"]
BY DEF Files, Name

LEMMA RecordLinked ==
  ASSUME NEW f \in Files, NEW record \in Record
  PROVE  /\ [f EXCEPT !["record"] = record] \in Files
         /\ [f EXCEPT !["record"] = record]["binding"] = f["binding"]
         /\ [f EXCEPT !["record"] = record]["payload"] = f["payload"]
         /\ [f EXCEPT !["record"] = record]["record"] = record
BY DEF Files, Name

LEMMA PublishBindingKeeps ==
  ASSUME IInv, NEW p \in Process, PublishBinding(p)
  PROVE  IInv'
<1>0. /\ StoreTyped /\ Sound /\ Locked /\ Trusted /\ ExactIsProven /\ Answered
      /\ Confirmed /\ Mine(p) /\ pc[p] = "bind"
  BY Parts DEF PublishBinding, Step
<1>1. observation \in Facts
  BY <1>0, Begun
<1>2. call[p].operation = "capture" /\ dir
  BY <1>0 DEF Mine, Shape
<1>3. ASSUME pc'[p] = "lock", call'[p] = call[p], dir' = dir, returned' = returned
      PROVE  Mine(p)'
  <2>1. Shape(p)' /\ Held(p)'
    BY <1>0, <1>2, <1>3 DEF Mine, Shape, Held, WritePoint, Copying, SyncPoint
  <2> QED BY <1>3, <2>1, EarlyIsMine DEF EarlyPoint
<1>4. "lock" \in Point
  BY DEF Point
<1>5. CASE files["binding"] = Absent
  <2>1. /\ pc' = [pc EXCEPT ![p] = "lock"] /\ call' = call /\ returned' = returned
        /\ files' = [files EXCEPT !["binding"] = Bound]
        /\ loose' = loose \ {"binding"}
        /\ UNCHANGED <<dir, dirDisk, disk>>
        /\ UNCHANGED <<observing, world, locks, history>>
    BY <1>5 DEF PublishBinding, Step, Goto, Link
  <2>2. /\ writer' = writer /\ readers' = readers /\ answers' = answers
        /\ confirmed' = confirmed /\ lost' = lost /\ observation' = observation
        /\ seen' = seen
    BY <2>1, SameTarget DEF locks, history
  <2>3. pc'[p] = "lock" /\ \A q \in Process \ {p} : pc'[q] = pc[q]
    BY <1>0, <2>1 DEF StoreTyped
  <2>4. /\ files' \in Files /\ files'["binding"] = Bound
        /\ files'["payload"] = files["payload"] /\ files'["record"] = files["record"]
    BY <1>0, <2>1, BindingLinked DEF StoreTyped
  <2>5. StoreTyped'
    BY <1>0, <1>4, <2>1, <2>2, <2>4 DEF StoreTyped
  <2>6. Alike(p) /\ Writes(p)
    BY <2>1, <2>2, <2>3, <2>4 DEF Alike, Writes
  <2>7. Sound'
    BY <1>0, <1>5, <2>1, <2>2, <2>4, Distinct, Names DEF Sound, NoDebris, StoreTyped
  <2>8. Locked' /\ Trusted' /\ Answered' /\ ExactIsProven'
    BY <1>0, <2>1, <2>2, <2>4
    DEF Locked, Trusted, Recorded, PayloadVerifies, Answered, ExactIsProven, Single
  <2>9. Confirmed'
    BY <1>0, <2>1, <2>2, <2>3, <2>4 DEF Confirmed, Flushed
  <2> QED BY <1>1, <1>3, <2>1, <2>3, <2>5, <2>6, <2>7, <2>8, <2>9, StepKeeps
<1>6. CASE files["binding"] = Bound
  <2>1. /\ pc' = [pc EXCEPT ![p] = "lock"] /\ Unchanged /\ UNCHANGED <<call, returned>>
    BY <1>6, Distinct DEF PublishBinding, Step, Goto
  <2>2. Moves(p) /\ pc'[p] = "lock" /\ call'[p] = call[p]
    BY <1>4, <2>1, StepsOn
  <2> QED BY <1>1, <1>3, <2>1, <2>2, MovesKeep DEF Unchanged, storage
<1>7. CASE files["binding"] \notin {Absent, Bound}
  BY <1>0, <1>7, ThrowKeeps DEF PublishBinding
<1> QED BY <1>5, <1>6, <1>7

LEMMA TakeLockKeeps ==
  ASSUME IInv, NEW p \in Process, TakeLock(p)
  PROVE  IInv'
<1> DEFINE writing == call[p].operation = "capture"
           free == writer = NoProcess /\ (writing => readers = {})
<1>0. /\ StoreTyped /\ Sound /\ Locked /\ Trusted /\ ExactIsProven /\ Answered
      /\ Confirmed /\ Mine(p) /\ pc[p] = "lock"
  BY Parts DEF TakeLock, Step
<1>1. observation \in Facts
  BY <1>0, Begun
<1>2. CASE ~free
  BY <1>0, <1>2, ThrowKeeps DEF TakeLock
<1>3. CASE free
  <2>1. /\ pc' = [pc EXCEPT ![p] = IF call[p].operation = "synchronize"
                                     THEN "sync_attempt" ELSE "look"]
        /\ call' = call /\ returned' = returned
        /\ writer' = (IF writing THEN p ELSE writer)
        /\ readers' = (IF writing THEN readers ELSE readers \cup {p})
        /\ UNCHANGED <<observing, world, storage, history>>
    BY <1>3 DEF TakeLock, Step, Goto
  <2>2. /\ world' = world /\ dir' = dir /\ dirDisk' = dirDisk /\ files' = files
        /\ disk' = disk /\ observation' = observation
        /\ answers' = answers /\ confirmed' = confirmed /\ lost' = lost
    BY <2>1, SharedSame DEF history
  <2>3. /\ pc'[p] = (IF call[p].operation = "synchronize" THEN "sync_attempt" ELSE "look")
        /\ \A q \in Process \ {p} : pc'[q] = pc[q]
    BY <1>0, <2>1 DEF StoreTyped
  <2>4. StoreTyped'
    <3>1. "sync_attempt" \in Point /\ "look" \in Point
      BY DEF Point
    <3>2. pc' \in [Process -> Point]
      BY <1>0, <2>1, <3>1 DEF StoreTyped
    <3> QED BY <1>0, <2>1, <2>2, <3>2 DEF StoreTyped
  <2>5. Alike(p) /\ Writes(p)
    <3>1. \A q \in Process \ {p} : writer # q
      BY <1>3, CaptureStoreAssumption
    <3> QED BY <2>1, <2>2, <2>3, <3>1 DEF Alike, Writes
  <2>6. Sound' /\ Trusted' /\ ExactIsProven' /\ Answered'
    <3>1. (Recorded' <=> Recorded) /\ (PayloadVerifies' <=> PayloadVerifies)
          /\ (Single' <=> Single) /\ (Sound' <=> Sound)
      BY <2>1, SharedSame
    <3> QED BY <1>0, <2>1, <2>2, <3>1 DEF Trusted, ExactIsProven, Answered
  <2>7. Locked'
    BY <1>3, <2>1 DEF Locked
  <2>8. Confirmed'
    BY <1>0, <2>1, <2>2, <2>3 DEF Confirmed, Flushed
  <2>9. Mine(p)'
    <3>1. call[p].operation \in {"capture", "load", "synchronize"}
      BY <1>0 DEF Mine, Shape, StoreTyped, CallRecord, Operation
    <3>2. Shape(p)' /\ Held(p)'
      BY <1>0, <2>1, <2>2, <2>3, <3>1
      DEF Mine, Shape, Held, WritePoint, Copying, SyncPoint
    <3> QED BY <2>3, <3>2, EarlyIsMine DEF EarlyPoint
  <2> QED BY <1>1, <2>4, <2>5, <2>6, <2>7, <2>8, <2>9, StepKeeps
<1> QED BY <1>2, <1>3

-----------------------------------------------------------------------------
(* The steps of a capture.                                                 *)

\* What a capture does until it links its record.
CaptureGoesOn(p) ==
  /\ Moves(p)
  /\ pc'[p] \in WritePoint
  /\ call'[p].operation = call[p].operation /\ call'[p].purpose = call[p].purpose

LEMMA CaptureKeeps ==
  ASSUME IInv, NEW p \in Process, CaptureGoesOn(p),
         \/ pc[p] \in WritePoint
         \/ pc[p] = "look" /\ call[p].operation = "capture" /\ ~Recorded,
         Copied(p)', pc'[p] = "link_record" => PayloadVerifies
  PROVE  IInv'
<1>0. Mine(p) /\ Sound /\ StoreTyped /\ Moves(p)
  BY Parts DEF CaptureGoesOn
<1>1. pc[p] \notin {"idle", "mkdir", "open_dir"}
  BY DEF WritePoint, Copying
<1>2. /\ UNCHANGED <<observing, world, storage>> /\ writer' = writer
      /\ returned' = returned
  BY <1>0 DEF Moves, Unchanged, locks
<1>3. /\ files' = files /\ dir' = dir /\ observation' = observation
  BY <1>2, SharedSame
<1>4. call[p].operation = "capture" /\ call[p].purpose \in Purpose /\ dir
      /\ writer = p
  BY <1>0, <1>1 DEF Mine, Shape, Held
<1>5. pc'[p] \notin {"idle", "mkdir", "open_dir", "bind", "lock", "look"} \cup SyncPoint
  BY DEF CaptureGoesOn, WritePoint, Copying, SyncPoint
<1>6. Shape(p)' /\ Held(p)'
  BY <1>2, <1>3, <1>4, <1>5 DEF Shape, Held, CaptureGoesOn
<1>7. files["record"] = Absent
  <2>1. CASE pc[p] \in WritePoint
    BY <1>0, <2>1 DEF Mine, Making
  <2>2. CASE ~Recorded
    BY <1>0, <2>2, Names DEF StoreTyped, Recorded, Sound, NoDebris
  <2> QED BY <2>1, <2>2
<1>8. Making(p)'
  BY <1>3, <1>7 DEF Making, PayloadVerifies
<1>9. observation \in Facts
  BY <1>1, Begun
<1>10. pc'[p] # "sync_store"
  BY <1>5 DEF SyncPoint
<1> QED BY <1>0, <1>6, <1>8, <1>9, <1>10, MovesKeep DEF Mine

LEMMA LookAtRecordKeeps ==
  ASSUME IInv, NEW p \in Process, LookAtRecord(p)
  PROVE  IInv'
<1>0. pc[p] = "look" /\ StoreTyped
  BY Parts DEF LookAtRecord
<1>1. CASE files["record"] \in {Absent, Empty} /\ Return(p) /\ UNCHANGED storage
  BY <1>0, <1>1, Distinct, ReturnKeeps DEF Recorded
<1>2. CASE /\ files["record"] \in {Absent, Empty} /\ call[p].operation = "capture"
           /\ Step(p, "look", "stat") /\ Unchanged
  <2>1. Moves(p) /\ pc'[p] = "stat" /\ call'[p] = call[p]
    <3>1. "stat" \in Point
      BY DEF Point, Copying
    <3> QED BY <1>2, <3>1, StepsOn DEF Step, Goto
  <2>2. CaptureGoesOn(p) /\ Copied(p)'
    BY <2>1 DEF CaptureGoesOn, Copied, WritePoint, Copying
  <2>3. ~Recorded
    BY <1>2, Distinct DEF Recorded
  <2> QED BY <1>0, <1>2, <2>1, <2>2, <2>3, CaptureKeeps
<1>3. CASE /\ Recorded /\ PayloadVerifies /\ Report(p, files["record"])
           /\ UNCHANGED storage
  BY <1>0, <1>3, ClosesKeep DEF Report
<1>4. CASE Throw(p)
  BY <1>0, <1>4, ThrowKeeps
<1> QED BY <1>1, <1>2, <1>3, <1>4 DEF LookAtRecord, Recorded

LEMMA CallFields ==
  ASSUME NEW c \in CallRecord
  PROVE  /\ \A before \in Stats \cup {NoObject} :
              /\ [c EXCEPT !.before = before] \in CallRecord
              /\ [c EXCEPT !.before = before].before = before
              /\ [c EXCEPT !.before = before].operation = c.operation
              /\ [c EXCEPT !.before = before].purpose = c.purpose
         /\ \A content \in Bytes :
              /\ [c EXCEPT !.copied = content] \in CallRecord
              /\ [c EXCEPT !.copied = content].copied = content
              /\ [c EXCEPT !.copied = content].before = c.before
              /\ [c EXCEPT !.copied = content].operation = c.operation
              /\ [c EXCEPT !.copied = content].purpose = c.purpose
         /\ \A shared \in BOOLEAN :
              /\ [c EXCEPT !.shared = shared] \in CallRecord
              /\ [c EXCEPT !.shared = shared].shared = shared
              /\ [c EXCEPT !.shared = shared].copied = c.copied
              /\ [c EXCEPT !.shared = shared].operation = c.operation
              /\ [c EXCEPT !.shared = shared].purpose = c.purpose
BY DEF CallRecord

LEMMA CallForgets ==
  ASSUME NEW c \in CallRecord
  PROVE  /\ [c EXCEPT !.before = NoObject, !.copied = NoContent] \in CallRecord
         /\ [c EXCEPT !.before = NoObject, !.copied = NoContent].operation = c.operation
         /\ [c EXCEPT !.before = NoObject, !.copied = NoContent].purpose = c.purpose
BY DEF CallRecord, Bytes

LEMMA CallSynced ==
  ASSUME NEW c \in CallRecord, NEW exact \in BOOLEAN
  PROVE  /\ [c EXCEPT !.flushed = TRUE, !.exact = exact,
                      !.before = NoObject, !.shared = FALSE] \in CallRecord
         /\ [c EXCEPT !.flushed = TRUE, !.exact = exact,
                      !.before = NoObject, !.shared = FALSE].flushed = TRUE
         /\ [c EXCEPT !.flushed = TRUE, !.exact = exact,
                      !.before = NoObject, !.shared = FALSE].exact = exact
         /\ [c EXCEPT !.flushed = TRUE, !.exact = exact,
                      !.before = NoObject, !.shared = FALSE].copied = c.copied
         /\ [c EXCEPT !.flushed = TRUE, !.exact = exact,
                      !.before = NoObject, !.shared = FALSE].operation = c.operation
         /\ [c EXCEPT !.flushed = TRUE, !.exact = exact,
                      !.before = NoObject, !.shared = FALSE].purpose = c.purpose
BY DEF CallRecord

LEMMA SawOn ==
  ASSUME IInv, NEW p \in Process, NEW point \in WritePoint, NEW c \in CallRecord,
         pc' = [pc EXCEPT ![p] = point], call' = [call EXCEPT ![p] = c],
         UNCHANGED returned, Unchanged,
         c.operation = call[p].operation, c.purpose = call[p].purpose
  PROVE  /\ CaptureGoesOn(p) /\ pc'[p] = point /\ call'[p] = c
         /\ object' = object /\ changes' = changes /\ observation' = observation
         /\ seen' = seen
<1>1. point \in Point
  BY DEF WritePoint, Point
<1>2. Moves(p) /\ pc'[p] = point /\ call'[p] = c
  BY <1>1, GoesOn
<1> QED BY <1>2, SameTarget DEF CaptureGoesOn, Unchanged

LEMMA NotCapturedKeeps ==
  ASSUME IInv, NEW p \in Process, pc[p] \in WritePoint, NotCaptured(p)
  PROVE  IInv'
<1>1. pc[p] # "idle"
  BY DEF WritePoint, Copying
<1>2. ~Recorded
  BY Parts, Distinct DEF Mine, Making, Recorded
<1> QED BY <1>1, <1>2, ReturnKeeps DEF NotCaptured

LEMMA StatSourceKeeps ==
  ASSUME IInv, NEW p \in Process, StatSource(p)
  PROVE  IInv'
<1> DEFINE c == [call[p] EXCEPT !.before = Stat(object)]
           point == CASE object.kind = "regular" -> "open"
                      [] object.kind = "symlink" -> "read_link"
                      [] OTHER -> "restat"
<1>0. pc[p] = "stat" /\ pc[p] \in WritePoint /\ ObserverInv /\ StoreTyped
  BY Parts DEF StatSource, WritePoint, Copying
<1>1. CASE MetadataMatches /\ object.kind # "socket"
  <2>1. object \in Objects /\ object.stamp <= changes /\ object # NoObject
        /\ object.kind = observation.kind /\ object.meta = observation.meta
    BY <1>0, <1>1 DEF MetadataMatches, ObserverInv, ObserverTyped
  <2>2. Stat(object) \in Stats /\ Stat(object).stamp <= changes
        /\ Stat(object).kind = object.kind /\ Stat(object).meta = object.meta
    BY <2>1 DEF Stat, Stats, Object, Objects
  <2>3. call[p] \in CallRecord
    BY <1>0 DEF StoreTyped
  <2>4. c \in CallRecord /\ c.before = Stat(object) /\ c.operation = call[p].operation
        /\ c.purpose = call[p].purpose
    BY <2>2, <2>3, CallFields
  <2>5. /\ point \in {"open", "read_link", "restat"}
        /\ point = "open" => object.kind = "regular"
        /\ point = "restat" => object.kind # "regular"
    OBVIOUS
  <2>6. /\ pc' = [pc EXCEPT ![p] = point] /\ call' = [call EXCEPT ![p] = c]
        /\ UNCHANGED returned /\ Unchanged
    BY <1>1 DEF StatSource, Saw, Goto
  <2>7. point \in WritePoint
    BY <2>5 DEF WritePoint, Copying
  <2>8. /\ CaptureGoesOn(p) /\ pc'[p] = point /\ call'[p] = c
        /\ object' = object /\ changes' = changes /\ observation' = observation
        /\ seen' = seen
    BY <2>4, <2>6, <2>7, SawOn
  <2>9. Copied(p)'
    BY <2>1, <2>2, <2>4, <2>5, <2>8 DEF Copied, Shown
  <2>10. pc'[p] # "link_record"
    BY <2>5, <2>8
  <2> QED BY <1>0, <2>8, <2>9, <2>10, CaptureKeeps
<1>2. CASE ~(MetadataMatches /\ object.kind # "socket")
  BY <1>0, <1>2, NotCapturedKeeps DEF StatSource
<1> QED BY <1>1, <1>2

LEMMA OpenSourceKeeps ==
  ASSUME IInv, NEW p \in Process, OpenSource(p)
  PROVE  IInv'
<1>0. pc[p] = "open" /\ pc[p] \in WritePoint /\ Mine(p) /\ StoreTyped
  BY Parts DEF OpenSource, WritePoint, Copying
<1>1. CASE Same(call[p].before)
  <2>1. call[p] \in CallRecord /\ "copy" \in WritePoint
    BY <1>0 DEF StoreTyped, WritePoint, Copying
  <2>2. /\ pc' = [pc EXCEPT ![p] = "copy"] /\ call' = [call EXCEPT ![p] = call[p]]
        /\ UNCHANGED returned /\ Unchanged
    BY <1>1 DEF OpenSource, Saw, Goto
  <2>3. /\ CaptureGoesOn(p) /\ pc'[p] = "copy" /\ call'[p] = call[p]
        /\ object' = object /\ changes' = changes /\ observation' = observation
        /\ seen' = seen
    BY <2>1, <2>2, SawOn
  <2>4. Copied(p)'
    BY <1>0, <2>3 DEF Mine, Copied, Shown
  <2> QED BY <1>0, <2>3, <2>4, CaptureKeeps
<1>2. CASE Throw(p)
  BY <1>0, <1>2, ThrowKeeps
<1>3. CASE NotCaptured(p)
  BY <1>0, <1>3, NotCapturedKeeps
<1> QED BY <1>1, <1>2, <1>3 DEF OpenSource

LEMMA CopySourceKeeps ==
  ASSUME IInv, NEW p \in Process, CopySource(p)
  PROVE  IInv'
<1> DEFINE c == [call[p] EXCEPT !.copied = ReadSome(call[p].before)]
<1>0. pc[p] = "copy" /\ pc[p] \in WritePoint /\ Mine(p) /\ StoreTyped /\ ObserverInv
  BY Parts DEF CopySource, WritePoint, Copying
<1>1. call[p] \in CallRecord /\ "copy_rest" \in WritePoint
  BY <1>0 DEF StoreTyped, WritePoint, Copying
<1>2. ReadSome(call[p].before) \in Bytes
  BY <1>0, <1>1 DEF CallRecord, ReadSome, Bytes, ObserverInv, ObserverTyped, Object, Objects
<1>3. /\ c \in CallRecord /\ c.copied = ReadSome(call[p].before)
      /\ c.before = call[p].before
      /\ c.operation = call[p].operation /\ c.purpose = call[p].purpose
  BY <1>1, <1>2, CallFields
<1>4. /\ pc' = [pc EXCEPT ![p] = "copy_rest"] /\ call' = [call EXCEPT ![p] = c]
      /\ UNCHANGED returned /\ Unchanged
  BY DEF CopySource, Saw, Goto
<1>5. /\ CaptureGoesOn(p) /\ pc'[p] = "copy_rest" /\ call'[p] = c
      /\ object' = object /\ changes' = changes /\ observation' = observation
      /\ seen' = seen
  BY <1>1, <1>3, <1>4, SawOn
<1>6. Same(call[p].before) => ReadSome(call[p].before) = object.content
  BY DEF Same, ReadSome, Stat
<1>7. Copied(p)'
  BY <1>0, <1>3, <1>5, <1>6 DEF Mine, Copied, Shown, Same
<1> QED BY <1>0, <1>5, <1>7, CaptureKeeps

LEMMA CopyRestKeeps ==
  ASSUME IInv, NEW p \in Process, CopyRest(p)
  PROVE  IInv'
<1> DEFINE rest == ReadRest(call[p].before, call[p].copied)
           c == [call[p] EXCEPT !.copied = rest]
<1>0. pc[p] = "copy_rest" /\ pc[p] \in WritePoint /\ Mine(p) /\ StoreTyped
  BY Parts DEF CopyRest, WritePoint, Copying
<1>1. call[p] \in CallRecord /\ "restat" \in WritePoint
  BY <1>0 DEF StoreTyped, WritePoint, Copying
<1>2. rest \in Bytes
  BY <1>1 DEF CallRecord, ReadRest, Bytes
<1>3. /\ c \in CallRecord /\ c.copied = rest /\ c.before = call[p].before
      /\ c.operation = call[p].operation /\ c.purpose = call[p].purpose
  BY <1>1, <1>2, CallFields
<1>4. /\ pc' = [pc EXCEPT ![p] = "restat"] /\ call' = [call EXCEPT ![p] = c]
      /\ UNCHANGED returned /\ Unchanged
  BY DEF CopyRest, Saw, Goto
<1>5. /\ CaptureGoesOn(p) /\ pc'[p] = "restat" /\ call'[p] = c
      /\ object' = object /\ changes' = changes /\ observation' = observation
      /\ seen' = seen
  BY <1>1, <1>3, <1>4, SawOn
<1>6. Same(call[p].before) => rest = object.content
  <2>1. Same(call[p].before) => call[p].copied = object.content
    BY <1>0 DEF Mine, Copied
  <2> QED BY <2>1 DEF Same, ReadSome, ReadRest, Stat
<1>7. Copied(p)'
  BY <1>0, <1>3, <1>5, <1>6 DEF Mine, Copied, Shown, Same
<1> QED BY <1>0, <1>5, <1>7, CaptureKeeps

LEMMA ReadLinkKeeps ==
  ASSUME IInv, NEW p \in Process, ReadLink(p)
  PROVE  IInv'
<1> DEFINE c == [call[p] EXCEPT !.copied = object.content]
<1>0. pc[p] = "read_link" /\ pc[p] \in WritePoint /\ Mine(p) /\ StoreTyped /\ ObserverInv
  BY Parts DEF ReadLink, WritePoint, Copying
<1>1. CASE object # NoObject /\ object.kind = "symlink"
  <2>1. call[p] \in CallRecord /\ "restat" \in WritePoint
    BY <1>0 DEF StoreTyped, WritePoint, Copying
  <2>2. object.content \in Bytes
    BY <1>0, <1>1 DEF Bytes, ObserverInv, ObserverTyped, Object, Objects
  <2>3. /\ c \in CallRecord /\ c.copied = object.content /\ c.before = call[p].before
        /\ c.operation = call[p].operation /\ c.purpose = call[p].purpose
    BY <2>1, <2>2, CallFields
  <2>4. /\ pc' = [pc EXCEPT ![p] = "restat"] /\ call' = [call EXCEPT ![p] = c]
        /\ UNCHANGED returned /\ Unchanged
    BY <1>1 DEF ReadLink, Saw, Goto
  <2>5. /\ CaptureGoesOn(p) /\ pc'[p] = "restat" /\ call'[p] = c
        /\ object' = object /\ changes' = changes /\ observation' = observation
        /\ seen' = seen
    BY <2>1, <2>3, <2>4, SawOn
  <2>6. Copied(p)'
    BY <1>0, <2>3, <2>5 DEF Mine, Copied, Shown
  <2> QED BY <1>0, <2>5, <2>6, CaptureKeeps
<1>2. CASE Throw(p)
  BY <1>0, <1>2, ThrowKeeps
<1>3. CASE NotCaptured(p)
  BY <1>0, <1>3, NotCapturedKeeps
<1> QED BY <1>1, <1>2, <1>3 DEF ReadLink

LEMMA RestatKeeps ==
  ASSUME IInv, NEW p \in Process, Restat(p)
  PROVE  IInv'
<1> DEFINE before == call[p].before
           copied == IF before.kind \in {"regular", "symlink"} THEN call[p].copied
                     ELSE object.content
<1>0. pc[p] = "restat" /\ pc[p] \in WritePoint /\ Mine(p) /\ StoreTyped /\ ObserverInv
  BY Parts DEF Restat, WritePoint, Copying
<1>1. call[p] \in CallRecord /\ "sync_payload" \in WritePoint /\ "link_record" \in WritePoint
  BY <1>0 DEF StoreTyped, WritePoint, Copying
<1>2. before.kind = observation.kind /\ before.meta = observation.meta
  BY <1>0 DEF Mine, Copied
<1>3. observation \in Facts
  BY <1>0, Begun
<1>4. CASE Same(before) /\ copied = observation.content /\ before.kind = "regular"
  <2> DEFINE c == [call[p] EXCEPT !.shared = object.shared]
  <2>1. object # NoObject /\ object \in Object /\ Stat(object) = before
    BY <1>0, <1>4 DEF Same, ObserverInv, ObserverTyped, Objects
  <2>2. object.kind = observation.kind /\ object.meta = observation.meta
    BY <1>2, <2>1 DEF Stat
  <2>3. call[p].copied = object.content /\ call[p].copied = observation.content
    BY <1>0, <1>2, <1>4 DEF Mine, Copied
  <2>4. /\ Snapshot(object) \in seen /\ Agrees(Snapshot(object), observation)
        /\ Snapshot(object).shared = object.shared
    BY <1>0, <1>3, <2>1, <2>2, <2>3 DEF ObserverInv, Seen, Agrees, Snapshot
  <2>5. /\ c \in CallRecord /\ c.shared = object.shared /\ c.copied = call[p].copied
        /\ c.operation = call[p].operation /\ c.purpose = call[p].purpose
    BY <1>1, <2>1, CallFields DEF Object
  <2>6. /\ pc' = [pc EXCEPT ![p] = "sync_payload"] /\ call' = [call EXCEPT ![p] = c]
        /\ UNCHANGED returned /\ Unchanged
    BY <1>4 DEF Restat, Accept, Saw, Goto
  <2>7. /\ CaptureGoesOn(p) /\ pc'[p] = "sync_payload" /\ call'[p] = c
        /\ object' = object /\ changes' = changes /\ observation' = observation
        /\ seen' = seen
    BY <1>1, <2>5, <2>6, SawOn
  <2>8. Copied(p)'
    BY <1>2, <1>4, <2>3, <2>4, <2>5, <2>7 DEF Copied
  <2> QED BY <1>0, <2>7, <2>8, CaptureKeeps
<1>5. CASE Same(before) /\ copied = observation.content /\ before.kind # "regular"
  <2> DEFINE c == [call[p] EXCEPT !.before = NoObject, !.copied = NoContent]
  <2>1. /\ c \in CallRecord
        /\ c.operation = call[p].operation /\ c.purpose = call[p].purpose
    BY <1>1, CallForgets
  <2>2. /\ pc' = [pc EXCEPT ![p] = "link_record"] /\ call' = [call EXCEPT ![p] = c]
        /\ UNCHANGED returned /\ Unchanged
    BY <1>5 DEF Restat, Accept, Saw, Goto
  <2>3. /\ CaptureGoesOn(p) /\ pc'[p] = "link_record" /\ call'[p] = c
        /\ object' = object /\ changes' = changes /\ observation' = observation
        /\ seen' = seen
    BY <1>1, <2>1, <2>2, SawOn
  <2>4. Copied(p)' /\ PayloadVerifies
    BY <1>2, <1>5, <2>3 DEF Copied, PayloadVerifies
  <2> QED BY <1>0, <2>3, <2>4, CaptureKeeps
<1>6. CASE ~(Same(before) /\ copied = observation.content)
  BY <1>0, <1>6, NotCapturedKeeps DEF Restat
<1> QED BY <1>4, <1>5, <1>6

LEMMA SyncPayloadKeeps ==
  ASSUME IInv, NEW p \in Process, SyncPayload(p)
  PROVE  IInv'
<1> DEFINE c == [call[p] EXCEPT !.flushed = TRUE, !.exact = LinkProven(p),
                                !.before = NoObject, !.shared = FALSE]
<1>0. pc[p] = "sync_payload" /\ pc[p] \in WritePoint /\ Mine(p) /\ StoreTyped
  BY Parts DEF SyncPayload, Synced, WritePoint, Copying
<1>1. call[p] \in CallRecord /\ "link_payload" \in WritePoint
  BY <1>0 DEF StoreTyped, WritePoint
<1>2. CASE observation.hardlink /\ ~call[p].shared
  BY <1>0, <1>2, NotCapturedKeeps DEF SyncPayload, Synced
<1>3. CASE ~(observation.hardlink /\ ~call[p].shared)
  <2>1. LinkProven(p) \in BOOLEAN
    BY DEF LinkProven
  <2>2. LinkProven(p) => Single
    <3>1. PICK s \in seen : Agrees(s, observation) /\ s.shared = call[p].shared
      BY <1>0 DEF Mine, Copied
    <3>2. CASE call[p].shared
      BY <3>2 DEF LinkProven, Single
    <3>3. CASE ~call[p].shared
      BY <3>1, <3>3 DEF Single
    <3> QED BY <3>2, <3>3
  <2>3. /\ c \in CallRecord /\ c.flushed = TRUE /\ c.exact = LinkProven(p)
        /\ c.copied = call[p].copied
        /\ c.operation = call[p].operation /\ c.purpose = call[p].purpose
    BY <1>1, <2>1, CallSynced
  <2>4. /\ pc' = [pc EXCEPT ![p] = "link_payload"] /\ call' = [call EXCEPT ![p] = c]
        /\ UNCHANGED returned /\ Unchanged
    BY <1>3 DEF SyncPayload, Synced, Saw, Goto
  <2>5. /\ CaptureGoesOn(p) /\ pc'[p] = "link_payload" /\ call'[p] = c
        /\ object' = object /\ changes' = changes /\ observation' = observation
        /\ seen' = seen
    BY <1>1, <2>3, <2>4, SawOn
  <2>6. call[p].copied = observation.content /\ observation.kind = "regular"
    BY <1>0 DEF Mine, Copied
  <2>7. Single' <=> Single
    BY <2>5 DEF Single
  <2>8. Copied(p)'
    BY <2>2, <2>3, <2>5, <2>6, <2>7 DEF Copied
  <2> QED BY <1>0, <2>5, <2>8, CaptureKeeps
<1> QED BY <1>2, <1>3

\* The bytes of an observed file are those of a file.
LEMMA ObservedBytes ==
  ASSUME ObserverInv, observation \in Facts, observation.kind = "regular"
  PROVE  observation.content \in Content
BY DEF ObserverInv, ObserverTyped, ObservedAtOnce, Agrees, Snapshots

LEMMA PublishPayloadKeeps ==
  ASSUME IInv, NEW p \in Process, PublishPayload(p)
  PROVE  IInv'
<1>0. /\ StoreTyped /\ Sound /\ Locked /\ Trusted /\ ExactIsProven /\ Answered
      /\ Confirmed /\ Mine(p) /\ ObserverInv
      /\ pc[p] = "link_payload" /\ pc[p] \in WritePoint
  BY Parts DEF PublishPayload, Step, Throw, WritePoint
<1>1. observation \in Facts
  BY <1>0, Begun
<1>2. "link_record" \in WritePoint /\ "link_record" \in Point
  BY DEF WritePoint, Point
<1>3. CASE files["payload"] = Absent
  <2>1. /\ pc' = [pc EXCEPT ![p] = "link_record"] /\ call' = call /\ returned' = returned
        /\ files' = [files EXCEPT !["payload"] = call[p].copied]
        /\ loose' = (IF call[p].flushed THEN loose \ {"payload"} ELSE loose \cup {"payload"})
        /\ UNCHANGED <<dir, dirDisk, disk>>
        /\ UNCHANGED <<observing, world, locks, history>>
    BY <1>3 DEF PublishPayload, Step, Goto, Link
  <2>2. /\ writer' = writer /\ readers' = readers /\ answers' = answers
        /\ confirmed' = confirmed /\ lost' = lost /\ observation' = observation
        /\ seen' = seen
    BY <2>1, SameTarget DEF locks, history
  <2>3. pc'[p] = "link_record" /\ \A q \in Process \ {p} : pc'[q] = pc[q]
    BY <1>0, <2>1 DEF StoreTyped
  <2>4. /\ observation.kind = "regular" /\ call[p].copied = observation.content
        /\ call[p].flushed /\ call[p].copied \in Content
        /\ call[p].exact => Single
    BY <1>0, <1>1, ObservedBytes DEF Mine, Copied
  <2>5. /\ files' \in Files /\ files'["binding"] = files["binding"]
        /\ files'["payload"] = observation.content /\ files'["record"] = files["record"]
    BY <1>0, <2>1, <2>4, PayloadLinked DEF StoreTyped
  <2>6. StoreTyped'
    BY <1>0, <1>2, <2>1, <2>2, <2>5 DEF StoreTyped
  <2>7. files["record"] = Absent /\ writer = p
    BY <1>0 DEF Mine, Making, Held
  <2>8. Alike(p) /\ Writes(p)
    BY <2>1, <2>2, <2>3, <2>7 DEF Alike, Writes
  <2>9. Sound'
    BY <1>0, <1>3, <2>1, <2>2, <2>4, <2>5, Names DEF Sound, NoDebris, StoreTyped
  <2>10. Locked' /\ Trusted' /\ Answered' /\ ExactIsProven'
    BY <1>0, <2>2, <2>5, <2>7, Distinct
    DEF Locked, Trusted, Recorded, Answered, ExactIsProven
  <2>11. Confirmed'
    <3>1. confirmed = Absent
      BY <1>0, <2>7 DEF Confirmed
    <3>2. \A q \in Process : pc[q] # "sync_store"
      <4>1. readers = {}
        BY <1>0, <2>7, CaptureStoreAssumption DEF Locked
      <4> QED BY <4>1, Parts DEF Mine, Held, SyncPoint
    <3> QED BY <2>2, <2>3, <3>1, <3>2 DEF Confirmed
  <2>12. Mine(p)'
    <3>1. Shape(p)' /\ Held(p)' /\ Making(p)'
      BY <1>0, <1>2, <2>1, <2>2, <2>3, <2>5, <2>7
      DEF Mine, Shape, Held, Making, PayloadVerifies, SyncPoint
    <3>2. Single' <=> Single
      BY <2>2 DEF Single
    <3>3. Copied(p)'
      BY <2>1, <2>2, <2>3, <2>4, <3>2 DEF Copied
    <3> QED BY <3>1, <3>3 DEF Mine
  <2> QED BY <1>1, <2>6, <2>8, <2>9, <2>10, <2>11, <2>12, StepKeeps
<1>4. CASE files["payload"] # Absent /\ PayloadVerifies
  <2>1. Moves(p) /\ pc'[p] = "link_record" /\ call'[p] = call[p]
    BY <1>2, <1>4, StepsOn DEF PublishPayload, Step, Goto
  <2>2. CaptureGoesOn(p)
    BY <1>2, <2>1 DEF CaptureGoesOn
  <2>3. observation' = observation /\ seen' = seen
    BY <2>1, SameTarget DEF Moves, Unchanged
  <2>4. Copied(p)'
    BY <1>0, <2>1, <2>3 DEF Mine, Copied, Single
  <2> QED BY <1>0, <1>4, <2>2, <2>4, CaptureKeeps
<1>5. CASE files["payload"] # Absent /\ ~PayloadVerifies
  BY <1>0, <1>5, ThrowKeeps DEF PublishPayload
<1> QED BY <1>3, <1>4, <1>5

LEMMA PublishRecordKeeps ==
  ASSUME IInv, NEW p \in Process, PublishRecord(p)
  PROVE  IInv'
<1> DEFINE record == [purpose |-> call[p].purpose, exact |-> call[p].exact]
<1>0. /\ StoreTyped /\ Sound /\ Locked /\ Trusted /\ ExactIsProven /\ Answered
      /\ Confirmed /\ Mine(p)
      /\ pc[p] = "link_record" /\ pc[p] \in WritePoint
  BY Parts DEF PublishRecord, WritePoint
<1>1. observation \in Facts
  BY <1>0, Begun
<1>2. /\ files["record"] = Absent /\ writer = p /\ PayloadVerifies
      /\ observation.kind = "regular" /\ call[p].exact => Single
      /\ call[p].operation = "capture" /\ call[p].purpose \in Purpose
  BY <1>0 DEF Mine, Making, Held, Copied, Shape
<1>3. record \in Record /\ record.exact = call[p].exact /\ record.exact \in BOOLEAN
  BY <1>0, <1>2 DEF StoreTyped, CallRecord, Record
<1>4. /\ Close(p) /\ returned' = returned \cup {p}
      /\ answers' = answers \cup {record.exact}
      /\ files' = [files EXCEPT !["record"] = record]
      /\ loose' = loose \ {"record"}
      /\ UNCHANGED <<dir, dirDisk, disk, observing, world, confirmed, lost>>
  BY <1>2 DEF PublishRecord, Report, Link
<1>5. observation' = observation /\ seen' = seen
  BY <1>4, SameTarget
<1>6. /\ files' \in Files /\ files'["binding"] = files["binding"]
      /\ files'["payload"] = files["payload"] /\ files'["record"] = record
  BY <1>0, <1>3, <1>4, RecordLinked DEF StoreTyped
<1>7. StoreTyped'
  <2>1. returned' \subseteq Process /\ answers' \subseteq BOOLEAN
    BY <1>0, <1>3, <1>4 DEF StoreTyped
  <2> QED BY <1>0, <1>4, <1>6, <2>1, CloseEffect DEF StoreTyped
<1>8. Alike(p)
  BY <1>0, <1>4, CloseEffect DEF Alike
<1>9. Writes(p)
  BY <1>2 DEF Writes
<1>10. Sound'
  BY <1>0, <1>2, <1>3, <1>4, <1>5, <1>6, Distinct, Names DEF Sound, NoDebris, StoreTyped
<1>11. Locked' /\ Mine(p)'
  BY <1>0, <1>4, CloseEffect, IdleIsMine
<1>12. Trusted'
  BY <1>2, <1>5, <1>6 DEF Trusted, PayloadVerifies
<1>13. ExactIsProven'
  <2>1. Single' <=> Single
    BY <1>5 DEF Single
  <2> QED BY <1>2, <1>3, <1>5, <1>6, <2>1 DEF ExactIsProven
<1>14. Answered'
  <2>1. answers = {}
    BY <1>0, <1>2, Distinct DEF Answered, Recorded
  <2> QED BY <1>3, <1>4, <1>6, <2>1 DEF Answered, Recorded
<1>15. Confirmed'
  <2>1. confirmed' = Absent
    BY <1>0, <1>2, <1>4 DEF Confirmed
  <2>2. \A q \in Process : pc'[q] # "sync_store"
    <3>1. readers = {}
      BY <1>0, <1>2, CaptureStoreAssumption DEF Locked
    <3>2. \A q \in Process : pc[q] # "sync_store"
      BY <3>1, Parts DEF Mine, Held, SyncPoint
    <3> QED BY <1>0, <1>4, <3>2, CloseEffect
  <2> QED BY <2>1, <2>2 DEF Confirmed
<1> QED BY <1>1, <1>7, <1>8, <1>9, <1>10, <1>11, <1>12, <1>13, <1>14, <1>15, StepKeeps

-----------------------------------------------------------------------------
(* The steps of synchronize, and power losses.                             *)

LEMMA SyncAttemptKeeps ==
  ASSUME IInv, NEW p \in Process, SyncAttempt(p)
  PROVE  IInv'
<1>0. /\ StoreTyped /\ Sound /\ Locked /\ Trusted /\ ExactIsProven /\ Answered
      /\ Confirmed /\ Mine(p)
  BY Parts
<1>1. /\ pc[p] = "sync_attempt" /\ pc' = [pc EXCEPT ![p] = "sync_store"]
      /\ call' = call /\ returned' = returned /\ disk' = files
      /\ UNCHANGED <<observing, world, dir, dirDisk, files, loose, locks, history>>
  BY DEF SyncAttempt, Step, Goto
<1>2. observation \in Facts
  BY <1>1, Begun
<1>3. /\ writer' = writer /\ readers' = readers /\ answers' = answers
      /\ confirmed' = confirmed /\ lost' = lost /\ observation' = observation
      /\ seen' = seen
  BY <1>1, SameTarget DEF locks, history
<1>4. pc'[p] = "sync_store" /\ \A q \in Process \ {p} : pc'[q] = pc[q]
  BY <1>0, <1>1 DEF StoreTyped
<1>5. StoreTyped'
  <2>1. "sync_store" \in Point
    BY DEF Point
  <2> QED BY <1>0, <1>1, <1>3, <2>1 DEF StoreTyped
<1>6. Alike(p) /\ Writes(p)
  BY <1>1, <1>3, <1>4 DEF Alike, Writes
<1>7. Sound' /\ Locked' /\ Trusted' /\ Answered'
  BY <1>0, <1>1, <1>3
  DEF Sound, NoDebris, Locked, Trusted, Recorded, PayloadVerifies, Answered
<1>8. Confirmed'
  BY <1>0, <1>1, <1>3 DEF Confirmed, Flushed
<1>9. ExactIsProven'
  BY <1>0, <1>1, <1>3 DEF ExactIsProven, Recorded, Single
<1>10. Mine(p)'
  <2>1. Shape(p)' /\ Held(p)'
    BY <1>0, <1>1, <1>3, <1>4 DEF Mine, Shape, Held, WritePoint, Copying, SyncPoint
  <2> QED BY <1>4, <2>1, EarlyIsMine DEF EarlyPoint
<1> QED BY <1>2, <1>5, <1>6, <1>7, <1>8, <1>9, <1>10, StepKeeps

LEMMA SyncStoreKeeps ==
  ASSUME IInv, NEW p \in Process, SyncStore(p)
  PROVE  IInv'
<1>0. /\ StoreTyped /\ Sound /\ Locked /\ Trusted /\ ExactIsProven /\ Answered
      /\ Confirmed /\ Mine(p)
  BY Parts
<1>1. /\ pc[p] = "sync_store" /\ Close(p) /\ dirDisk' = TRUE
      /\ confirmed' = files["record"]
      /\ UNCHANGED <<observing, world, dir, files, disk, loose, returned, answers, lost>>
  BY DEF SyncStore
<1>2. observation \in Facts
  BY <1>1, Begun
<1>3. observation' = observation /\ seen' = seen
  BY <1>1, SameTarget
<1>4. dir /\ p \in returned
  BY <1>0, <1>1 DEF Mine, Shape, SyncPoint
<1>5. StoreTyped'
  <2>1. confirmed' \in Record \cup {Absent}
    BY <1>0, <1>1, Names DEF StoreTyped, Sound, NoDebris
  <2> QED BY <1>0, <1>1, <2>1, CloseEffect DEF StoreTyped
<1>6. Alike(p)
  BY <1>0, <1>1, CloseEffect DEF Alike
<1>7. Writes(p)
  BY <1>1 DEF Writes
<1>8. Sound' /\ Trusted' /\ Answered'
  BY <1>0, <1>1, <1>3, <1>4
  DEF Sound, NoDebris, Trusted, Recorded, PayloadVerifies, Answered
<1>9. Locked' /\ Mine(p)'
  BY <1>0, <1>1, CloseEffect, IdleIsMine
<1>10. ExactIsProven'
  BY <1>0, <1>1, <1>3 DEF ExactIsProven, Recorded, Single
<1>11. Confirmed'
  <2>1. Flushed'
    BY <1>0, <1>1 DEF Confirmed, Flushed
  <2> QED BY <1>1, <2>1 DEF Confirmed
<1> QED BY <1>2, <1>5, <1>6, <1>7, <1>8, <1>9, <1>10, <1>11, StepKeeps

LEMMA PowerLossKeeps ==
  ASSUME IInv, PowerLoss
  PROVE  IInv'
<1>0. /\ ObserverInv /\ StoreTyped /\ Admitted /\ Sound /\ Trusted /\ ExactIsProven
      /\ Answered /\ Confirmed
  BY Parts
<1>1. /\ dir /\ dir' \in {TRUE, dirDisk} /\ dirDisk' = dir'
      /\ disk' = files' /\ loose' = {} /\ writer' = NoProcess /\ readers' = {}
      /\ pc' = [p \in Process |-> "idle"] /\ call' = [p \in Process |-> NoCall]
      /\ returned' = {} /\ lost' = TRUE
      /\ answers' = (IF confirmed = Absent THEN {} ELSE answers)
      /\ UNCHANGED <<observing, world, confirmed>>
  BY DEF PowerLoss
<1>2. PICK kept \in SUBSET Name :
        files' = [n \in Name |->
                    IF ~dir' THEN Absent
                    ELSE IF n \notin kept THEN disk[n]
                    ELSE IF n \in loose THEN Empty ELSE files[n]]
  BY DEF PowerLoss
<1>3. /\ observation' = observation /\ seen' = seen /\ observation \in Facts
      /\ ObserverInv'
  BY <1>0, <1>1, SameTarget, ObserverSame DEF Admitted
<1>4. /\ \A n \in Name : files'[n] = Absent \/ files'[n] = files[n]
      /\ \A n \in Name : dir' => files'[n] = disk[n] \/ files'[n] = files[n]
  BY <1>0, <1>2 DEF Sound
<1>5. files' \in Files
  <2>1. files' \in [Name -> Content \cup {Absent, Empty, Bound} \cup Record]
    <3>1. /\ files \in [Name -> Content \cup {Absent, Empty, Bound} \cup Record]
          /\ disk \in [Name -> Content \cup {Absent, Empty, Bound} \cup Record]
      BY <1>0 DEF StoreTyped, Files
    <3> QED BY <1>2, <3>1
  <2> QED BY <1>0, <1>4, <2>1, Names DEF StoreTyped, Files
<1>6. /\ pc' \in [Process -> Point] /\ call' \in [Process -> CallRecord]
      /\ \A p \in Process : pc'[p] = "idle" /\ call'[p] = NoCall
  BY <1>1, NoCallTyped DEF Point
<1>7. StoreTyped'
  BY <1>0, <1>1, <1>5, <1>6 DEF StoreTyped
<1>8. Sound'
  BY <1>0, <1>1, <1>3, <1>4, Names, Distinct DEF Sound, NoDebris, StoreTyped
<1>9. Locked' /\ Admitted' /\ \A p \in Process : Mine(p)'
  BY <1>1, <1>3, <1>6, IdleIsMine DEF Locked, Admitted
<1>10. ExactIsProven'
  <2>1. files'["record"] = Absent \/ files'["record"] = files["record"]
    BY <1>0, <1>4, Names DEF StoreTyped
  <2>2. Single' <=> Single
    BY <1>3 DEF Single
  <2> QED BY <1>0, <1>3, <2>1, <2>2, Distinct DEF ExactIsProven, Recorded
<1>11. ASSUME confirmed # Absent
       PROVE  /\ dir' /\ files'["record"] = files["record"]
              /\ files'["payload"] = files["payload"] /\ files["record"] = confirmed
  <2>1. /\ dirDisk /\ files["record"] = confirmed
        /\ disk["record"] = files["record"] /\ disk["payload"] = files["payload"]
    BY <1>0, <1>11 DEF Confirmed, Flushed
  <2>2. dir'
    BY <1>1, <2>1
  <2>3. "record" \in Name /\ "payload" \in Name
    BY DEF Name
  <2> QED BY <1>4, <2>1, <2>2, <2>3
<1>12. Trusted' /\ Answered'
  BY <1>0, <1>1, <1>3, <1>11
  DEF Trusted, Answered, Recorded, PayloadVerifies
<1>13. Confirmed'
  BY <1>1, <1>6, <1>11 DEF Confirmed, Flushed
<1> QED BY <1>3, <1>7, <1>8, <1>9, <1>10, <1>12, <1>13
        DEF IInv, Typed, ObserverInv, Mine

-----------------------------------------------------------------------------
(* The theorems.                                                           *)

LEMMA InitIInv ==
  ASSUME CaptureInit
  PROVE  IInv
<1>1. ObserverInit
  BY DEF CaptureInit
<1>2. PICK kind \in Kind, meta \in Meta, shared \in BOOLEAN :
        \E content \in ContentOf(kind) :
          object = [kind |-> kind, id |-> 1, meta |-> meta, content |-> content,
                    shared |-> shared, stamp |-> 0]
  BY <1>1 DEF ObserverInit
<1>3. PICK content \in ContentOf(kind) :
        object = [kind |-> kind, id |-> 1, meta |-> meta, content |-> content,
                  shared |-> shared, stamp |-> 0]
  BY <1>2
<1>4. object \in Objects /\ object.stamp = 0
  BY <1>3, ContentOfKind, TargetObserverAssumption DEF Object, Objects
<1>5. /\ changes = 0 /\ watch = Watching("stat", NoObject, NoContent)
      /\ observation = Unobserved /\ seen = {Snapshot(object)}
  BY <1>1 DEF ObserverInit
<1>6. ObserverInv
  <2>1. watch \in Watches /\ watch.point = "stat"
    BY <1>5 DEF Watching, Watches, Bytes
  <2>2. ObserverTyped
    BY <1>4, <1>5, <2>1, SnapshotTyped, TargetObserverAssumption DEF ObserverTyped
  <2>3. Watched /\ Seen /\ ObservedAtOnce
    BY <1>5, <2>1, TargetObserverValues DEF Watched, Seen, ObservedAtOnce
  <2> QED BY <2>2, <2>3 DEF ObserverInv
<1>7. /\ world \in Worlds /\ dir = FALSE /\ dirDisk = FALSE
      /\ files = NoFiles /\ disk = NoFiles /\ loose = {}
      /\ writer = NoProcess /\ readers = {}
      /\ pc = [p \in Process |-> "idle"] /\ call = [p \in Process |-> NoCall]
      /\ returned = {} /\ answers = {} /\ confirmed = Absent /\ lost = FALSE
  BY DEF CaptureInit
<1>8. NoFiles \in Files /\ \A n \in Name : NoFiles[n] = Absent
  BY DEF NoFiles, Files, Name
<1>9. StoreTyped
  <2>1. pc \in [Process -> Point] /\ call \in [Process -> CallRecord]
    BY <1>7, NoCallTyped DEF Point
  <2> QED BY <1>7, <1>8, <2>1 DEF StoreTyped
<1>10. ~Recorded
  BY <1>7, <1>8, Distinct DEF Recorded, Name
<1>11. Admitted /\ Sound /\ Locked /\ Trusted /\ ExactIsProven /\ Answered /\ Confirmed
  BY <1>7, <1>8, <1>10, Distinct
  DEF Admitted, Sound, NoDebris, Locked, Trusted, ExactIsProven, Answered, Confirmed, Name
<1>12. ASSUME NEW p \in Process
       PROVE  Shape(p) /\ Held(p) /\ Copied(p) /\ Making(p)
  <2>1. pc[p] = "idle" /\ call[p].operation = "none"
    BY <1>7 DEF NoCall, Calling
  <2> QED BY <2>1 DEF Shape, Held, Copied, Making, WritePoint, Copying, SyncPoint
<1> QED BY <1>6, <1>9, <1>11, <1>12 DEF IInv, Typed, ObserverInv

LEMMA RunKeeps ==
  ASSUME IInv, NEW p \in Process, Run(p)
  PROVE  IInv'
BY StartKeeps, MakeDirectoryKeeps, OpenDirectoryKeeps, PublishBindingKeeps,
   TakeLockKeeps, LookAtRecordKeeps, StatSourceKeeps, OpenSourceKeeps,
   CopySourceKeeps, CopyRestKeeps, ReadLinkKeeps, RestatKeeps, SyncPayloadKeeps,
   PublishPayloadKeeps, PublishRecordKeeps, SyncAttemptKeeps, SyncStoreKeeps,
   StopKeeps
DEF Run

LEMMA VarsKept ==
  ASSUME IInv, UNCHANGED vars
  PROVE  IInv'
<1>1. /\ UNCHANGED <<observing, world, storage>>
      /\ writer' = writer /\ readers' = readers /\ pc' = pc /\ call' = call
      /\ returned' = returned /\ answers' = answers /\ confirmed' = confirmed
      /\ lost' = lost
  BY DEF vars, locks, working, history
<1>2. /\ object' = object /\ observation' = observation /\ seen' = seen
      /\ changes' = changes /\ world' = world
      /\ dir' = dir /\ dirDisk' = dirDisk /\ files' = files /\ disk' = disk
      /\ loose' = loose
  BY <1>1, SharedSame, SameTarget
<1>3. ObserverInv'
  BY <1>1, Parts, ObserverSame
<1>4. StoreTyped' /\ Admitted' /\ Locked'
  BY <1>1, <1>2, Parts DEF StoreTyped, Admitted, Locked
<1>5. Sound' /\ Trusted' /\ ExactIsProven' /\ Answered' /\ Confirmed'
  BY <1>1, <1>2, Parts
  DEF Sound, NoDebris, Trusted, ExactIsProven, Answered, Confirmed, Recorded,
      PayloadVerifies, Flushed, Single
<1>6. \A p \in Process : Mine(p)'
  BY <1>1, <1>2, Parts
  DEF Mine, Shape, Held, Copied, Making, Single, Shown, Same, PayloadVerifies
<1> QED BY <1>3, <1>4, <1>5, <1>6 DEF IInv, Typed, ObserverInv, Mine

\* The inductive invariant: what an observer or a capture has read is of the
\* object it saw if that is there unchanged; a record is made by the one writer
\* after its payload; what synchronize flushed is what is there
\* (capture_source, capture, synchronize).
THEOREM CaptureInvariant == CaptureSpec => []IInv
<1>1. CaptureInit => IInv
  BY InitIInv
<1>2. IInv /\ [CaptureNext]_vars => IInv'
  <2> SUFFICES ASSUME IInv, [CaptureNext]_vars PROVE IInv'
    OBVIOUS
  <2>1. CASE Others /\ UNCHANGED <<world, storage, locks, working, history>>
    BY <2>1, OthersKeepIInv
  <2>2. ASSUME NEW p \in Process, Run(p) PROVE IInv'
    BY <2>2, RunKeeps
  <2>3. CASE PowerLoss
    BY <2>3, PowerLossKeeps
  <2>4. CASE UNCHANGED vars
    BY <2>4, VarsKept
  <2> QED BY <2>1, <2>2, <2>3, <2>4 DEF CaptureNext
<1> QED BY <1>1, <1>2, PTL DEF CaptureSpec

\* An observation was true of the path at one moment (observe_one).
THEOREM ObservedOnce == CaptureSpec => []ObservedAtOnce
<1>1. IInv => ObservedAtOnce
  BY DEF IInv
<1> QED BY <1>1, CaptureInvariant, PTL

\* No call makes a record without its payload, or takes the payload of one.
LEMMA RunHasPayload ==
  ASSUME IInv, NEW p \in Process, Run(p), HasPayload
  PROVE  HasPayload'
<1>0. StoreTyped /\ Mine(p) /\ "record" \in Name /\ "payload" \in Name
  BY Parts DEF Name
<1>1. ASSUME files' = files, UNCHANGED observing
      PROVE  HasPayload'
  BY <1>1, SameTarget DEF HasPayload, Recorded, PayloadVerifies
<1>2. ASSUME Unchanged \/ Throw(p)
      PROVE  HasPayload'
  BY <1>1, <1>2 DEF Unchanged, Throw, storage
<1>3. ASSUME Return(p), UNCHANGED storage
      PROVE  HasPayload'
  BY <1>1, <1>3 DEF Return, storage
<1>4. CASE Start(p) \/ OpenDirectory(p) \/ TakeLock(p) \/ MakeDirectory(p)
  <2>1. UNCHANGED observing /\ files' = files
    BY <1>4 DEF Start, OpenDirectory, TakeLock, MakeDirectory, Unchanged, Throw, storage
  <2> QED BY <1>1, <2>1
<1>5. CASE PublishBinding(p)
  <2>1. CASE files["binding"] = Absent
    <3>1. files' = [files EXCEPT !["binding"] = Bound] /\ UNCHANGED observing
      BY <1>5, <2>1 DEF PublishBinding, Link
    <3>2. files'["record"] = files["record"] /\ files'["payload"] = files["payload"]
      BY <1>0, <3>1, BindingLinked DEF StoreTyped
    <3> QED BY <3>1, <3>2, SameTarget DEF HasPayload, Recorded, PayloadVerifies
  <2>2. CASE files["binding"] # Absent
    BY <1>2, <1>5, <2>2 DEF PublishBinding
  <2> QED BY <2>1, <2>2
<1>6. CASE LookAtRecord(p)
  <2>1. \/ Unchanged \/ Throw(p)
        \/ Return(p) /\ UNCHANGED storage
        \/ Report(p, files["record"]) /\ UNCHANGED storage
    BY <1>6 DEF LookAtRecord
  <2>2. CASE Report(p, files["record"]) /\ UNCHANGED storage
    BY <1>1, <2>2 DEF Report, storage
  <2> QED BY <1>2, <1>3, <2>1, <2>2
<1>7. CASE StatSource(p) \/ OpenSource(p) \/ CopySource(p) \/ CopyRest(p) \/ ReadLink(p)
  <2>1. Unchanged \/ Throw(p) \/ (Return(p) /\ UNCHANGED storage)
    BY <1>7 DEF StatSource, OpenSource, CopySource, CopyRest, ReadLink, Saw, NotCaptured
  <2> QED BY <1>2, <1>3, <2>1
<1>8. CASE Restat(p) \/ SyncPayload(p)
  <2>1. Unchanged \/ (Return(p) /\ UNCHANGED storage)
    BY <1>8 DEF Restat, Accept, SyncPayload, Synced, Saw, NotCaptured
  <2> QED BY <1>2, <1>3, <2>1
<1>9. CASE PublishPayload(p)
  <2>1. CASE files["payload"] = Absent
    <3>1. /\ pc[p] = "link_payload" /\ UNCHANGED observing
          /\ files' = [files EXCEPT !["payload"] = call[p].copied]
      BY <1>9, <2>1 DEF PublishPayload, Step, Link
    <3>2. call[p].copied = observation.content
      BY <1>0, <3>1 DEF Mine, Copied
    <3>3. files'["record"] = files["record"] /\ files'["payload"] = call[p].copied
      BY <1>0, <3>1 DEF StoreTyped, Files
    <3> QED BY <3>1, <3>2, <3>3, SameTarget DEF HasPayload, PayloadVerifies
  <2>2. CASE files["payload"] # Absent
    BY <1>2, <1>9, <2>2 DEF PublishPayload
  <2> QED BY <2>1, <2>2
<1>10. CASE PublishRecord(p)
  <2> DEFINE record == [purpose |-> call[p].purpose, exact |-> call[p].exact]
  <2>1. pc[p] = "link_record"
    BY <1>10 DEF PublishRecord
  <2>2. files["record"] = Absent /\ PayloadVerifies
    BY <1>0, <2>1 DEF Mine, Making, WritePoint
  <2>3. files' = [files EXCEPT !["record"] = record] /\ UNCHANGED observing
    BY <1>10, <2>2 DEF PublishRecord, Link, Report
  <2>4. files'["payload"] = files["payload"]
    BY <1>0, <2>3 DEF StoreTyped, Files
  <2> QED BY <2>2, <2>3, <2>4, SameTarget DEF HasPayload, PayloadVerifies
<1>11. CASE SyncAttempt(p) \/ SyncStore(p) \/ Stop(p)
  <2>1. UNCHANGED observing /\ files' = files
    BY <1>11 DEF SyncAttempt, SyncStore, Stop, storage
  <2> QED BY <1>1, <2>1
<1> QED BY <1>4, <1>5, <1>6, <1>7, <1>8, <1>9, <1>10, <1>11 DEF Run

\* The target may change, but what was observed of it stays what is recorded.
LEMMA OthersHavePayload ==
  ASSUME IInv, Others, UNCHANGED <<world, storage, locks, working, history>>, HasPayload
  PROVE  HasPayload'
<1>1. files' = files
  BY DEF storage
<1>2. CASE observation \in Facts
  BY <1>1, <1>2, OthersLater, Parts DEF HasPayload, Recorded, PayloadVerifies
<1>3. CASE observation \notin Facts
  <2>1. files = NoFiles
    BY <1>3, Parts DEF Admitted
  <2> QED BY <1>1, <2>1, Distinct DEF HasPayload, Recorded, NoFiles, Name
<1> QED BY <1>2, <1>3

\* Nor does a loss of power, once a synchronize has returned.
LEMMA PowerHasPayload ==
  ASSUME IInv, PowerLoss, confirmed # Absent
  PROVE  HasPayload'
<1>1. IInv' /\ confirmed' = confirmed
  BY PowerLossKeeps DEF PowerLoss
<1> QED BY <1>1 DEF IInv, Trusted, HasPayload

\* A record comes to be without its payload only by a loss of power before any
\* synchronize returned, and never while a process retains what it captured or
\* loaded (publish_payload before the record).
THEOREM RecordsHavePayload == CaptureSpec => RecordHasPayload
<1>1. IInv => (returned # {} => HasPayload)
  BY DEF IInv, Trusted, HasPayload
<1>2. IInv /\ [CaptureNext]_vars =>
        [HasPayload => HasPayload' \/ (PowerLoss /\ confirmed = Absent)]_vars
  <2>1. SUFFICES ASSUME IInv, CaptureNext, HasPayload
                 PROVE  HasPayload' \/ (PowerLoss /\ confirmed = Absent)
    OBVIOUS
  <2> QED BY <2>1, RunHasPayload, OthersHavePayload, PowerHasPayload DEF CaptureNext
<1> QED BY <1>1, <1>2, CaptureInvariant, PTL DEF CaptureSpec, RecordHasPayload

\* What a death or a power loss leaves under a final name is whole
\* (publish_immutable_bytes).
THEOREM LeavesNoDebris == CaptureSpec => []NoDebris
<1>1. IInv => NoDebris
  BY DEF IInv, Sound
<1> QED BY <1>1, CaptureInvariant, PTL

\* All captures and loads give one answer about exact recovery (capture, load).
THEOREM AnswersAgree == CaptureSpec => []OneAnswer
<1>1. IInv => OneAnswer
  BY DEF IInv, Answered, OneAnswer
<1> QED BY <1>1, CaptureInvariant, PTL

\* What synchronize found recorded stays, with its payload (synchronize).
THEOREM SynchronizedStays == CaptureSpec => []SynchronizedSurvives
<1>1. IInv => SynchronizedSurvives
  <2> SUFFICES ASSUME IInv, confirmed # Absent
               PROVE  dir /\ files["record"] = confirmed /\ PayloadVerifies
    BY DEF SynchronizedSurvives
  <2>1. StoreTyped /\ Sound /\ Trusted /\ Confirmed
    BY Parts
  <2>2. dir /\ files["record"] = confirmed /\ confirmed \in Record
    BY <2>1 DEF StoreTyped, Sound, Confirmed
  <2> QED BY <2>1, <2>2 DEF Trusted, Recorded
<1> QED BY <1>1, CaptureInvariant, PTL

\* A record claims exact recovery only of a file that had no other link at one
\* moment, or is known to be a link (capture_source, verify_hardlink).
THEOREM ExactRecordsAreProven == CaptureSpec => []ExactIsSingle
<1>1. IInv => ExactIsSingle
  BY DEF IInv, ExactIsProven, ExactIsSingle, Single
<1> QED BY <1>1, CaptureInvariant, PTL
=============================================================================
