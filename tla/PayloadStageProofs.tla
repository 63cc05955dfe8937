------------------------- MODULE PayloadStageProofs -------------------------
(***************************************************************************)
(* The invariants of the payload stage, for every set of processes, of     *)
(* entries and of selections, and every combination of failing calls,      *)
(* deaths, losses of power and processes that use the stage at once, but   *)
(* for calls that fail while the stage is shared: there the invariants do  *)
(* not hold.                                                               *)
(***************************************************************************)
EXTENDS PayloadStage, FiniteSetTheorems, TLAPS

NoFailureWhileShared == \A w \in Worlds : ~({"overlap", "io"} \subseteq w)

-----------------------------------------------------------------------------
(* The inductive invariant.                                                *)

\* After the binding is accepted or written; and until the directory is removed.
Written == {"sync_binding", "sync_bound", "sync_root", "look_sealed", "stage"}
             \cup Replaying \cup Sealing
Clearing == Removing \ {"sync_removed"}
Cleared == {"unlock", "unlink_lock", "rmdir"}

\* The stage is p's: it made the directory, it works in it, or it clears it.
Custody(p) ==
  \/ pc[p] \in Written \cup Clearing \cup {"write_binding"}
  \/ p \in made /\ pc[p] # "sync_removed"

Shape(p) ==
  /\ pc[p] # "idle" => selected[p] \in Selection
  /\ pc[p] \in {"idle", "mkdir"} => p \notin made
  /\ pc[p] = "idle" => p \notin inside
  /\ pc[p] \in Replaying => active[p] \in selected[p]
  /\ p \in visible => pc[p] \in {"stage", "sync_seal"}
  /\ pc[p] = "sync_seal" => p \in visible
  /\ pc[p] \in {"write_binding", "sync_binding", "sync_bound", "sync_root", "clean"} =>
       p \in made
  /\ pc[p] \in Sealing => Complete(p)
  /\ pc[p] \in {"idle", "mkdir"} \cup Beginning => done[p] = {}

\* The stage is nobody's or one's, who has the directory open.
One == \A p, q \in Process : Custody(p) /\ Custody(q) => p = q

Alone ==
  "overlap" \notin world =>
    \A p, q \in Process : pc[p] # "idle" /\ pc[q] # "idle" => p = q

Placed(p) ==
  Custody(p) => dir /\ (p \in inside \/ (p \in made /\ pc[p] \in {"open", "rmdir"}))

\* While several use the stage, a binding is there as long as the one whose stage
\* it is has the lock,
Owned(p) ==
  /\ Custody(p) /\ files[Binding] # Absent => owner = p
  /\ pc[p] \in Cleared \cup {"clean"} => files[Binding] = Absent

\* and whoever has a lock file that is gone finds none.
Waiting(p) ==
  pc[p] \in {"lock", "bind"} /\ p \in inside =>
    IF p \in locking THEN pc[p] = "bind" => owner = p
    ELSE /\ files[Binding] = Absent
         /\ \A q \in Process : Custody(q) => pc[q] = "rmdir"

Guarded(p) == "overlap" \in world => Owned(p) /\ Waiting(p)

\* What is in the files at each point of the one whose stage it is.
Reached(p) ==
  /\ p \in made /\ pc[p] \in {"open", "open_lock", "lock", "bind"} =>
       files[Binding] = Absent
  /\ pc[p] = "write_binding" => files[Binding] = Partial
  /\ pc[p] \in Written => files[Binding] = selected[p]
  /\ \/ p \in made /\ pc[p] \in Beginning
     \/ pc[p] \in Clearing
     \/ pc[p] \in {"stage"} \cup Replaying \cup Sealing /\ p \notin visible
     => files[Sealed] = Absent
  /\ p \in visible => files[Sealed] = selected[p]
  /\ pc[p] = "rename_entry" => files[Pending(active[p])] = Exact
  /\ pc[p] = "sync_entry" => files[Payload(active[p])] = Exact
  /\ pc[p] = "rename_seal" => files[SealedPending] = selected[p]
  /\ pc[p] \in {"stage"} \cup Replaying \cup Sealing =>
       \A e \in done[p] : files[Payload(e)] = Exact /\ disk[Payload(e)] = Exact

\* A marker has all its payloads, also on the disk, and is never taken away.
Marked ==
  /\ files[Sealed] \in Selection \cup {Absent}
  /\ \A s \in Selection : files[Sealed] = s =>
       \A e \in s : files[Payload(e)] = Exact /\ disk[Payload(e)] = Exact
  /\ disk[Sealed] # Absent => files[Sealed] = disk[Sealed]

LockKept == files[LockFile] = Absent => locking = {}

\* Whoever made the stage flushes it before it goes on, unless it dies there.
Flushing(p) ==
  /\ pc[p] \in {"sync_bound", "sync_root", "look_sealed"} => bound
  /\ pc[p] = "look_sealed" => dirDisk
  /\ pc[p] \in Cleared /\ "unflushed" \notin mishap => files[Binding] = Absent

Anchored ==
  /\ \A p \in made : Flushing(p)
  /\ "unflushed" \notin mishap /\ files[Binding] # Absent =>
       \/ bound /\ dirDisk
       \/ \E p \in made : pc[p] \in Beginning \cup {"clean", "abandon", "unlink_binding"}

Durable(s) ==
  /\ dir /\ dirDisk /\ bound
  /\ files[Binding] = s /\ disk[Binding] = s
  /\ files[Sealed] = s /\ disk[Sealed] = s

Acknowledged ==
  acked /\ "unflushed" \notin mishap => \E s \in Selection : Durable(s)

\* The files that the one who made the stage may have made so far.
OwnAt(point, s) ==
  IF point \in {"open", "open_lock", "rmdir"} THEN {}
  ELSE IF point \in {"lock", "bind", "unlock", "unlink_lock"} THEN {LockFile}
  ELSE IF point \in Beginning \cup {"clean", "unlink_binding"} THEN {LockFile, Binding}
  ELSE {LockFile, Binding, Sealed, SealedPending}
         \cup {Pending(e) : e \in s} \cup {Payload(e) : e \in s}

Keeps(p) == \A n \in Name : files[n] # Absent => n \in OwnAt(pc[p], selected[p])

Tidy ==
  "overlap" \notin world /\ "left" \notin mishap =>
    /\ dir /\ files[Sealed] = Absent => \E p \in made : pc[p] # "sync_removed"
    /\ \A p \in made : pc[p] # "sync_removed" => Keeps(p)

Typed == TypeOK /\ \A p \in Process : Shape(p)

IInv ==
  /\ Typed /\ One /\ Alone
  /\ \A p \in Process : Placed(p) /\ Guarded(p) /\ Reached(p)
  /\ Marked /\ LockKept /\ Anchored /\ Acknowledged /\ Tidy

-----------------------------------------------------------------------------
(* Contents, names and points.                                             *)

LEMMA Distinct ==
  /\ Absent # Partial /\ Absent # Exact /\ Partial # Exact
  /\ \A s \in Selection : s # Absent /\ s # Partial /\ s # Exact /\ s \subseteq Entry
  /\ Absent \in Content /\ Partial \in Content /\ Exact \in Content
  /\ Selection \subseteq Content /\ NoProcess \notin Process
<1>1. Cardinality({Absent, Partial, Exact}) = 3
  BY PayloadStageAssumption
<1>2. ASSUME NEW x, NEW y PROVE Cardinality({x, y}) # 3
  <2>1. IsFiniteSet({x}) /\ Cardinality({x}) = 1
    BY FS_Singleton
  <2>2. {x, y} = {x} \cup {y}
    OBVIOUS
  <2> QED BY <2>1, <2>2, FS_AddElement
<1>3. Absent = Partial => {Absent, Partial, Exact} = {Absent, Exact}
  OBVIOUS
<1>4. Absent = Exact => {Absent, Partial, Exact} = {Absent, Partial}
  OBVIOUS
<1>5. Partial = Exact => {Absent, Partial, Exact} = {Absent, Partial}
  OBVIOUS
<1>6. Absent # Partial /\ Absent # Exact /\ Partial # Exact
  BY <1>1, <1>2, <1>3, <1>4, <1>5
<1> QED BY <1>6, PayloadStageAssumption DEF Content

LEMMA NamesAre ==
  /\ {Binding, Sealed, SealedPending, LockFile} \subseteq Name
  /\ Binding # Sealed /\ Binding # SealedPending /\ Binding # LockFile
  /\ Sealed # SealedPending /\ Sealed # LockFile /\ SealedPending # LockFile
  /\ \A e \in Entry :
       /\ Pending(e) \in Name /\ Payload(e) \in Name
       /\ Pending(e) \notin {Binding, Sealed, SealedPending, LockFile}
       /\ Payload(e) \notin {Binding, Sealed, SealedPending, LockFile}
  /\ \A e, f \in Entry :
       /\ Pending(e) # Payload(f)
       /\ Pending(e) = Pending(f) => e = f
       /\ Payload(e) = Payload(f) => e = f
<1>1. {Binding, Sealed, SealedPending, LockFile} \subseteq Name
  BY DEF Name
<1>2. /\ Binding # Sealed /\ Binding # SealedPending /\ Binding # LockFile
      /\ Sealed # SealedPending /\ Sealed # LockFile /\ SealedPending # LockFile
  BY DEF Binding, Sealed, SealedPending, LockFile
<1>3. ASSUME NEW e \in Entry
      PROVE  /\ Pending(e) \in Name /\ Payload(e) \in Name
  BY DEF Name
<1>4. ASSUME NEW e \in Entry
      PROVE  /\ Pending(e) \notin {Binding, Sealed, SealedPending, LockFile}
             /\ Payload(e) \notin {Binding, Sealed, SealedPending, LockFile}
  BY DEF Pending, Payload, Binding, Sealed, SealedPending, LockFile
<1>5. ASSUME NEW e \in Entry, NEW f \in Entry
      PROVE  /\ Pending(e) # Payload(f)
             /\ Pending(e) = Pending(f) => e = f
             /\ Payload(e) = Payload(f) => e = f
  BY DEF Pending, Payload
<1> QED BY <1>1, <1>2, <1>3, <1>4, <1>5

LEMMA PointsAre ==
  /\ {"idle", "mkdir", "stage"} \subseteq Point
  /\ Beginning \subseteq Point /\ Replaying \subseteq Point
  /\ Sealing \subseteq Point /\ Removing \subseteq Point
BY DEF Point

LEMMA Goes ==
  ASSUME TypeOK, NEW p \in Process, NEW to, Goto(p, to)
  PROVE  pc'[p] = to /\ \A q \in Process \ {p} : pc'[q] = pc[q]
BY DEF Goto, TypeOK

-----------------------------------------------------------------------------
(* What a step of one process may change.                                  *)

Acts(p) ==
  /\ \/ (Begin(p) \/ Replay(p) \/ Abandon(p)) /\ UNCHANGED history
     \/ SyncSeal(p) \/ CallFails(p) \/ Crash(p)
  /\ UNCHANGED world

CallEffect(p) ==
  /\ world' = world
  /\ \E to \in Point : Goto(p, to)
  /\ \E s \in Selection \cup {Absent} : selected' = [selected EXCEPT ![p] = s]
  /\ \E e \in Entry \cup {Absent} : active' = [active EXCEPT ![p] = e]
  /\ \E d \in SUBSET Entry : done' = [done EXCEPT ![p] = d]
  /\ made' \in {made, made \cup {p}, made \ {p}}
  /\ visible' \in {visible, visible \cup {p}, visible \ {p}}

HistoryEffect(p) ==
  /\ acked' \in {acked, TRUE}
  /\ mishap' \in {mishap, mishap \cup {"left"}, mishap \cup {"left", "unflushed"}}

LockEffect(p) ==
  \/ dir' = dir /\ inside' = inside /\ UNCHANGED <<owner, locking>>
  \/ ~dir /\ dir' = TRUE /\ inside' = inside /\ UNCHANGED <<owner, locking>>
  \/ dir /\ dir' = dir /\ inside' = inside \cup {p} /\ UNCHANGED <<owner, locking>>
  \/ dir' = dir /\ inside' = inside /\ p \in inside /\ locking' = locking \cup {p}
     /\ owner' = owner /\ files' = [files EXCEPT ![LockFile] = Exact]
  \/ dir' = dir /\ inside' = inside /\ p \in locking /\ owner = NoProcess /\ owner' = p
     /\ locking' = locking
  \/ dir' = dir /\ inside' = inside /\ owner' = Unlocked(p) /\ locking' = locking \ {p}
  \/ dir' = dir /\ inside' = inside \ {p} /\ owner' = Unlocked(p) /\ locking' = locking \ {p}
  \/ dir' = dir /\ inside' = inside /\ pc[p] = "unlink_lock" /\ p \in inside
     /\ owner' = NoProcess /\ locking' = {}
  \/ files = Empty /\ files' = files /\ dir' = FALSE /\ inside' = {} /\ pc[p] = "rmdir"
     /\ UNCHANGED <<owner, locking>>

FileEffect(p) ==
  \/ pc[p] = "open_lock" /\ files' = [files EXCEPT ![LockFile] = Exact]
  \/ /\ pc[p] = "bind" /\ p \in made /\ files[Binding] = Absent
     /\ files' = [files EXCEPT ![Binding] = Partial]
  \/ pc[p] = "write_binding" /\ files' = [files EXCEPT ![Binding] = selected[p]]
  \/ /\ pc[p] = "stage" /\ p \notin visible
     /\ \E e \in selected[p] : files' = [files EXCEPT ![Pending(e)] = Partial]
  \/ pc[p] = "write" /\ files' = [files EXCEPT ![Pending(active[p])] = Exact]
  \/ /\ pc[p] = "rename_entry"
     /\ files' = [files EXCEPT ![Payload(active[p])] = files[Pending(active[p])],
                               ![Pending(active[p])] = Absent]
  \/ /\ pc[p] = "stage" /\ files[Sealed] = Absent
     /\ files' = [files EXCEPT ![SealedPending] = Partial]
  \/ pc[p] = "write_seal" /\ files' = [files EXCEPT ![SealedPending] = selected[p]]
  \/ /\ pc[p] = "rename_seal"
     /\ files' = [files EXCEPT ![Sealed] = files[SealedPending], ![SealedPending] = Absent]
  \/ /\ pc[p] \in {"clean", "abandon"}
     /\ \E n \in Doomed(p) : files' = [files EXCEPT ![n] = Absent]
  \/ pc[p] = "unlink_binding" /\ files' = [files EXCEPT ![Binding] = Absent]
  \/ pc[p] = "unlink_lock" /\ files' = [files EXCEPT ![LockFile] = Absent] /\ locking' = {}

DiskEffect(p) ==
  /\ \/ disk' = disk
     \/ ~dir /\ disk' = Empty /\ pc[p] = "mkdir"
     \/ /\ pc[p] \in {"sync_bound", "sync_entry", "sync_seal"} /\ p \in inside
        /\ files' = files /\ disk' = [n \in Name |-> Flushed(n)]
  /\ \/ bound' = bound
     \/ pc[p] = "bind" /\ p \in made /\ p \in inside /\ files[Binding] = Absent /\ bound' = FALSE
     \/ pc[p] = "sync_binding" /\ bound' = TRUE
  /\ dirDisk' \in {dirDisk, dir}

Effect(p) ==
  /\ CallEffect(p) /\ HistoryEffect(p) /\ LockEffect(p) /\ DiskEffect(p)
  /\ files' = files \/ (p \in inside /\ FileEffect(p))

LEMMA Held ==
  ASSUME TypeOK, NEW p \in Process
  PROVE  /\ selected = [selected EXCEPT ![p] = selected[p]]
         /\ selected[p] \in Selection \cup {Absent}
         /\ active = [active EXCEPT ![p] = active[p]] /\ active[p] \in Entry \cup {Absent}
         /\ done = [done EXCEPT ![p] = done[p]] /\ done[p] \in SUBSET Entry
         /\ pc = [pc EXCEPT ![p] = pc[p]] /\ pc[p] \in Point
BY DEF TypeOK

LEMMA CallKept ==
  ASSUME TypeOK, NEW p \in Process, UNCHANGED <<world, call>>,
         NEW to \in Point, Goto(p, to)
  PROVE  CallEffect(p)
BY Held DEF CallEffect, call

LEMMA LocksKept ==
  ASSUME NEW p, dir' = dir, UNCHANGED locks
  PROVE  LockEffect(p)
BY DEF LockEffect, locks

LEMMA StorageKept ==
  ASSUME NEW p, UNCHANGED storage
  PROVE  DiskEffect(p) /\ files' = files /\ dir' = dir
BY DEF DiskEffect, storage

LEMMA CloseEffect ==
  ASSUME TypeOK, NEW p \in Process, Close(p), world' = world, dir' = dir
  PROVE  CallEffect(p) /\ LockEffect(p)
<1>1. CallEffect(p)
  BY Held, PointsAre DEF Close, CallEffect
<1>2. LockEffect(p)
  BY DEF Close, LockEffect
<1> QED BY <1>1, <1>2

LEMMA RefuseEffect ==
  ASSUME TypeOK, NEW p \in Process, Refuse(p), world' = world, UNCHANGED history
  PROVE  Effect(p)
<1>1. DiskEffect(p) /\ files' = files /\ dir' = dir
  BY StorageKept DEF Refuse
<1>2. CallEffect(p) /\ LockEffect(p)
  <2>1. CASE p \in made
    <3>1. \E to \in Point : Goto(p, to)
      BY <2>1 DEF Refuse, Point, Removing
    <3>2. CallEffect(p)
      BY <2>1, <3>1, CallKept DEF Refuse
    <3>3. LockEffect(p)
      BY <1>1, <2>1 DEF Refuse, LockEffect
    <3> QED BY <3>2, <3>3
  <2>2. CASE p \notin made
    BY <1>1, <2>2, CloseEffect DEF Refuse
  <2> QED BY <2>1, <2>2
<1> QED BY <1>1, <1>2 DEF Effect, HistoryEffect, history

\* A step that only goes on.
LEMMA GoEffect ==
  ASSUME TypeOK, NEW p \in Process, UNCHANGED <<world, storage, locks, call, history>>,
         NEW to \in Point, Goto(p, to)
  PROVE  Effect(p)
BY CallKept, LocksKept, StorageKept DEF Effect, HistoryEffect, history

\* A step that changes the storage, keeps the locks and what its process knows.
LEMMA StoreEffect ==
  ASSUME TypeOK, NEW p \in Process, UNCHANGED <<world, dir, locks, call, history>>,
         NEW to \in Point, Goto(p, to), DiskEffect(p),
         files' = files \/ (p \in inside /\ FileEffect(p))
  PROVE  Effect(p)
BY CallKept, LocksKept DEF Effect, HistoryEffect, history

LEMMA BeginEffect ==
  ASSUME TypeOK, NEW p \in Process, Shape(p), Begin(p), UNCHANGED <<world, history>>
  PROVE  Effect(p)
<1>1. CASE Start(p)
  <2>1. CallEffect(p)
    BY <1>1, Held, PointsAre DEF Start, CallEffect
  <2> QED BY <1>1, <2>1, LocksKept, StorageKept DEF Start, Effect, HistoryEffect, history
<1>2. CASE MakeStage(p)
  <2>1. CallEffect(p)
    BY <1>2, Held, PointsAre DEF MakeStage, CallEffect, storage, Beginning
  <2>2. LockEffect(p) /\ DiskEffect(p) /\ files' = files
    BY <1>2 DEF MakeStage, LockEffect, DiskEffect, storage, locks
  <2> QED BY <2>1, <2>2 DEF Effect, HistoryEffect, history
<1>3. CASE OpenStage(p)
  <2>1. CASE Refuse(p)
    BY <2>1, RefuseEffect
  <2>2. CASE ~Refuse(p)
    <3>1. Goto(p, "open_lock") /\ "open_lock" \in Point /\ UNCHANGED <<storage, call>>
      BY <1>3, <2>2 DEF OpenStage, Point, Beginning
    <3>2. LockEffect(p)
      BY <1>3, <2>2, <3>1 DEF OpenStage, LockEffect, storage
    <3> QED BY <3>1, <3>2, CallKept, StorageKept DEF Effect, HistoryEffect, history
  <2> QED BY <2>1, <2>2
<1>4. CASE OpenLock(p)
  <2>1. CASE Refuse(p)
    BY <2>1, RefuseEffect
  <2>2. CASE ~Refuse(p)
    <3>1. Goto(p, "lock") /\ "lock" \in Point /\ UNCHANGED call
      BY <1>4, <2>2 DEF OpenLock, Point, Beginning
    <3>2. LockEffect(p) /\ DiskEffect(p) /\ p \in inside /\ FileEffect(p)
      BY <1>4, <2>2 DEF OpenLock, Put, LockEffect, DiskEffect, FileEffect
    <3> QED BY <3>1, <3>2, CallKept DEF Effect, HistoryEffect, history
  <2> QED BY <2>1, <2>2
<1>5. CASE TakeLock(p)
  <2>1. CASE Refuse(p)
    BY <2>1, RefuseEffect
  <2>2. CASE ~Refuse(p)
    <3>1. Goto(p, "bind") /\ "bind" \in Point /\ UNCHANGED <<call, storage>>
      BY <1>5, <2>2 DEF TakeLock, Point, Beginning
    <3>2. LockEffect(p)
      BY <1>5, <2>2, <3>1 DEF TakeLock, LockEffect, locks, storage
    <3> QED BY <3>1, <3>2, CallKept, StorageKept DEF Effect, HistoryEffect, history
  <2> QED BY <2>1, <2>2
<1>6. CASE Bind(p)
  <2>1. CASE Refuse(p)
    BY <2>1, RefuseEffect
  <2>2. CASE \E to \in Point : Goto(p, to) /\ UNCHANGED <<storage, locks, call>>
    BY <2>2, GoEffect
  <2>3. CASE /\ Sees(p, Binding) = Absent
             /\ p \in made /\ p \in inside
             /\ Put(p, Binding, Partial)
             /\ bound' = FALSE
             /\ Goto(p, "write_binding")
             /\ UNCHANGED <<dir, dirDisk, disk, locks, call>>
    <3>1. "write_binding" \in Point
      BY DEF Point, Beginning
    <3>2. DiskEffect(p) /\ p \in inside /\ FileEffect(p)
      BY <1>6, <2>3 DEF Bind, Sees, Put, DiskEffect, FileEffect
    <3> QED BY <2>3, <3>1, <3>2, StoreEffect
  <2>4. "sync_root" \in Point /\ "look_sealed" \in Point
    BY DEF Point, Beginning
  <2> QED BY <1>6, <2>1, <2>2, <2>3, <2>4 DEF Bind
<1>7. CASE WriteBinding(p)
  <2>1. "sync_binding" \in Point
    BY DEF Point, Beginning
  <2>2. DiskEffect(p) /\ (files' = files \/ (p \in inside /\ FileEffect(p)))
    BY <1>7 DEF WriteBinding, Put, DiskEffect, FileEffect
  <2> QED BY <1>7, <2>1, <2>2, StoreEffect DEF WriteBinding
<1>8. CASE SyncBinding(p)
  <2>1. "sync_bound" \in Point
    BY DEF Point, Beginning
  <2>2. DiskEffect(p)
    BY <1>8 DEF SyncBinding, DiskEffect
  <2> QED BY <1>8, <2>1, <2>2, StoreEffect DEF SyncBinding
<1>9. CASE SyncBound(p)
  <2>1. "sync_root" \in Point
    BY DEF Point, Beginning
  <2>2. DiskEffect(p)
    BY <1>9 DEF SyncBound, Flush, DiskEffect
  <2> QED BY <1>9, <2>1, <2>2, StoreEffect DEF SyncBound
<1>10. CASE SyncRoot(p)
  <2>1. "look_sealed" \in Point
    BY DEF Point, Beginning
  <2>2. DiskEffect(p)
    BY <1>10 DEF SyncRoot, DiskEffect
  <2> QED BY <1>10, <2>1, <2>2, StoreEffect DEF SyncRoot
<1>11. CASE LookSealed(p)
  <2>1. CASE Refuse(p)
    BY <2>1, RefuseEffect
  <2>2. CASE ~Refuse(p)
    <3>1. CallEffect(p)
      BY <1>11, <2>2, Held, PointsAre DEF LookSealed, CallEffect
    <3>2. LockEffect(p) /\ DiskEffect(p) /\ files' = files
      BY <1>11, <2>2, LocksKept, StorageKept DEF LookSealed
    <3> QED BY <3>1, <3>2 DEF Effect, HistoryEffect, history
  <2> QED BY <2>1, <2>2
<1> QED BY <1>1, <1>2, <1>3, <1>4, <1>5, <1>6, <1>7, <1>8, <1>9, <1>10, <1>11 DEF Begin

LEMMA ReplayEffect ==
  ASSUME TypeOK, NEW p \in Process, Shape(p), Replay(p), UNCHANGED <<world, history>>
  PROVE  Effect(p)
<1>0. pc[p] # "idle" => selected[p] \in Selection /\ selected[p] \subseteq Entry
  BY Distinct DEF Shape
<1>1. CASE BeginEntry(p)
  <2>1. PICK e \in selected[p] \ done[p] :
          active' = [active EXCEPT ![p] = e] /\ Put(p, Pending(e), Partial)
    BY <1>1 DEF BeginEntry
  <2>2. e \in Entry /\ "write" \in Point
    BY <1>0, <1>1, <2>1 DEF BeginEntry, Point, Replaying
  <2>3. CallEffect(p)
    BY <1>1, <2>1, <2>2, Held DEF BeginEntry, CallEffect
  <2>4. LockEffect(p) /\ DiskEffect(p)
    BY <1>1, LocksKept DEF BeginEntry, DiskEffect
  <2>5. files' = files \/ (p \in inside /\ FileEffect(p))
    BY <1>1, <2>1 DEF BeginEntry, Put, FileEffect
  <2> QED BY <2>3, <2>4, <2>5 DEF Effect, HistoryEffect, history
<1>2. CASE VerifyEntry(p)
  <2>1. PICK e \in selected[p] \ done[p] : done' = [done EXCEPT ![p] = done[p] \cup {e}]
    BY <1>2, Held DEF VerifyEntry, TypeOK
  <2>2. e \in Entry /\ done[p] \cup {e} \in SUBSET Entry
    BY <1>0, <1>2, <2>1, Held DEF VerifyEntry
  <2>3. CallEffect(p)
    BY <1>2, <2>1, <2>2, Held DEF VerifyEntry, CallEffect, Goto
  <2>4. LockEffect(p) /\ DiskEffect(p) /\ files' = files
    BY <1>2, LocksKept, StorageKept DEF VerifyEntry
  <2> QED BY <2>3, <2>4 DEF Effect, HistoryEffect, history
<1>3. CASE WriteEntry(p)
  <2>1. "rename_entry" \in Point
    BY DEF Point, Replaying
  <2>2. DiskEffect(p) /\ (files' = files \/ (p \in inside /\ FileEffect(p)))
    BY <1>3 DEF WriteEntry, Put, DiskEffect, FileEffect
  <2> QED BY <1>3, <2>1, <2>2, StoreEffect DEF WriteEntry
<1>4. CASE RenameEntry(p)
  <2>1. "sync_entry" \in Point
    BY DEF Point, Replaying
  <2>2. DiskEffect(p) /\ (files' = files \/ (p \in inside /\ FileEffect(p)))
    BY <1>4 DEF RenameEntry, Move, DiskEffect, FileEffect
  <2> QED BY <1>4, <2>1, <2>2, StoreEffect DEF RenameEntry
<1>5. CASE EndEntry(p)
  <2>1. done' = [done EXCEPT ![p] = done[p] \cup {active[p]}]
    BY <1>5, Held DEF EndEntry, EntryDone, TypeOK
  <2>2. done[p] \cup {active[p]} \in SUBSET Entry
    <3>1. active[p] \in selected[p]
      BY <1>5 DEF EndEntry, Shape, Replaying
    <3> QED BY <1>0, <1>5, <3>1, Held DEF EndEntry
  <2>3. CallEffect(p)
    BY <1>5, <2>1, <2>2, Held, PointsAre DEF EndEntry, EntryDone, CallEffect
  <2>4. LockEffect(p) /\ DiskEffect(p) /\ files' = files
    BY <1>5, LocksKept DEF EndEntry, Flush, DiskEffect
  <2> QED BY <2>3, <2>4 DEF Effect, HistoryEffect, history
<1>6. CASE Seal(p)
  <2>1. CallEffect(p)
    BY <1>6, Held DEF Seal, CallEffect, Point, Sealing
  <2>2. LockEffect(p) /\ DiskEffect(p)
    BY <1>6, LocksKept DEF Seal, DiskEffect
  <2>3. files' = files \/ (p \in inside /\ FileEffect(p))
    BY <1>6 DEF Seal, Sees, Put, FileEffect
  <2> QED BY <2>1, <2>2, <2>3 DEF Effect, HistoryEffect, history
<1>7. CASE WriteSeal(p)
  <2>1. "rename_seal" \in Point
    BY DEF Point, Sealing
  <2>2. DiskEffect(p) /\ (files' = files \/ (p \in inside /\ FileEffect(p)))
    BY <1>7 DEF WriteSeal, Put, DiskEffect, FileEffect
  <2> QED BY <1>7, <2>1, <2>2, StoreEffect DEF WriteSeal
<1>8. CASE RenameSeal(p)
  <2>1. CallEffect(p)
    BY <1>8, Held DEF RenameSeal, CallEffect, Point, Sealing
  <2>2. LockEffect(p) /\ DiskEffect(p)
    BY <1>8, LocksKept DEF RenameSeal, DiskEffect
  <2>3. files' = files \/ (p \in inside /\ FileEffect(p))
    BY <1>8 DEF RenameSeal, Move, FileEffect
  <2> QED BY <2>1, <2>2, <2>3 DEF Effect, HistoryEffect, history
<1> QED BY <1>1, <1>2, <1>3, <1>4, <1>5, <1>6, <1>7, <1>8 DEF Replay

LEMMA AbandonEffect ==
  ASSUME TypeOK, NEW p \in Process, Shape(p), Abandon(p), UNCHANGED <<world, history>>
  PROVE  Effect(p)
<1>1. CASE Drop(p)
  <2>1. CASE Close(p)
    BY <1>1, <2>1, CloseEffect, StorageKept DEF Drop, Effect, HistoryEffect, history
  <2>2. CASE Goto(p, "abandon") /\ UNCHANGED <<locks, call>>
    BY <1>1, <2>2, GoEffect DEF Drop, Point, Removing
  <2> QED BY <1>1, <2>1, <2>2 DEF Drop
<1>2. CASE UnlinkFile(p)
  <2>1. PICK n \in Doomed(p) : Sees(p, n) # Absent /\ Put(p, n, Absent)
    BY <1>2 DEF UnlinkFile
  <2>2. Goto(p, pc[p]) /\ pc[p] \in Point
    BY <1>2, Held DEF UnlinkFile, Goto
  <2>3. DiskEffect(p) /\ (files' = files \/ (p \in inside /\ FileEffect(p)))
    BY <1>2, <2>1 DEF UnlinkFile, Put, DiskEffect, FileEffect
  <2> QED BY <1>2, <2>2, <2>3, StoreEffect DEF UnlinkFile
<1>3. CASE FilesUnlinked(p)
  BY <1>3, GoEffect DEF FilesUnlinked, Point, Removing
<1>4. CASE UnlinkBinding(p)
  <2>1. "unlock" \in Point
    BY DEF Point, Removing
  <2>2. DiskEffect(p) /\ (files' = files \/ (p \in inside /\ FileEffect(p)))
    BY <1>4 DEF UnlinkBinding, Put, DiskEffect, FileEffect
  <2> QED BY <1>4, <2>1, <2>2, StoreEffect DEF UnlinkBinding
<1>5. CASE Unlock(p)
  <2>1. CallEffect(p)
    BY <1>5, CallKept DEF Unlock, Point, Removing
  <2>2. LockEffect(p) /\ DiskEffect(p) /\ files' = files
    BY <1>5, StorageKept DEF Unlock, LockEffect
  <2> QED BY <2>1, <2>2 DEF Effect, HistoryEffect, history
<1>6. CASE UnlinkLock(p)
  <2>1. CallEffect(p)
    BY <1>6, CallKept DEF UnlinkLock, Point, Removing
  <2>2. LockEffect(p) /\ DiskEffect(p)
    BY <1>6 DEF UnlinkLock, LockEffect, DiskEffect
  <2>3. files' = files \/ (p \in inside /\ FileEffect(p))
    BY <1>6 DEF UnlinkLock, Put, FileEffect
  <2> QED BY <2>1, <2>2, <2>3 DEF Effect, HistoryEffect, history
<1>7. CASE RemoveStage(p)
  <2>1. CallEffect(p)
    BY <1>7, CallKept DEF RemoveStage, Point, Removing
  <2>2. LockEffect(p) /\ DiskEffect(p) /\ files' = files
    BY <1>7 DEF RemoveStage, LockEffect, DiskEffect
  <2> QED BY <2>1, <2>2 DEF Effect, HistoryEffect, history
<1>8. CASE SyncRemoved(p)
  <2>1. CallEffect(p) /\ LockEffect(p)
    BY <1>8, CloseEffect DEF SyncRemoved
  <2>2. DiskEffect(p) /\ files' = files
    BY <1>8 DEF SyncRemoved, DiskEffect
  <2> QED BY <2>1, <2>2 DEF Effect, HistoryEffect, history
<1> QED BY <1>1, <1>2, <1>3, <1>4, <1>5, <1>6, <1>7, <1>8 DEF Abandon

\* What a failing call does: it closes, it refuses, or it goes on elsewhere.
LEMMA Fails ==
  ASSUME NEW p \in Process, CallFails(p)
  PROVE  \/ /\ pc[p] \in {"mkdir", "sync_removed"} /\ Close(p)
            /\ mishap' \in {mishap, mishap \cup MishapOf(p)}
         \/ pc[p] \in Beginning /\ Refuse(p) /\ mishap' = mishap
         \/ /\ \/ pc[p] \in Replaying /\ Goto(p, "abandon") /\ mishap' = mishap
               \/ pc[p] \in Sealing /\ Goto(p, "stage") /\ mishap' = mishap
               \/ /\ mishap' = mishap \cup MishapOf(p)
                  /\ \/ pc[p] \in {"clean", "abandon"} /\ Goto(p, "unlink_binding")
                     \/ pc[p] = "unlink_binding" /\ Goto(p, "unlock")
                     \/ pc[p] = "unlink_lock" /\ Goto(p, "rmdir")
                     \/ pc[p] = "rmdir" /\ Goto(p, "sync_removed")
            /\ UNCHANGED <<locks, call>>
<1>1. CASE pc[p] \in Removing \ {"unlock"}
  BY <1>1 DEF CallFails, Removing, Beginning, Replaying, Sealing
<1>2. CASE pc[p] \notin Removing \ {"unlock"}
  BY <1>2 DEF CallFails
<1> QED BY <1>1, <1>2

LEMMA FailEffect ==
  ASSUME TypeOK, NEW p \in Process, Shape(p), CallFails(p), world' = world
  PROVE  Effect(p)
<1>1. HistoryEffect(p) /\ UNCHANGED storage
  BY Fails DEF HistoryEffect, MishapOf, CallFails
<1>2. DiskEffect(p) /\ files' = files /\ dir' = dir
  BY <1>1, StorageKept
<1>3. CallEffect(p) /\ LockEffect(p)
  <2>1. CASE Close(p)
    BY <1>2, <2>1, CloseEffect
  <2>2. CASE Refuse(p) /\ mishap' = mishap
    BY <2>2, RefuseEffect DEF CallFails, history, Effect
  <2>3. CASE UNCHANGED <<locks, call>> /\ \E to \in Point : Goto(p, to)
    BY <1>2, <2>3, CallKept, LocksKept
  <2>4. {"abandon", "stage", "unlink_binding", "unlock", "rmdir", "sync_removed"} \subseteq Point
    BY DEF Point, Removing
  <2> QED BY <2>1, <2>2, <2>3, <2>4, Fails
<1> QED BY <1>1, <1>2, <1>3 DEF Effect

LEMMA Effects ==
  ASSUME Typed, NEW p \in Process, Acts(p)
  PROVE  Effect(p)
<1>0. TypeOK /\ Shape(p) /\ world' = world
  BY DEF Typed, Acts
<1>1. CASE SyncSeal(p)
  <2>1. CallEffect(p) /\ LockEffect(p)
    BY <1>0, <1>1, CloseEffect DEF SyncSeal
  <2>2. DiskEffect(p) /\ files' = files
    BY <1>1 DEF SyncSeal, Flush, DiskEffect
  <2> QED BY <1>1, <2>1, <2>2 DEF SyncSeal, Effect, HistoryEffect
<1>2. CASE CallFails(p)
  BY <1>0, <1>2, FailEffect
<1>3. CASE Crash(p)
  <2>1. CallEffect(p) /\ LockEffect(p) /\ DiskEffect(p) /\ files' = files
    BY <1>0, <1>3, CloseEffect, StorageKept DEF Crash
  <2> QED BY <1>3, <2>1 DEF Crash, Effect, HistoryEffect, MishapOf
<1>4. CASE (Begin(p) \/ Replay(p) \/ Abandon(p)) /\ UNCHANGED history
  BY <1>0, <1>4, BeginEffect, ReplayEffect, AbandonEffect
<1> QED BY <1>1, <1>2, <1>3, <1>4 DEF Acts

LEMMA NextActs == Next => (\E p \in Process : Acts(p)) \/ (PowerLoss /\ world' = world)
BY DEF Next, Acts

-----------------------------------------------------------------------------
(* Types.                                                                  *)

\* The entry that a process replays is one of its selection.
LEMMA EntriesAre ==
  ASSUME Typed, NEW p \in Process
  PROVE  /\ pc[p] # "idle" => selected[p] \in Selection /\ selected[p] \subseteq Entry
         /\ pc[p] \in Replaying => active[p] \in selected[p] /\ active[p] \in Entry
         /\ pc[p] \in {"clean", "abandon"} => Doomed(p) \subseteq Name \ {Binding, LockFile}
<1>1. pc[p] # "idle" => selected[p] \in Selection /\ selected[p] \subseteq Entry
  BY Distinct DEF Typed, Shape
<1>2. pc[p] \in Replaying => active[p] \in selected[p] /\ active[p] \in Entry
  BY <1>1 DEF Typed, Shape, Replaying
<1>3. pc[p] \in {"clean", "abandon"} => Doomed(p) \subseteq Name \ {Binding, LockFile}
  BY <1>1, NamesAre DEF Doomed
<1> QED BY <1>1, <1>2, <1>3

LEMMA FilesType ==
  ASSUME Typed, NEW p \in Process, Effect(p)
  PROVE  files' \in [Name -> Content]
<1>0. files \in [Name -> Content] /\ selected[p] \in Content
  BY Distinct, Held DEF Typed, TypeOK
<1>1. CASE files' = files
  BY <1>0, <1>1
<1>2. CASE FileEffect(p)
  <2>1. ASSUME NEW n \in Name, NEW c \in Content, files' = [files EXCEPT ![n] = c]
        PROVE  files' \in [Name -> Content]
    BY <1>0, <2>1
  <2>2. ASSUME NEW n \in Name, NEW m \in Name,
               files' = [files EXCEPT ![n] = files[m], ![m] = Absent]
        PROVE  files' \in [Name -> Content]
    BY <1>0, <2>2, Distinct
  <2>3. CASE pc[p] = "stage" /\ \E e \in selected[p] : files' = [files EXCEPT ![Pending(e)] = Partial]
    BY <2>1, <2>3, EntriesAre, NamesAre, Distinct
  <2>4. CASE pc[p] = "write" /\ files' = [files EXCEPT ![Pending(active[p])] = Exact]
    BY <2>1, <2>4, EntriesAre, NamesAre, Distinct DEF Replaying
  <2>5. CASE /\ pc[p] = "rename_entry"
             /\ files' = [files EXCEPT ![Payload(active[p])] = files[Pending(active[p])],
                                       ![Pending(active[p])] = Absent]
    <3>1. Payload(active[p]) \in Name /\ Pending(active[p]) \in Name
      BY <2>5, EntriesAre, NamesAre DEF Replaying
    <3> QED BY <2>2, <2>5, <3>1
  <2>6. CASE /\ pc[p] \in {"clean", "abandon"}
             /\ \E n \in Doomed(p) : files' = [files EXCEPT ![n] = Absent]
    BY <2>1, <2>6, EntriesAre, Distinct
  <2>7. CASE \E n \in {Binding, LockFile, SealedPending} : \E c \in Content :
                files' = [files EXCEPT ![n] = c]
    BY <2>1, <2>7, NamesAre
  <2>8. CASE files' = [files EXCEPT ![Sealed] = files[SealedPending], ![SealedPending] = Absent]
    BY <2>2, <2>8, NamesAre
  <2> QED BY <1>0, <1>2, <2>3, <2>4, <2>5, <2>6, <2>7, <2>8, Distinct DEF FileEffect
<1> QED BY <1>1, <1>2 DEF Effect

LEMMA TypeStep ==
  ASSUME Typed, LockKept, NEW p \in Process, Effect(p)
  PROVE  TypeOK'
<1>0. TypeOK /\ CallEffect(p) /\ HistoryEffect(p) /\ LockEffect(p) /\ DiskEffect(p)
  BY DEF Typed, Effect
<1>1. /\ world' \in Worlds /\ pc' \in [Process -> Point]
      /\ selected' \in [Process -> Selection \cup {Absent}]
      /\ made' \subseteq Process /\ visible' \subseteq Process
      /\ done' \in [Process -> SUBSET Entry] /\ active' \in [Process -> Entry \cup {Absent}]
  BY <1>0 DEF TypeOK, CallEffect, Goto
<1>2. acked' \in BOOLEAN /\ mishap' \subseteq {"left", "unflushed"}
  BY <1>0 DEF TypeOK, HistoryEffect
<1>3. files' \in [Name -> Content]
  BY FilesType
<1>4. disk' \in [Name -> Content]
  BY <1>0, Distinct DEF TypeOK, DiskEffect, Empty, Flushed
<1>5. bound' \in BOOLEAN /\ dirDisk' \in BOOLEAN
  BY <1>0 DEF TypeOK, DiskEffect
<1>6. files = Empty => locking = {}
  BY NamesAre DEF LockKept, Empty
<1>7. dir' \in BOOLEAN
  BY <1>0 DEF TypeOK, LockEffect
<1>8. /\ owner' \in Process \cup {NoProcess}
      /\ inside' \subseteq Process /\ locking' \subseteq inside'
      /\ owner' # NoProcess => owner' \in locking'
  BY <1>0, <1>6, Distinct DEF TypeOK, LockEffect, Unlocked
<1>9. ~dir' => files' = Empty /\ inside' = {}
  <2>1. dir \/ dir' \/ (files' = files /\ inside' = inside)
    BY <1>0 DEF LockEffect, Effect, TypeOK
  <2>2. dir /\ ~dir' => files' = Empty /\ inside' = {}
    BY <1>0 DEF LockEffect
  <2> QED BY <1>0, <2>1, <2>2 DEF TypeOK
<1> QED BY <1>1, <1>2, <1>3, <1>4, <1>5, <1>7, <1>8, <1>9 DEF TypeOK

LEMMA OthersKeep ==
  ASSUME Typed, NEW p \in Process, Effect(p), NEW q \in Process \ {p}
  PROVE  /\ pc'[q] = pc[q] /\ selected'[q] = selected[q]
         /\ active'[q] = active[q] /\ done'[q] = done[q]
         /\ (q \in made' <=> q \in made) /\ (q \in visible' <=> q \in visible)
         /\ q \in inside' => q \in inside
BY DEF Typed, TypeOK, Effect, CallEffect, LockEffect, Goto

LEMMA OthersShape ==
  ASSUME Typed, NEW p \in Process, Effect(p), NEW q \in Process \ {p}
  PROVE  Shape(q)'
<1>1. Shape(q)
  BY DEF Typed
<1>2. Complete(q)' <=> Complete(q)
  BY OthersKeep DEF Complete
<1> QED BY <1>1, <1>2, OthersKeep DEF Shape

LEMMA Closed ==
  ASSUME Typed, NEW p \in Process, Close(p)
  PROVE  /\ pc'[p] = "idle" /\ p \notin inside' /\ p \notin locking' /\ owner' # p
         /\ p \notin made' /\ p \notin visible' /\ done'[p] = {}
         /\ ~Custody(p)' /\ Shape(p)'
<1>1. /\ pc'[p] = "idle" /\ p \notin inside' /\ p \notin locking' /\ owner' # p
      /\ p \notin made' /\ p \notin visible' /\ done'[p] = {}
  BY Distinct DEF Close, Goto, Typed, TypeOK, Unlocked
<1>2. ~Custody(p)'
  BY <1>1 DEF Custody, Written, Clearing, Replaying, Sealing, Removing
<1>3. Shape(p)'
  BY <1>1 DEF Shape, Replaying, Sealing
<1> QED BY <1>1, <1>2, <1>3

LEMMA Refused ==
  ASSUME Typed, NEW p \in Process, Refuse(p), pc[p] \in Beginning
  PROVE  /\ UNCHANGED storage
         /\ p \notin made => Close(p)
         /\ p \in made => /\ pc'[p] = IF p \in inside THEN "clean" ELSE "rmdir"
                          /\ p \in made' /\ p \notin visible'
                          /\ selected'[p] = selected[p]
                          /\ owner' = Unlocked(p) /\ locking' = locking \ {p}
                          /\ inside' = inside /\ UNCHANGED call
         /\ Shape(p)'
<1>0. pc[p] # "idle" /\ pc[p] # "stage" /\ pc[p] # "sync_seal" /\ pc[p] \notin Replaying
  BY DEF Beginning, Replaying
<1>1. UNCHANGED storage /\ (p \notin made => Close(p))
  BY DEF Refuse
<1>2. p \in made => /\ pc'[p] = IF p \in inside THEN "clean" ELSE "rmdir"
                    /\ p \in made' /\ p \notin visible'
                    /\ selected'[p] = selected[p]
                    /\ owner' = Unlocked(p) /\ locking' = locking \ {p}
                    /\ inside' = inside /\ UNCHANGED call
  <2>1. Shape(p) /\ TypeOK
    BY DEF Typed
  <2>2. p \in made => \E to : Goto(p, to) /\ to = IF p \in inside THEN "clean" ELSE "rmdir"
    BY DEF Refuse
  <2>3. p \notin visible
    BY <1>0, <2>1 DEF Shape
  <2> QED BY <2>1, <2>2, <2>3, Goes DEF Refuse, call
<1>3. p \in made => Shape(p)'
  BY <1>0, <1>2 DEF Typed, Shape, call, Beginning, Replaying, Sealing
<1> QED BY <1>1, <1>2, <1>3, Closed

LEMMA BeginShape ==
  ASSUME Typed, NEW p \in Process, Begin(p), TypeOK'
  PROVE  Shape(p)'
<1>0. Shape(p) /\ TypeOK /\ selected[p] \in Selection \cup {Absent}
  BY Held DEF Typed
<1>r. CASE Refuse(p) /\ pc[p] \in Beginning
  BY <1>r, Refused
<1>1. CASE Start(p)
  <2>1. pc[p] = "idle" /\ pc'[p] = "mkdir" /\ selected'[p] \in Selection
    BY <1>0, <1>1, Goes DEF Start, TypeOK
  <2> QED BY <1>0, <1>1, <2>1 DEF Start, locks, Shape, Replaying, Sealing, Beginning
<1>2. CASE MakeStage(p)
  <2>1. pc[p] = "mkdir" /\ pc'[p] = "open"
    BY <1>0, <1>2, Goes DEF MakeStage
  <2> QED BY <1>0, <1>2, <2>1 DEF MakeStage, locks, Shape, Replaying, Sealing, Beginning
<1>3. CASE OpenStage(p) /\ ~Refuse(p)
  <2>1. pc[p] = "open" /\ pc'[p] = "open_lock"
    BY <1>0, <1>3, Goes DEF OpenStage
  <2> QED BY <1>0, <1>3, <2>1 DEF OpenStage, call, Shape, Replaying, Sealing, Beginning
<1>4. CASE OpenLock(p) /\ ~Refuse(p)
  <2>1. pc[p] = "open_lock" /\ pc'[p] = "lock"
    BY <1>0, <1>4, Goes DEF OpenLock
  <2> QED BY <1>0, <1>4, <2>1 DEF OpenLock, call, Shape, Replaying, Sealing, Beginning
<1>5. CASE TakeLock(p) /\ ~Refuse(p)
  <2>1. pc[p] = "lock" /\ pc'[p] = "bind"
    BY <1>0, <1>5, Goes DEF TakeLock
  <2> QED BY <1>0, <1>5, <2>1 DEF TakeLock, call, locks, Shape, Replaying, Sealing, Beginning
<1>6. CASE Bind(p) /\ ~Refuse(p)
  <2>1. pc[p] = "bind" /\ pc'[p] \in {"sync_root", "look_sealed", "write_binding"}
        /\ (pc'[p] = "look_sealed" \/ p \in made)
    <3>1. pc[p] = "bind" /\ \/ p \in made /\ Goto(p, "sync_root")
                            \/ Goto(p, "look_sealed")
                            \/ p \in made /\ Goto(p, "write_binding")
      BY <1>6 DEF Bind
    <3> QED BY <1>0, <3>1, Goes
  <2>2. UNCHANGED <<locks, call>>
    BY <1>6 DEF Bind
  <2> QED BY <1>0, <2>1, <2>2 DEF call, locks, Shape, Replaying, Sealing, Beginning
<1>7. CASE WriteBinding(p)
  <2>1. pc[p] = "write_binding" /\ pc'[p] = "sync_binding"
    BY <1>0, <1>7, Goes DEF WriteBinding
  <2> QED BY <1>0, <1>7, <2>1 DEF WriteBinding, locks, call, Shape, Replaying, Sealing, Beginning
<1>8. CASE SyncBinding(p)
  <2>1. pc[p] = "sync_binding" /\ pc'[p] = "sync_bound"
    BY <1>0, <1>8, Goes DEF SyncBinding
  <2> QED BY <1>0, <1>8, <2>1 DEF SyncBinding, locks, call, Shape, Replaying, Sealing, Beginning
<1>9. CASE SyncBound(p)
  <2>1. pc[p] = "sync_bound" /\ pc'[p] = "sync_root"
    BY <1>0, <1>9, Goes DEF SyncBound
  <2> QED BY <1>0, <1>9, <2>1 DEF SyncBound, locks, call, Shape, Replaying, Sealing, Beginning
<1>10. CASE SyncRoot(p)
  <2>1. pc[p] = "sync_root" /\ pc'[p] = "look_sealed"
    BY <1>0, <1>10, Goes DEF SyncRoot
  <2> QED BY <1>0, <1>10, <2>1 DEF SyncRoot, locks, call, Shape, Replaying, Sealing, Beginning
<1>11. CASE LookSealed(p) /\ ~Refuse(p)
  <2>1. pc[p] = "look_sealed" /\ pc'[p] = "stage"
    BY <1>0, <1>11, Goes DEF LookSealed
  <2> QED BY <1>0, <1>11, <2>1 DEF LookSealed, locks, Shape, Replaying, Sealing, Beginning
<1>12. OpenStage(p) \/ OpenLock(p) \/ TakeLock(p) \/ Bind(p) \/ LookSealed(p)
         => pc[p] \in Beginning
  BY DEF OpenStage, OpenLock, TakeLock, Bind, LookSealed, Beginning
<1> QED BY <1>r, <1>1, <1>2, <1>3, <1>4, <1>5, <1>6, <1>7, <1>8, <1>9, <1>10, <1>11, <1>12 DEF Begin

LEMMA ReplayShape ==
  ASSUME Typed, NEW p \in Process, Placed(p), Reached(p), Replay(p), TypeOK'
  PROVE  Shape(p)'
<1>0. Shape(p) /\ TypeOK
  BY DEF Typed
<1>1. CASE BeginEntry(p)
  <2>1. pc[p] = "stage" /\ pc'[p] = "write" /\ p \notin visible
        /\ active'[p] \in selected[p]
    <3>1. PICK e \in selected[p] : active' = [active EXCEPT ![p] = e]
      BY <1>1 DEF BeginEntry
    <3> QED BY <1>0, <1>1, <3>1, Goes DEF BeginEntry, TypeOK
  <2> QED BY <1>0, <1>1, <2>1 DEF BeginEntry, locks, Shape, Replaying, Sealing, Beginning
<1>2. CASE VerifyEntry(p)
  BY <1>0, <1>2 DEF VerifyEntry, locks, Shape, Replaying, Sealing, Beginning
<1>3. CASE WriteEntry(p)
  <2>1. pc[p] = "write" /\ pc'[p] = "rename_entry"
    BY <1>0, <1>3, Goes DEF WriteEntry
  <2> QED BY <1>0, <1>3, <2>1 DEF WriteEntry, locks, call, Shape, Replaying, Sealing, Beginning
<1>4. CASE RenameEntry(p)
  <2>1. pc[p] = "rename_entry" /\ pc'[p] = "sync_entry"
    BY <1>0, <1>4, Goes DEF RenameEntry
  <2> QED BY <1>0, <1>4, <2>1 DEF RenameEntry, locks, call, Shape, Replaying, Sealing, Beginning
<1>5. CASE EndEntry(p)
  <2>1. pc[p] = "sync_entry" /\ pc'[p] = "stage"
    BY <1>0, <1>5, Goes DEF EndEntry, EntryDone
  <2> QED BY <1>0, <1>5, <2>1 DEF EndEntry, locks, Shape, Replaying, Sealing, Beginning
<1>6. CASE Seal(p)
  <2>1. pc[p] = "stage" /\ Complete(p)
        /\ \/ pc'[p] = "write_seal" /\ visible' = visible
           \/ pc'[p] = "sync_seal" /\ p \in visible'
    BY <1>0, <1>6, Goes DEF Seal
  <2>2. Complete(p)'
    BY <1>6, <2>1 DEF Seal, Complete
  <2>3. Sees(p, Sealed) = Absent => p \notin visible
    <3>1. p \in inside /\ selected[p] \in Selection
      BY <1>0, <2>1 DEF Placed, Custody, Written, Shape
    <3> QED BY <3>1, Distinct DEF Reached, Sees
  <2>4. CASE pc'[p] = "write_seal" /\ visible' = visible /\ p \notin visible
    BY <1>0, <1>6, <2>1, <2>2, <2>4 DEF Seal, locks, Shape, Replaying, Sealing, Beginning
  <2>5. CASE pc'[p] = "sync_seal" /\ p \in visible'
    BY <1>0, <1>6, <2>1, <2>2, <2>5 DEF Seal, locks, Shape, Replaying, Sealing, Beginning
  <2>6. pc'[p] = "write_seal" => p \notin visible
    BY <1>0, <1>6, <2>3, Goes DEF Seal
  <2> QED BY <2>1, <2>4, <2>5, <2>6
<1>7. CASE WriteSeal(p)
  <2>1. pc[p] = "write_seal" /\ pc'[p] = "rename_seal"
    BY <1>0, <1>7, Goes DEF WriteSeal
  <2>2. Complete(p)' <=> Complete(p)
    BY <1>7 DEF WriteSeal, call, Complete
  <2> QED BY <1>0, <1>7, <2>1, <2>2 DEF WriteSeal, locks, call, Shape, Replaying, Sealing, Beginning
<1>8. CASE RenameSeal(p)
  <2>1. pc[p] = "rename_seal" /\ pc'[p] = "sync_seal"
    BY <1>0, <1>8, Goes DEF RenameSeal
  <2>2. Complete(p)' <=> Complete(p)
    BY <1>8 DEF RenameSeal, Complete
  <2> QED BY <1>0, <1>8, <2>1, <2>2 DEF RenameSeal, locks, Shape, Replaying, Sealing, Beginning
<1> QED BY <1>1, <1>2, <1>3, <1>4, <1>5, <1>6, <1>7, <1>8 DEF Replay

LEMMA AbandonShape ==
  ASSUME Typed, NEW p \in Process, Abandon(p), TypeOK'
  PROVE  Shape(p)'
<1>0. Shape(p) /\ TypeOK
  BY DEF Typed
<1>c. CASE Close(p)
  BY <1>c, Closed
<1>1. CASE Drop(p) /\ ~Close(p)
  <2>1. pc[p] \in {"stage", "write"} /\ pc'[p] = "abandon" /\ p \notin visible
    BY <1>0, <1>1, Goes DEF Drop
  <2> QED BY <1>0, <1>1, <2>1 DEF Drop, locks, call, Shape, Replaying, Sealing, Beginning
<1>2. CASE UnlinkFile(p)
  BY <1>0, <1>2 DEF UnlinkFile, locks, call, Shape, Complete
<1>3. ASSUME NEW to \in {"unlink_binding", "unlock", "unlink_lock", "rmdir", "sync_removed"},
             Goto(p, to), pc[p] \in Removing, UNCHANGED call
      PROVE  Shape(p)'
  <2>1. pc'[p] = to
    BY <1>0, <1>3, Goes
  <2> QED BY <1>0, <1>3, <2>1 DEF call, Shape, Removing, Replaying, Sealing, Beginning
<1>4. CASE FilesUnlinked(p)
  BY <1>3, <1>4 DEF FilesUnlinked, Removing
<1>5. CASE UnlinkBinding(p)
  BY <1>3, <1>5 DEF UnlinkBinding, Removing
<1>6. CASE Unlock(p)
  BY <1>3, <1>6 DEF Unlock, Removing
<1>7. CASE UnlinkLock(p)
  BY <1>3, <1>7 DEF UnlinkLock, Removing
<1>8. CASE RemoveStage(p)
  BY <1>3, <1>8 DEF RemoveStage, Removing
<1> QED BY <1>c, <1>1, <1>2, <1>4, <1>5, <1>6, <1>7, <1>8 DEF Abandon, SyncRemoved

LEMMA FailShape ==
  ASSUME Typed, NEW p \in Process, CallFails(p), TypeOK'
  PROVE  Shape(p)'
<1>0. Shape(p) /\ TypeOK
  BY DEF Typed
<1>1. CASE Close(p)
  BY <1>1, Closed
<1>2. CASE pc[p] \in Beginning /\ Refuse(p)
  BY <1>2, Refused
<1>3. CASE pc[p] \in Replaying /\ Goto(p, "abandon") /\ UNCHANGED <<locks, call>>
  <2>1. pc'[p] = "abandon"
    BY <1>0, <1>3, Goes
  <2> QED BY <1>0, <1>3, <2>1 DEF locks, call, Shape, Replaying, Sealing, Beginning
<1>4. CASE pc[p] \in Sealing /\ Goto(p, "stage") /\ UNCHANGED <<locks, call>>
  <2>1. pc'[p] = "stage"
    BY <1>0, <1>4, Goes
  <2> QED BY <1>0, <1>4, <2>1 DEF locks, call, Shape, Replaying, Sealing, Beginning
<1>5. CASE /\ pc[p] \in Removing /\ UNCHANGED <<locks, call>>
           /\ \E to \in {"unlink_binding", "unlock", "rmdir", "sync_removed"} : Goto(p, to)
  <2>1. PICK to \in {"unlink_binding", "unlock", "rmdir", "sync_removed"} : pc'[p] = to
    BY <1>0, <1>5, Goes
  <2> QED BY <1>0, <1>5, <2>1 DEF locks, call, Shape, Removing, Replaying, Sealing, Beginning
<1> QED BY <1>1, <1>2, <1>3, <1>4, <1>5, Fails DEF Removing

LEMMA TypedStep ==
  ASSUME Typed, LockKept, NEW p \in Process, Placed(p), Reached(p), Acts(p)
  PROVE  Typed' /\ Effect(p)
<1>1. Effect(p)
  BY Effects
<1>2. TypeOK'
  BY <1>1, TypeStep
<1>3. Shape(p)'
  BY <1>2, BeginShape, ReplayShape, AbandonShape, FailShape, Closed DEF Acts, SyncSeal, Crash
<1>4. \A q \in Process : Shape(q)'
  BY <1>1, <1>3, OthersShape
<1> QED BY <1>1, <1>2, <1>4 DEF Typed

-----------------------------------------------------------------------------
(* Files, one by one.                                                      *)

LEMMA FilesStay ==
  ASSUME Typed, NEW p \in Process, Effect(p)
  PROVE  /\ \/ files'[LockFile] = files[LockFile]
            \/ pc[p] = "open_lock" /\ files'[LockFile] = Exact
            \/ pc[p] = "unlink_lock" /\ locking' = {}
         /\ \/ files'[Binding] = files[Binding]
            \/ pc[p] = "bind" /\ p \in made /\ p \in inside /\ files[Binding] = Absent
            \/ pc[p] = "write_binding"
            \/ pc[p] = "unlink_binding" /\ files'[Binding] = Absent
         /\ \/ files'[Sealed] = files[Sealed]
            \/ pc[p] = "rename_seal" /\ files'[Sealed] = files[SealedPending]
            \/ pc[p] \in {"clean", "abandon"} /\ files'[Sealed] = Absent
         /\ \A e \in Entry :
              \/ files'[Payload(e)] = files[Payload(e)]
              \/ pc[p] = "rename_entry"
              \/ pc[p] \in {"clean", "abandon"}
<1>0. files \in [Name -> Content]
  BY DEF Typed, TypeOK
<1>1. CASE files' = files
  BY <1>1
<1>2. CASE FileEffect(p)
  <2>1. CASE pc[p] = "stage" /\ \E e \in selected[p] : files' = [files EXCEPT ![Pending(e)] = Partial]
    BY <1>0, <2>1, EntriesAre, NamesAre
  <2>2. CASE pc[p] = "write" /\ files' = [files EXCEPT ![Pending(active[p])] = Exact]
    BY <1>0, <2>2, EntriesAre, NamesAre DEF Replaying
  <2>3. CASE /\ pc[p] = "rename_entry"
             /\ files' = [files EXCEPT ![Payload(active[p])] = files[Pending(active[p])],
                                       ![Pending(active[p])] = Absent]
    BY <1>0, <2>3, EntriesAre, NamesAre DEF Replaying
  <2>4. CASE /\ pc[p] \in {"clean", "abandon"}
             /\ \E n \in Doomed(p) : files' = [files EXCEPT ![n] = Absent]
    BY <1>0, <2>4, EntriesAre, NamesAre
  <2>5. CASE pc[p] = "open_lock" /\ files' = [files EXCEPT ![LockFile] = Exact]
    BY <1>0, <2>5, NamesAre
  <2>6. CASE pc[p] = "unlink_lock" /\ files' = [files EXCEPT ![LockFile] = Absent] /\ locking' = {}
    BY <1>0, <2>6, NamesAre
  <2>7. CASE \E c : files' = [files EXCEPT ![SealedPending] = c]
    BY <1>0, <2>7, NamesAre
  <2>8. CASE /\ pc[p] = "rename_seal"
             /\ files' = [files EXCEPT ![Sealed] = files[SealedPending], ![SealedPending] = Absent]
    BY <1>0, <2>8, NamesAre
  <2>9. CASE /\ \/ pc[p] = "bind" /\ p \in made /\ p \in inside /\ files[Binding] = Absent
                \/ pc[p] = "write_binding"
             /\ \E c : files' = [files EXCEPT ![Binding] = c]
    BY <1>0, <2>9, NamesAre
  <2>11. CASE pc[p] = "unlink_binding" /\ files' = [files EXCEPT ![Binding] = Absent]
    BY <1>0, <2>11, NamesAre
  <2>10. files' = files \/ p \in inside
    BY DEF Effect
  <2> QED BY <1>1, <1>2, <2>1, <2>2, <2>3, <2>4, <2>5, <2>6, <2>7, <2>8, <2>9, <2>10, <2>11 DEF FileEffect
<1> QED BY <1>1, <1>2 DEF Effect

LEMMA Starts ==
  ASSUME NEW p \in Process, Acts(p), pc[p] = "idle"
  PROVE  Start(p)
<1>1. ~CallFails(p)
  BY Fails DEF Beginning, Replaying, Sealing
<1> QED BY <1>1 DEF Acts, Begin, Replay, Abandon, MakeStage, OpenStage, OpenLock, TakeLock, Bind,
             WriteBinding, SyncBinding, SyncBound, SyncRoot, LookSealed, BeginEntry, VerifyEntry,
             WriteEntry, RenameEntry, EndEntry, Seal, WriteSeal, RenameSeal, Drop, UnlinkFile,
             FilesUnlinked, UnlinkBinding, Unlock, UnlinkLock, RemoveStage, SyncRemoved,
             SyncSeal, Crash

LEMMA AloneStep ==
  ASSUME Typed, Alone, NEW p \in Process, Acts(p), Effect(p)
  PROVE  Alone'
<1>0. world' = world
  BY DEF Acts
<1>1. pc[p] = "idle" => "overlap" \in world \/ \A q \in Process : pc[q] = "idle"
  BY Starts DEF Start
<1> QED BY <1>0, <1>1, OthersKeep DEF Alone

LEMMA LockKeptStep ==
  ASSUME Typed, LockKept, NEW p \in Process, Effect(p)
  PROVE  LockKept'
<1>1. \/ locking' \subseteq locking
      \/ files'[LockFile] = Exact
  BY NamesAre DEF Effect, LockEffect, Typed, TypeOK
<1> QED BY <1>1, FilesStay, Distinct DEF LockKept

\* A marker stays, with all that it promises.
LEMMA SealedStays ==
  ASSUME IInv, NEW p \in Process, Effect(p), files[Sealed] # Absent
  PROVE  /\ dir /\ dir' = dir
         /\ files'[Sealed] = files[Sealed] /\ files'[Binding] = files[Binding]
         /\ \A e \in Entry : files'[Payload(e)] = files[Payload(e)]
<1>0. Typed /\ TypeOK /\ Reached(p) /\ Shape(p)
  BY DEF IInv, Typed
<1>1. /\ pc[p] \notin Clearing
      /\ ~(pc[p] \in Beginning /\ p \in made)
      /\ pc[p] \notin Replaying /\ (pc[p] \in Sealing => pc[p] = "sync_seal")
  BY <1>0 DEF Reached, Shape, Replaying, Sealing
<1>2. /\ pc[p] \notin {"clean", "abandon", "unlink_binding", "rename_entry", "rename_seal",
                       "write_binding"}
      /\ ~(pc[p] = "bind" /\ p \in made)
  BY <1>0, <1>1 DEF Shape, Clearing, Removing, Beginning, Replaying, Sealing
<1>3. files # Empty
  BY NamesAre DEF Empty
<1>4. dir /\ dir' = dir
  BY <1>0, <1>3 DEF Effect, LockEffect, TypeOK
<1> QED BY <1>0, <1>2, <1>4, FilesStay

LEMMA MarkedStep ==
  ASSUME IInv, NEW p \in Process, Effect(p)
  PROVE  Marked'
<1>0. Typed /\ TypeOK /\ Reached(p) /\ Shape(p) /\ Marked /\ DiskEffect(p)
  BY DEF IInv, Typed, Effect
<1>1. CASE files[Sealed] # Absent
  <2>1. files'[Sealed] = files[Sealed] /\ files[Sealed] \in Selection
    BY <1>0, <1>1, SealedStays DEF Marked
  <2>2. \A e \in Entry : files'[Payload(e)] = files[Payload(e)]
    BY <1>1, SealedStays
  <2>3. dir
    BY <1>1, SealedStays
  <2>4. \/ disk' = disk
        \/ disk' = [n \in Name |-> Flushed(n)]
    BY <1>0, <2>3 DEF DiskEffect
  <2>5. Flushed(Sealed) = files[Sealed] /\ \A e \in Entry : Flushed(Payload(e)) = files[Payload(e)]
    BY NamesAre DEF Flushed
  <2>6. ASSUME NEW s \in Selection, files[Sealed] = s, NEW e \in s
        PROVE  files'[Payload(e)] = Exact /\ disk'[Payload(e)] = Exact
    <3>1. e \in Entry /\ files[Payload(e)] = Exact /\ disk[Payload(e)] = Exact
      BY <1>0, <2>6, Distinct DEF Marked
    <3> QED BY <2>2, <2>4, <2>5, <3>1, NamesAre
  <2>7. disk'[Sealed] # Absent => files'[Sealed] = disk'[Sealed]
    BY <1>0, <2>1, <2>4, <2>5, NamesAre DEF Marked
  <2> QED BY <2>1, <2>6, <2>7 DEF Marked
<1>2. CASE files[Sealed] = Absent /\ files'[Sealed] = Absent
  <2>1. disk[Sealed] = Absent
    BY <1>0, <1>2 DEF Marked
  <2>2. disk'[Sealed] = Absent
    BY <1>0, <1>2, <2>1, NamesAre DEF DiskEffect, Flushed, Empty
  <2> QED BY <1>2, <2>2, Distinct DEF Marked
<1>3. CASE files[Sealed] = Absent /\ files'[Sealed] # Absent
  <2>1. pc[p] = "rename_seal" /\ files'[Sealed] = files[SealedPending]
    BY <1>0, <1>3, FilesStay
  <2>2. files'[Sealed] = selected[p] /\ selected[p] \in Selection /\ Complete(p)
    BY <1>0, <2>1 DEF Reached, Shape, Sealing
  <2>3. \A e \in selected[p] : e \in Entry /\ files[Payload(e)] = Exact /\ disk[Payload(e)] = Exact
    BY <1>0, <2>1, <2>2, Distinct DEF Reached, Complete, Sealing
  <2>4. \A e \in Entry : files'[Payload(e)] = files[Payload(e)]
    BY <1>0, <2>1, FilesStay
  <2>5. disk' = disk
    BY <1>0, <2>1 DEF DiskEffect
  <2>6. disk'[Sealed] = Absent
    BY <1>0, <1>3, <2>5 DEF Marked
  <2> QED BY <2>2, <2>3, <2>4, <2>5, <2>6, Distinct DEF Marked
<1> QED BY <1>1, <1>2, <1>3

-----------------------------------------------------------------------------
(* Whose stage it is.                                                      *)

\* What a process does that the stage does not belong to.
LEMMA OutsideSteps ==
  ASSUME Typed, NEW p \in Process, Acts(p), ~Custody(p)
  PROVE  \/ (Start(p) \/ MakeStage(p) \/ OpenStage(p) \/ OpenLock(p) \/ TakeLock(p) \/ Bind(p)
               \/ SyncRemoved(p)) /\ UNCHANGED history
         \/ Close(p) /\ UNCHANGED storage /\ acked' = acked
<1>0. /\ pc[p] \notin Written \cup Clearing \cup {"write_binding"}
      /\ pc[p] # "sync_removed" => p \notin made
  BY DEF Custody
<1>1. CASE CallFails(p)
  <2>1. UNCHANGED storage /\ acked' = acked
    BY <1>1 DEF CallFails
  <2>2. pc[p] \notin (Replaying \cup Sealing \cup Removing) \ {"sync_removed"}
    BY <1>0 DEF Written, Clearing
  <2>3. pc[p] \in Beginning /\ Refuse(p) => Close(p)
    BY <1>0 DEF Refuse, Beginning
  <2> QED BY <1>1, <2>1, <2>2, <2>3, Fails DEF Replaying, Sealing, Removing
<1>2. CASE Crash(p)
  BY <1>2 DEF Crash
<1>3. CASE SyncSeal(p)
  BY <1>0, <1>3 DEF SyncSeal, Written, Sealing
<1>4. CASE Begin(p) /\ UNCHANGED history
  BY <1>0, <1>4 DEF Begin, Written, WriteBinding, SyncBinding, SyncBound, SyncRoot, LookSealed
<1>5. CASE Replay(p) /\ UNCHANGED history
  BY <1>0, <1>5 DEF Replay, Written, Replaying, Sealing, BeginEntry, VerifyEntry, WriteEntry,
                    RenameEntry, EndEntry, Seal, WriteSeal, RenameSeal
<1>6. CASE Abandon(p) /\ UNCHANGED history
  BY <1>0, <1>6 DEF Abandon, Written, Clearing, Replaying, Removing, Drop, UnlinkFile,
                    FilesUnlinked, UnlinkBinding, Unlock, UnlinkLock, RemoveStage
<1> QED BY <1>1, <1>2, <1>3, <1>4, <1>5, <1>6 DEF Acts

LEMMA OutsideEffect ==
  ASSUME Typed, NEW p \in Process, Acts(p), Effect(p), ~Custody(p)
  PROVE  /\ bound' = bound /\ acked' = acked
         /\ \A n \in Name \ {LockFile} : files'[n] = files[n]
         /\ dir => /\ dir' = dir /\ disk' = disk
                   /\ \A q \in Process \ {p} : q \in inside' <=> q \in inside
         /\ \A q \in Process \ {p} : q \in locking' <=> q \in locking
         /\ \/ owner' = owner
            \/ owner \in {p, NoProcess} /\ owner' \in {p, NoProcess}
         /\ dirDisk' \in {dirDisk, dir}
<1>0. /\ pc[p] \notin Written \cup Clearing \cup {"write_binding"}
      /\ pc[p] # "sync_removed" => p \notin made
  BY DEF Custody
<1>1. /\ pc[p] \notin {"write_binding", "sync_binding", "sync_bound", "stage", "write",
                       "rename_entry", "sync_entry", "write_seal", "rename_seal", "sync_seal",
                       "clean", "abandon", "unlink_binding", "unlink_lock", "rmdir"}
      /\ ~(pc[p] = "bind" /\ p \in made)
  BY <1>0 DEF Written, Clearing, Replaying, Sealing, Removing
<1>2. DiskEffect(p) /\ LockEffect(p) /\ (files' = files \/ FileEffect(p))
  BY DEF Effect
<1>3. acked' = acked
  BY OutsideSteps DEF history
<1>4. bound' = bound /\ (dir => disk' = disk) /\ dirDisk' \in {dirDisk, dir}
  BY <1>1, <1>2 DEF DiskEffect
<1>5. \A n \in Name \ {LockFile} : files'[n] = files[n]
  <2>1. files' = files \/ files' = [files EXCEPT ![LockFile] = Exact]
    BY <1>1, <1>2 DEF FileEffect
  <2> QED BY <2>1 DEF Typed, TypeOK
<1>6. /\ dir => /\ dir' = dir /\ \A q \in Process \ {p} : q \in inside' <=> q \in inside
      /\ \A q \in Process \ {p} : q \in locking' <=> q \in locking
      /\ \/ owner' = owner
         \/ owner \in {p, NoProcess} /\ owner' \in {p, NoProcess}
  BY <1>1, <1>2 DEF LockEffect, Unlocked
<1> QED BY <1>3, <1>4, <1>5, <1>6

\* How the stage becomes a process's: it makes the directory, or it finds the
\* binding that it wants.
NewStage(p) ==
  /\ pc[p] = "mkdir" /\ ~dir /\ dir' = TRUE
  /\ pc'[p] = "open" /\ p \in made'
  /\ files' = files /\ disk' = Empty /\ UNCHANGED <<dirDisk, bound, locks, history>>

Accepted(p) ==
  /\ pc[p] = "bind" /\ p \notin made /\ p \in inside
  /\ selected[p] \in Selection /\ files[Binding] = selected[p]
  /\ pc'[p] = "look_sealed"
  /\ UNCHANGED <<storage, locks, call, history>>

LEMMA NewCustody ==
  ASSUME Typed, NEW p \in Process, Acts(p), ~Custody(p), Custody(p)'
  PROVE  NewStage(p) \/ Accepted(p)
<1>0. Shape(p) /\ TypeOK
  BY DEF Typed
<1>1. CASE Close(p)
  BY <1>1, Closed
<1>2. CASE Start(p)
  <2>1. pc'[p] = "mkdir" /\ made' = made /\ pc[p] = "idle"
    BY <1>0, <1>2, Goes DEF Start
  <2> QED BY <1>0, <2>1 DEF Shape, Custody, Written, Clearing, Replaying, Sealing, Removing
<1>3. CASE MakeStage(p) /\ UNCHANGED history
  <2>1. pc'[p] = "open" /\ pc[p] = "mkdir"
    BY <1>0, <1>3, Goes DEF MakeStage
  <2>2. p \in made'
    BY <2>1 DEF Custody, Written, Clearing, Replaying, Sealing, Removing
  <2>3. p \notin made
    BY <1>0, <2>1 DEF Shape
  <2> QED BY <1>3, <2>1, <2>2, <2>3 DEF MakeStage, NewStage
<1>4. CASE ~Close(p) /\ (OpenStage(p) \/ OpenLock(p) \/ TakeLock(p))
  <2>1. p \notin made /\ pc[p] \in Beginning
    BY <1>4 DEF Custody, OpenStage, OpenLock, TakeLock, Beginning
  <2>2. \E to \in {"open_lock", "lock", "bind"} : Goto(p, to) /\ made' = made
    BY <1>4, <2>1 DEF OpenStage, OpenLock, TakeLock, Refuse, call
  <2>3. pc'[p] \in {"open_lock", "lock", "bind"} /\ p \notin made'
    BY <1>0, <2>1, <2>2, Goes
  <2> QED BY <2>3 DEF Custody, Written, Clearing, Replaying, Sealing, Removing
<1>5. CASE ~Close(p) /\ Bind(p) /\ UNCHANGED history
  <2>1. p \notin made /\ pc[p] = "bind"
    BY <1>5 DEF Custody, Bind
  <2>2. /\ Sees(p, Binding) = selected[p] /\ Goto(p, "look_sealed")
        /\ UNCHANGED <<storage, locks, call>>
    BY <1>5, <2>1 DEF Bind, Refuse
  <2>3. selected[p] \in Selection
    BY <1>0, <2>1 DEF Shape
  <2>4. p \in inside /\ files[Binding] = selected[p]
    BY <2>2, <2>3, Distinct DEF Sees
  <2> QED BY <1>0, <1>5, <2>1, <2>2, <2>3, <2>4, Goes DEF Accepted
<1>6. CASE SyncRemoved(p)
  BY <1>6, Closed DEF SyncRemoved
<1> QED BY <1>1, <1>2, <1>3, <1>4, <1>5, <1>6, OutsideSteps

\* Whoever takes over a stage has its lock, or is alone.
LEMMA AcceptedAlone ==
  ASSUME IInv, NEW p \in Process, Accepted(p)
  PROVE  /\ "overlap" \in world => owner = p
         /\ \A q \in Process \ {p} : ~Custody(q)
<1>0. Typed /\ Alone /\ Guarded(p) /\ Shape(p) /\ p \in Process
  BY DEF IInv, Typed
<1>1. files[Binding] # Absent
  BY Distinct DEF Accepted
<1>2. "overlap" \in world => owner = p
  BY <1>0, <1>1 DEF Guarded, Waiting, Accepted
<1>3. ASSUME NEW q \in Process \ {p}, Custody(q) PROVE FALSE
  <2>1. Guarded(q) /\ Shape(q)
    BY DEF IInv, Typed
  <2>2. pc[q] # "idle"
    BY <1>3, <2>1 DEF Custody, Shape, Written, Clearing, Replaying, Sealing, Removing
  <2>3. pc[p] # "idle"
    BY DEF Accepted
  <2> QED BY <1>0, <1>1, <1>2, <1>3, <2>1, <2>2, <2>3 DEF Alone, Guarded, Owned
<1> QED BY <1>2, <1>3

LEMMA OneStep ==
  ASSUME IInv, NEW p \in Process, Acts(p), Effect(p)
  PROVE  One'
<1>0. Typed /\ One /\ \A q \in Process : Placed(q)
  BY DEF IInv
<1>1. \A q \in Process \ {p} : Custody(q)' <=> Custody(q)
  BY <1>0, OthersKeep DEF Custody
<1>2. CASE Custody(p)' => Custody(p)
  BY <1>0, <1>1, <1>2 DEF One
<1>3. CASE Custody(p)' /\ ~Custody(p)
  <2>1. \A q \in Process \ {p} : ~Custody(q)
    BY <1>0, <1>3, NewCustody, AcceptedAlone DEF NewStage, Placed
  <2> QED BY <1>1, <2>1 DEF One
<1> QED BY <1>2, <1>3

-----------------------------------------------------------------------------
(* What the one whose stage it is finds, step by step.                     *)

Mine(p) ==
  /\ Placed(p) /\ Reached(p)
  /\ "overlap" \in world => Owned(p)
  /\ p \in made => Flushing(p)

LEMMA Custodian ==
  ASSUME IInv, NEW p \in Process, Custody(p)
  PROVE  /\ Typed /\ TypeOK /\ Shape(p) /\ Mine(p) /\ Marked /\ dir
         /\ files \in [Name -> Content] /\ pc[p] # "idle"
         /\ selected[p] \in Selection /\ selected[p] # Absent /\ selected[p] # Partial
         /\ pc[p] \notin {"open", "rmdir"} => p \in inside
         /\ pc[p] \in {"open_lock", "lock", "bind", "open"} => p \in made
<1>1. Typed /\ TypeOK /\ Shape(p) /\ Mine(p) /\ Marked /\ dir
  BY DEF IInv, Typed, Mine, Guarded, Anchored, Placed
<1>2. pc[p] # "idle"
  BY <1>1 DEF Custody, Shape, Written, Clearing, Replaying, Sealing, Removing
<1>3. pc[p] \in {"open_lock", "lock", "bind", "open"} => p \in made
  BY DEF Custody, Written, Clearing, Replaying, Sealing, Removing
<1> QED BY <1>1, <1>2, <1>3, Distinct DEF Mine, Placed, Shape, TypeOK

LEMMA BeginMine ==
  ASSUME IInv, NEW p \in Process, Custody(p), Begin(p), UNCHANGED <<world, history>>, ~Refuse(p)
  PROVE  Mine(p)'
<1>0. /\ Typed /\ TypeOK /\ Shape(p) /\ Mine(p) /\ dir
      /\ files \in [Name -> Content] /\ pc[p] # "idle"
      /\ selected[p] \in Selection /\ selected[p] # Absent /\ selected[p] # Partial
      /\ pc[p] \notin {"open", "rmdir"} => p \in inside
      /\ pc[p] \in {"open_lock", "lock", "bind", "open"} => p \in made
  BY Custodian
<1>1. CASE Start(p)
  BY <1>0, <1>1 DEF Start
<1>2. CASE MakeStage(p)
  BY <1>0, <1>2 DEF MakeStage, Shape, Custody, Written, Clearing, Replaying, Sealing, Removing
<1>3. CASE OpenStage(p)
  <2>1. pc[p] = "open" /\ pc'[p] = "open_lock" /\ p \in made
        /\ UNCHANGED <<storage, owner, locking, call>> /\ inside' = inside \cup {p}
    BY <1>0, <1>3, Goes DEF OpenStage
  <2> QED BY <1>0, <2>1 DEF Mine, Placed, Reached, Owned, Flushing, Custody, Cleared, storage, call,
             Written, Clearing, Beginning, Replaying, Sealing, Removing, history
<1>4. CASE OpenLock(p)
  <2>1. pc[p] = "open_lock" /\ pc'[p] = "lock" /\ p \in made /\ p \in inside
        /\ files' = [files EXCEPT ![LockFile] = Exact]
        /\ UNCHANGED <<dir, dirDisk, disk, bound, owner, inside, call>>
    BY <1>0, <1>4, Goes DEF OpenLock, Put
  <2>2. files'[Binding] = files[Binding] /\ files'[Sealed] = files[Sealed]
    BY <1>0, <2>1, NamesAre
  <2> QED BY <1>0, <2>1, <2>2 DEF Mine, Placed, Reached, Owned, Flushing, Custody, Cleared, call,
             Written, Clearing, Beginning, Replaying, Sealing, Removing, history, Shape
<1>5. CASE TakeLock(p)
  <2>1. pc[p] = "lock" /\ pc'[p] = "bind" /\ p \in made /\ p \in inside
        /\ UNCHANGED <<storage, inside, call>>
    BY <1>0, <1>5, Goes DEF TakeLock, locks
  <2>2. files[Binding] = Absent
    BY <1>0, <2>1 DEF Mine, Reached
  <2> QED BY <1>0, <2>1, <2>2 DEF Mine, Placed, Reached, Owned, Flushing, Custody, Cleared, call, storage,
             Written, Clearing, Beginning, Replaying, Sealing, Removing, history, Shape
<1>6. CASE Bind(p)
  <2>1. pc[p] = "bind" /\ p \in made /\ p \in inside
    BY <1>0, <1>6 DEF Bind
  <2>2. files[Binding] = Absent /\ Sees(p, Binding) = Absent
    BY <1>0, <2>1 DEF Mine, Reached, Sees
  <2>3. /\ files' = [files EXCEPT ![Binding] = Partial] /\ pc'[p] = "write_binding"
        /\ UNCHANGED <<dir, dirDisk, disk, locks, call>>
    BY <1>0, <1>6, <2>1, <2>2, Goes DEF Bind, Put
  <2>4. files'[Binding] = Partial /\ files'[Sealed] = files[Sealed]
    BY <1>0, <2>3, NamesAre
  <2>5. "overlap" \in world => owner = p
    BY <1>0, <2>1 DEF IInv, Guarded, Waiting
  <2> QED BY <1>0, <2>1, <2>3, <2>4, <2>5 DEF Mine, Placed, Reached, Owned, Flushing, Custody, Cleared,
             call, locks, Written, Clearing, Beginning, Replaying, Sealing, Removing, history, Shape
<1>7. CASE WriteBinding(p)
  <2>1. pc[p] = "write_binding" /\ p \in inside /\ p \in made
    BY <1>0, <1>7 DEF WriteBinding, Shape
  <2>2. /\ files' = [files EXCEPT ![Binding] = selected[p]] /\ pc'[p] = "sync_binding"
        /\ UNCHANGED <<dir, dirDisk, disk, bound, locks, call>>
    BY <1>0, <1>7, <2>1, Goes DEF WriteBinding, Put
  <2>3. files'[Binding] = selected[p] /\ files'[Sealed] = files[Sealed]
    BY <1>0, <2>2, NamesAre
  <2>4. files[Binding] # Absent
    BY <1>0, <2>1, Distinct DEF Mine, Reached
  <2> QED BY <1>0, <2>1, <2>2, <2>3, <2>4 DEF Mine, Placed, Reached, Owned, Flushing, Custody, Cleared,
             call, locks, Written, Clearing, Beginning, Replaying, Sealing, Removing, history, Shape
<1>8. CASE SyncBinding(p)
  <2>1. pc[p] = "sync_binding" /\ p \in inside /\ p \in made /\ pc'[p] = "sync_bound" /\ bound' = TRUE
        /\ UNCHANGED <<dir, dirDisk, files, disk, locks, call>>
    BY <1>0, <1>8, Goes DEF SyncBinding, Shape
  <2> QED BY <1>0, <2>1 DEF Mine, Placed, Reached, Owned, Flushing, Custody, Cleared,
             call, locks, Written, Clearing, Beginning, Replaying, Sealing, Removing, history, Shape
<1>9. CASE SyncBound(p)
  <2>1. pc[p] = "sync_bound" /\ p \in inside /\ p \in made /\ pc'[p] = "sync_root"
        /\ UNCHANGED <<dir, dirDisk, files, bound, locks, call>>
    BY <1>0, <1>9, Goes DEF SyncBound, Shape
  <2> QED BY <1>0, <2>1 DEF Mine, Placed, Reached, Owned, Flushing, Custody, Cleared,
             call, locks, Written, Clearing, Beginning, Replaying, Sealing, Removing, history, Shape
<1>10. CASE SyncRoot(p)
  <2>1. pc[p] = "sync_root" /\ p \in inside /\ p \in made /\ pc'[p] = "look_sealed"
        /\ dirDisk' = dir /\ UNCHANGED <<dir, files, disk, bound, locks, call>>
    BY <1>0, <1>10, Goes DEF SyncRoot, Shape
  <2> QED BY <1>0, <2>1 DEF Mine, Placed, Reached, Owned, Flushing, Custody, Cleared,
             call, locks, Written, Clearing, Beginning, Replaying, Sealing, Removing, history, Shape
<1>11. CASE LookSealed(p)
  <2>1. pc[p] = "look_sealed" /\ p \in inside /\ pc'[p] = "stage"
        /\ files[Sealed] \in {Absent, selected[p]}
        /\ visible' = (IF files[Sealed] = Absent THEN visible ELSE visible \cup {p})
        /\ UNCHANGED <<storage, locks, selected, made, done, active>>
    BY <1>0, <1>11, Goes DEF LookSealed, Sees
  <2>2. done[p] = {} /\ p \notin visible /\ (p \in visible' <=> files[Sealed] # Absent)
    BY <1>0, <2>1 DEF Shape, Beginning
  <2> QED BY <1>0, <2>1, <2>2 DEF Mine, Placed, Reached, Owned, Flushing, Custody, Cleared,
             storage, locks, Written, Clearing, Beginning, Replaying, Sealing, Removing, history
<1> QED BY <1>1, <1>2, <1>3, <1>4, <1>5, <1>6, <1>7, <1>8, <1>9, <1>10, <1>11 DEF Begin

\* Whoever is refused in a shared stage that it made has not bound it yet.
LEMMA RefusedEarly ==
  ASSUME IInv, NEW p \in Process, Custody(p), Begin(p), Refuse(p), p \in made
  PROVE  pc[p] \in Beginning /\ files[Binding] = Absent
<1>0. /\ TypeOK /\ Shape(p) /\ Mine(p) /\ dir /\ selected[p] # Absent
      /\ pc[p] \notin {"open", "rmdir"} => p \in inside
  BY Custodian
<1>1. p \in made'
  BY <1>0 DEF Refuse, call
<1>2. pc'[p] \in {"clean", "rmdir"}
  BY <1>0, Goes DEF Refuse
<1>g. ASSUME NEW to \in Beginning \cup {"mkdir"}, Goto(p, to) PROVE FALSE
  <2>1. pc'[p] = to
    BY <1>0, <1>g, Goes
  <2> QED BY <1>2, <2>1 DEF Beginning
<1>3. CASE OpenStage(p) \/ OpenLock(p) \/ Start(p) \/ MakeStage(p)
  <2>1. dir /\ (pc[p] = "open_lock" => p \in inside)
    BY <1>0
  <2>2. \E to \in Beginning \cup {"mkdir"} : Goto(p, to)
    BY <1>3, <2>1 DEF OpenStage, OpenLock, Start, MakeStage, Beginning
  <2> QED BY <1>g, <2>2
<1>4. CASE TakeLock(p)
  BY <1>0, <1>4 DEF TakeLock, Mine, Reached, Beginning
<1>5. CASE Bind(p)
  <2>1. pc[p] = "bind" /\ p \in inside /\ files[Binding] = Absent
    BY <1>0, <1>5 DEF Bind, Mine, Reached
  <2> QED BY <2>1 DEF Beginning
<1>6. CASE LookSealed(p)
  <2>1. pc[p] = "look_sealed" /\ p \in inside /\ files[Sealed] = Absent
    BY <1>0, <1>6 DEF LookSealed, Mine, Reached, Beginning
  <2>2. Goto(p, "stage")
    BY <1>6, <2>1 DEF LookSealed, Sees
  <2> QED BY <1>0, <1>2, <2>2, Goes
<1>7. CASE WriteBinding(p) \/ SyncBinding(p) \/ SyncBound(p) \/ SyncRoot(p)
  <2>1. \E to \in Beginning \cup {"mkdir"} : Goto(p, to)
    BY <1>7 DEF WriteBinding, SyncBinding, SyncBound, SyncRoot, Beginning
  <2> QED BY <1>g, <2>1
<1> QED BY <1>3, <1>4, <1>5, <1>6, <1>7 DEF Begin

LEMMA RefuseMine ==
  ASSUME IInv, NEW p \in Process, Custody(p), Refuse(p), pc[p] \in Beginning, p \in made,
         "overlap" \in world => files[Binding] = Absent, UNCHANGED <<world, history>>
  PROVE  Mine(p)'
<1>0. /\ Typed /\ TypeOK /\ Shape(p) /\ Mine(p) /\ dir /\ pc[p] # "idle"
      /\ pc[p] \notin {"open", "rmdir"} => p \in inside
  BY Custodian
<1>1. /\ UNCHANGED storage
      /\ pc'[p] = IF p \in inside THEN "clean" ELSE "rmdir"
      /\ p \in made' /\ p \notin visible' /\ inside' = inside
  BY <1>0, Refused
<1>2. files[Sealed] = Absent
  BY <1>0 DEF Mine, Reached
<1>3. p \notin inside => files[Binding] = Absent
  BY <1>0 DEF Mine, Reached, Beginning
<1> QED BY <1>0, <1>1, <1>2, <1>3 DEF Mine, Placed, Reached, Owned, Flushing, Custody, Cleared,
             storage, Written, Clearing, Beginning, Replaying, Sealing, Removing, history

LEMMA ReplayMine ==
  ASSUME IInv, NEW p \in Process, Custody(p), Replay(p), UNCHANGED <<world, history>>
  PROVE  Mine(p)'
<1>0. /\ Typed /\ TypeOK /\ Shape(p) /\ Mine(p) /\ Marked
      /\ files \in [Name -> Content] /\ selected[p] \in Selection /\ selected[p] # Absent
      /\ pc[p] \notin {"open", "rmdir"} => p \in inside
  BY Custodian
<1>1. selected[p] \subseteq Entry /\ (pc[p] \in Replaying => active[p] \in Entry)
  BY <1>0, Distinct DEF Shape
<1>2. done[p] \subseteq Entry
  BY <1>0, Held
<1>3. CASE BeginEntry(p)
  <2>1. pc[p] = "stage" /\ p \in inside /\ p \notin visible /\ pc'[p] = "write"
        /\ UNCHANGED <<dir, dirDisk, disk, bound, locks, selected, made, visible, done>>
    BY <1>0, <1>3, Goes DEF BeginEntry
  <2>2. PICK e \in selected[p] : files' = [files EXCEPT ![Pending(e)] = Partial]
    BY <1>3, <2>1 DEF BeginEntry, Put
  <2>3. /\ files'[Binding] = files[Binding] /\ files'[Sealed] = files[Sealed]
        /\ \A f \in Entry : files'[Payload(f)] = files[Payload(f)]
    BY <1>0, <1>1, <2>2, NamesAre
  <2>4. \A f \in done[p] : files'[Payload(f)] = files[Payload(f)]
    BY <1>2, <2>3
  <2> QED BY <1>0, <2>1, <2>3, <2>4 DEF Mine, Placed, Reached, Owned, Flushing, Custody, Cleared,
             locks, Written, Clearing, Beginning, Replaying, Sealing, Removing, history
<1>4. CASE VerifyEntry(p)
  <2>1. pc[p] = "stage" /\ p \in inside /\ p \in visible
        /\ UNCHANGED <<storage, locks, pc, selected, made, visible, active>>
    BY <1>0, <1>4 DEF VerifyEntry
  <2>2. PICK e \in selected[p] : /\ Sees(p, Payload(e)) = Exact
                                 /\ done'[p] = done[p] \cup {e}
    BY <1>0, <1>4 DEF VerifyEntry, TypeOK
  <2>3. files[Sealed] = selected[p]
    BY <1>0, <2>1 DEF Mine, Reached
  <2>4. files[Payload(e)] = Exact /\ disk[Payload(e)] = Exact
    BY <1>0, <2>2, <2>3 DEF Marked
  <2> QED BY <1>0, <2>1, <2>2, <2>4 DEF Mine, Placed, Reached, Owned, Flushing, Custody, Cleared,
             locks, storage, Written, Clearing, Beginning, Replaying, Sealing, Removing, history
<1>5. CASE WriteEntry(p)
  <2>1. pc[p] = "write" /\ p \in inside /\ pc'[p] = "rename_entry"
        /\ UNCHANGED <<dir, dirDisk, disk, bound, locks, call>>
        /\ files' = [files EXCEPT ![Pending(active[p])] = Exact]
    BY <1>0, <1>5, Goes DEF WriteEntry, Put
  <2>2. active[p] \in Entry
    BY <1>1, <2>1 DEF Replaying
  <2>3. /\ files'[Binding] = files[Binding] /\ files'[Sealed] = files[Sealed]
        /\ \A f \in Entry : files'[Payload(f)] = files[Payload(f)]
        /\ files'[Pending(active[p])] = Exact
    BY <1>0, <2>1, <2>2, NamesAre
  <2>4. \A f \in done[p] : files'[Payload(f)] = files[Payload(f)]
    BY <1>2, <2>3
  <2> QED BY <1>0, <2>1, <2>3, <2>4 DEF Mine, Placed, Reached, Owned, Flushing, Custody, Cleared,
             locks, call, Written, Clearing, Beginning, Replaying, Sealing, Removing, history
<1>6. CASE RenameEntry(p)
  <2>1. pc[p] = "rename_entry" /\ p \in inside /\ pc'[p] = "sync_entry"
        /\ UNCHANGED <<dir, dirDisk, disk, bound, locks, call>>
        /\ files' = [files EXCEPT ![Payload(active[p])] = files[Pending(active[p])],
                                  ![Pending(active[p])] = Absent]
    BY <1>0, <1>6, Goes DEF RenameEntry, Move
  <2>2. active[p] \in Entry /\ files[Pending(active[p])] = Exact
    BY <1>0, <1>1, <2>1 DEF Replaying, Mine, Reached
  <2>3. /\ files'[Binding] = files[Binding] /\ files'[Sealed] = files[Sealed]
        /\ \A f \in Entry : f # active[p] => files'[Payload(f)] = files[Payload(f)]
        /\ files'[Payload(active[p])] = Exact
    BY <1>0, <2>1, <2>2, NamesAre
  <2>4. \A f \in done[p] : files[Payload(f)] = Exact => files'[Payload(f)] = Exact
    BY <1>2, <2>3
  <2> QED BY <1>0, <2>1, <2>3, <2>4 DEF Mine, Placed, Reached, Owned, Flushing, Custody, Cleared,
             locks, call, Written, Clearing, Beginning, Replaying, Sealing, Removing, history
<1>7. CASE EndEntry(p)
  <2>1. pc[p] = "sync_entry" /\ p \in inside /\ pc'[p] = "stage"
        /\ done'[p] = done[p] \cup {active[p]}
        /\ disk' = [n \in Name |-> Flushed(n)]
        /\ UNCHANGED <<dir, dirDisk, files, bound, locks, selected, made, visible>>
    BY <1>0, <1>7, Goes DEF EndEntry, EntryDone, Flush, TypeOK
  <2>2. files[Payload(active[p])] = Exact
    BY <1>0, <2>1 DEF Mine, Reached
  <2>3. \A e \in Entry : disk'[Payload(e)] = files[Payload(e)]
    BY <2>1, NamesAre DEF Flushed
  <2>4. \A e \in done'[p] : files[Payload(e)] = Exact /\ disk'[Payload(e)] = Exact
    BY <1>0, <1>1, <1>2, <2>1, <2>2, <2>3 DEF Mine, Reached, Replaying
  <2> QED BY <1>0, <2>1, <2>4 DEF Mine, Placed, Reached, Owned, Flushing, Custody, Cleared,
             locks, Written, Clearing, Beginning, Replaying, Sealing, Removing, history
<1>8. CASE Seal(p)
  <2>1. pc[p] = "stage" /\ p \in inside
        /\ UNCHANGED <<dir, dirDisk, disk, bound, locks, selected, made, done, active>>
    BY <1>0, <1>8 DEF Seal
  <2>2. \/ /\ files[Sealed] = Absent /\ files' = [files EXCEPT ![SealedPending] = Partial]
           /\ pc'[p] = "write_seal" /\ visible' = visible
        \/ /\ files[Sealed] = selected[p] /\ files' = files
           /\ pc'[p] = "sync_seal" /\ p \in visible'
    BY <1>0, <1>8, <2>1, Goes DEF Seal, Sees, Put
  <2>3. /\ files'[Binding] = files[Binding] /\ files'[Sealed] = files[Sealed]
        /\ \A f \in Entry : files'[Payload(f)] = files[Payload(f)]
    BY <1>0, <2>2, NamesAre
  <2>4. \A f \in done[p] : files'[Payload(f)] = files[Payload(f)]
    BY <1>2, <2>3
  <2> QED BY <1>0, <2>1, <2>2, <2>3, <2>4 DEF Mine, Placed, Reached, Owned, Flushing, Custody, Cleared,
             locks, Written, Clearing, Beginning, Replaying, Sealing, Removing, history
<1>9. CASE WriteSeal(p)
  <2>1. pc[p] = "write_seal" /\ p \in inside /\ pc'[p] = "rename_seal"
        /\ UNCHANGED <<dir, dirDisk, disk, bound, locks, call>>
        /\ files' = [files EXCEPT ![SealedPending] = selected[p]]
    BY <1>0, <1>9, Goes DEF WriteSeal, Put
  <2>3. /\ files'[Binding] = files[Binding] /\ files'[Sealed] = files[Sealed]
        /\ \A f \in Entry : files'[Payload(f)] = files[Payload(f)]
        /\ files'[SealedPending] = selected[p]
    BY <1>0, <2>1, NamesAre
  <2>4. \A f \in done[p] : files'[Payload(f)] = files[Payload(f)]
    BY <1>2, <2>3
  <2> QED BY <1>0, <2>1, <2>3, <2>4 DEF Mine, Placed, Reached, Owned, Flushing, Custody, Cleared,
             locks, call, Written, Clearing, Beginning, Replaying, Sealing, Removing, history
<1>10. CASE RenameSeal(p)
  <2>1. pc[p] = "rename_seal" /\ p \in inside /\ pc'[p] = "sync_seal"
        /\ UNCHANGED <<dir, dirDisk, disk, bound, locks, selected, made, done, active>>
        /\ visible' = visible \cup {p}
        /\ files' = [files EXCEPT ![Sealed] = files[SealedPending], ![SealedPending] = Absent]
    BY <1>0, <1>10, Goes DEF RenameSeal, Move
  <2>2. files[SealedPending] = selected[p]
    BY <1>0, <2>1 DEF Mine, Reached
  <2>3. /\ files'[Binding] = files[Binding] /\ files'[Sealed] = selected[p]
        /\ \A f \in Entry : files'[Payload(f)] = files[Payload(f)]
    BY <1>0, <2>1, <2>2, NamesAre
  <2>4. \A f \in done[p] : files'[Payload(f)] = files[Payload(f)]
    BY <1>2, <2>3
  <2> QED BY <1>0, <2>1, <2>3, <2>4 DEF Mine, Placed, Reached, Owned, Flushing, Custody, Cleared,
             locks, Written, Clearing, Beginning, Replaying, Sealing, Removing, history
<1> QED BY <1>3, <1>4, <1>5, <1>6, <1>7, <1>8, <1>9, <1>10 DEF Replay

LEMMA AbandonMine ==
  ASSUME IInv, NEW p \in Process, Custody(p), Custody(p)', Abandon(p), UNCHANGED <<world, history>>
  PROVE  Mine(p)'
<1>0. /\ Typed /\ TypeOK /\ Shape(p) /\ Mine(p)
      /\ files \in [Name -> Content] /\ selected[p] \in Selection
      /\ pc[p] \notin {"open", "rmdir"} => p \in inside
  BY Custodian
<1>c. ~Close(p)
  BY <1>0, Closed
<1>1. CASE Drop(p)
  <2>1. pc[p] \in {"stage", "write"} /\ p \notin visible /\ pc'[p] = "abandon"
        /\ UNCHANGED <<locks, call, storage>>
    BY <1>0, <1>c, <1>1, Goes DEF Drop
  <2>2. files[Sealed] = Absent
    BY <1>0, <2>1 DEF Mine, Reached, Replaying
  <2> QED BY <1>0, <2>1, <2>2 DEF Mine, Placed, Reached, Owned, Flushing, Custody, Cleared,
             locks, call, storage, Written, Clearing, Beginning, Replaying, Sealing, Removing, history
<1>2. CASE UnlinkFile(p)
  <2>1. pc[p] \in {"clean", "abandon"} /\ p \in inside
        /\ UNCHANGED <<dir, dirDisk, disk, bound, locks, pc, call>>
    BY <1>0, <1>2 DEF UnlinkFile
  <2>2. PICK n \in Doomed(p) : files' = [files EXCEPT ![n] = Absent]
    BY <1>2, <2>1 DEF UnlinkFile, Put
  <2>3. n \in Name \ {Binding, LockFile}
    BY <1>0, <2>1, EntriesAre
  <2>4. files[Sealed] = Absent
    BY <1>0, <2>1 DEF Mine, Reached, Clearing, Removing
  <2>5. files'[Binding] = files[Binding] /\ files'[Sealed] = Absent
    BY <1>0, <2>2, <2>3, <2>4, NamesAre
  <2> QED BY <1>0, <2>1, <2>5 DEF Mine, Placed, Reached, Owned, Flushing, Custody, Cleared,
             locks, call, Written, Clearing, Beginning, Replaying, Sealing, Removing, history, Shape
<1>3. CASE FilesUnlinked(p)
  <2>1. pc[p] \in {"clean", "abandon"} /\ p \in inside /\ pc'[p] = "unlink_binding"
        /\ UNCHANGED <<storage, locks, call>>
    BY <1>0, <1>3, Goes DEF FilesUnlinked
  <2> QED BY <1>0, <2>1 DEF Mine, Placed, Reached, Owned, Flushing, Custody, Cleared, storage,
             locks, call, Written, Clearing, Beginning, Replaying, Sealing, Removing, history, Shape
<1>4. CASE UnlinkBinding(p)
  <2>1. pc[p] = "unlink_binding" /\ p \in inside /\ pc'[p] = "unlock"
        /\ UNCHANGED <<dir, dirDisk, disk, bound, locks, call>>
        /\ files' = [files EXCEPT ![Binding] = Absent]
    BY <1>0, <1>4, Goes DEF UnlinkBinding, Put
  <2>2. files'[Binding] = Absent /\ files'[Sealed] = files[Sealed]
    BY <1>0, <2>1, NamesAre
  <2> QED BY <1>0, <2>1, <2>2 DEF Mine, Placed, Reached, Owned, Flushing, Custody, Cleared,
             locks, call, Written, Clearing, Beginning, Replaying, Sealing, Removing, history, Shape
<1>5. CASE Unlock(p)
  <2>1. pc[p] = "unlock" /\ p \in inside /\ pc'[p] = "unlink_lock"
        /\ UNCHANGED <<storage, inside, call>>
    BY <1>0, <1>5, Goes DEF Unlock
  <2> QED BY <1>0, <2>1 DEF Mine, Placed, Reached, Owned, Flushing, Custody, Cleared, storage,
             call, Written, Clearing, Beginning, Replaying, Sealing, Removing, history, Shape
<1>6. CASE UnlinkLock(p)
  <2>1. pc[p] = "unlink_lock" /\ p \in inside /\ pc'[p] = "rmdir"
        /\ UNCHANGED <<dir, dirDisk, disk, bound, inside, call>>
        /\ files' = [files EXCEPT ![LockFile] = Absent]
    BY <1>0, <1>6, Goes DEF UnlinkLock, Put
  <2>2. files'[Binding] = files[Binding] /\ files'[Sealed] = files[Sealed]
    BY <1>0, <2>1, NamesAre
  <2> QED BY <1>0, <2>1, <2>2 DEF Mine, Placed, Reached, Owned, Flushing, Custody, Cleared,
             call, Written, Clearing, Beginning, Replaying, Sealing, Removing, history, Shape
<1>7. CASE RemoveStage(p)
  <2>1. pc'[p] = "sync_removed"
    BY <1>0, <1>7, Goes DEF RemoveStage
  <2> QED BY <2>1 DEF Custody, Written, Clearing, Replaying, Sealing, Removing
<1>8. CASE SyncRemoved(p)
  BY <1>c, <1>8 DEF SyncRemoved
<1> QED BY <1>1, <1>2, <1>3, <1>4, <1>5, <1>6, <1>7, <1>8 DEF Abandon

LEMMA FailMine ==
  ASSUME NoFailureWhileShared, IInv, NEW p \in Process, Custody(p), Custody(p)', CallFails(p),
         world' = world
  PROVE  Mine(p)'
<1>0. /\ Typed /\ TypeOK /\ Shape(p) /\ Mine(p)
      /\ files \in [Name -> Content] /\ selected[p] \in Selection
      /\ pc[p] \notin {"open", "rmdir"} => p \in inside
  BY Custodian
<1>1. "overlap" \notin world /\ UNCHANGED <<storage, acked>>
  BY <1>0 DEF TypeOK, CallFails, NoFailureWhileShared
<1>c. ~Close(p)
  BY <1>0, Closed
<1>2. CASE pc[p] \in Beginning /\ Refuse(p) /\ mishap' = mishap
  <2>1. p \in made
    BY <1>c, <1>2 DEF Refuse
  <2> QED BY <1>1, <1>2, <2>1, RefuseMine DEF history
<1>3. CASE /\ UNCHANGED <<locks, call>>
           /\ \/ pc[p] \in Replaying /\ Goto(p, "abandon") /\ mishap' = mishap
              \/ pc[p] \in Sealing /\ Goto(p, "stage") /\ mishap' = mishap
  <2>1. \/ pc[p] \in Replaying /\ pc'[p] = "abandon" /\ mishap' = mishap
        \/ pc[p] \in Sealing /\ pc'[p] = "stage" /\ mishap' = mishap
    BY <1>0, <1>3, Goes
  <2>2. pc[p] \in Replaying => p \notin visible
    BY <1>0 DEF Shape, Replaying
  <2> QED BY <1>0, <1>1, <1>3, <2>1, <2>2 DEF Mine, Placed, Reached, Flushing, Custody, Cleared, storage,
             locks, call, Written, Clearing, Beginning, Replaying, Sealing, Removing
<1>4. CASE /\ UNCHANGED <<locks, call>>
           /\ mishap' = mishap \cup MishapOf(p)
           /\ \/ pc[p] \in {"clean", "abandon"} /\ Goto(p, "unlink_binding")
              \/ pc[p] = "unlink_binding" /\ Goto(p, "unlock")
              \/ pc[p] = "unlink_lock" /\ Goto(p, "rmdir")
              \/ pc[p] = "rmdir" /\ Goto(p, "sync_removed")
  <2>1. \/ pc[p] \in {"clean", "abandon"} /\ pc'[p] = "unlink_binding"
        \/ pc[p] = "unlink_binding" /\ pc'[p] = "unlock"
        \/ pc[p] = "unlink_lock" /\ pc'[p] = "rmdir"
        \/ pc[p] = "rmdir" /\ pc'[p] = "sync_removed"
    BY <1>0, <1>4, Goes
  <2>2. p \in made => "unflushed" \in mishap'
    BY <1>4, <2>1 DEF MishapOf, Removing
  <2>3. Reached(p)' /\ Placed(p)'
    BY <1>0, <1>1, <1>4, <2>1 DEF Mine, Placed, Reached, Custody, storage, Shape,
             locks, call, Written, Clearing, Beginning, Replaying, Sealing, Removing
  <2>4. p \in made' => Flushing(p)'
    BY <1>0, <1>1, <1>4, <2>1, <2>2 DEF Flushing, call
  <2> QED BY <1>1, <2>3, <2>4 DEF Mine
<1> QED BY <1>c, <1>2, <1>3, <1>4, Fails

LEMMA MineStep ==
  ASSUME NoFailureWhileShared, IInv, NEW p \in Process, Acts(p), Effect(p), Typed'
  PROVE  Custody(p)' => Mine(p)'
<1> SUFFICES ASSUME Custody(p)' PROVE Mine(p)'
  OBVIOUS
<1>0. Typed /\ world' = world
  BY DEF IInv, Acts
<1>c. ~Close(p)
  BY <1>0, Closed
<1>1. CASE ~Custody(p)
  <2>1. CASE NewStage(p)
    <3>1. files = Empty
      BY <1>0, <2>1 DEF NewStage, Typed, TypeOK
    <3>2. files[Binding] = Absent /\ files[Sealed] = Absent
      BY <3>1, NamesAre DEF Empty
    <3>3. p \notin visible'
      BY <2>1 DEF NewStage, Typed, Shape
    <3> QED BY <2>1, <3>2, <3>3 DEF NewStage, Mine, Placed, Reached, Owned, Flushing, Custody, Cleared,
             Written, Clearing, Beginning, Replaying, Sealing, Removing
  <2>2. CASE Accepted(p)
    <3>1. "overlap" \in world => owner = p
      BY <2>2, AcceptedAlone
    <3>2. p \notin visible /\ p \notin made /\ dir
      BY <1>0, <2>2 DEF Accepted, Typed, Shape, TypeOK
    <3> QED BY <1>0, <2>2, <3>1, <3>2 DEF Accepted, Mine, Placed, Reached, Owned, Flushing, Custody, Cleared,
             storage, locks, call, Written, Clearing, Beginning, Replaying, Sealing, Removing
  <2> QED BY <1>0, <1>1, <2>1, <2>2, NewCustody
<1>2. CASE Custody(p)
  <2>1. CASE Begin(p) /\ Refuse(p) /\ UNCHANGED history
    <3>1. p \in made
      BY <1>c, <2>1 DEF Refuse
    <3> QED BY <1>0, <1>2, <2>1, <3>1, RefusedEarly, RefuseMine
  <2>2. CASE Begin(p) /\ ~Refuse(p) /\ UNCHANGED history
    BY <1>0, <1>2, <2>2, BeginMine
  <2>3. CASE (Replay(p) \/ Abandon(p)) /\ UNCHANGED history
    BY <1>0, <1>2, <2>3, ReplayMine, AbandonMine
  <2>4. CASE CallFails(p)
    BY <1>0, <1>2, <2>4, FailMine
  <2>5. ~SyncSeal(p) /\ ~Crash(p)
    BY <1>c DEF SyncSeal, Crash
  <2> QED BY <2>1, <2>2, <2>3, <2>4, <2>5 DEF Acts
<1> QED BY <1>1, <1>2

LEMMA OthersMine ==
  ASSUME IInv, NEW p \in Process, Acts(p), Effect(p), NEW q \in Process \ {p}, Custody(q)
  PROVE  Mine(q)'
<1>0. /\ Typed /\ Shape(q) /\ Mine(q) /\ dir /\ One /\ world' = world
      /\ selected[q] \in Selection
  BY Custodian DEF IInv, Acts
<1>1. ~Custody(p)
  BY <1>0 DEF One
<1>2. /\ bound' = bound /\ dir' = dir /\ disk' = disk
      /\ \A n \in Name \ {LockFile} : files'[n] = files[n]
      /\ q \in inside' <=> q \in inside
      /\ owner = q => owner' = q
      /\ dirDisk => dirDisk'
  BY <1>0, <1>1, OutsideEffect, Distinct
<1>3. /\ pc'[q] = pc[q] /\ selected'[q] = selected[q]
      /\ active'[q] = active[q] /\ done'[q] = done[q]
      /\ (q \in made' <=> q \in made) /\ (q \in visible' <=> q \in visible)
  BY <1>0, OthersKeep
<1>4. Custody(q)' <=> Custody(q)
  BY <1>3 DEF Custody
<1>5. /\ files'[Binding] = files[Binding] /\ files'[Sealed] = files[Sealed]
      /\ files'[SealedPending] = files[SealedPending]
  BY <1>2, NamesAre
<1>6. Placed(q)' /\ ("overlap" \in world' => Owned(q)')
  BY <1>0, <1>2, <1>3, <1>4, <1>5 DEF Mine, Placed, Owned
<1>7. q \in made' => Flushing(q)'
  <2>1. mishap \subseteq mishap'
    BY DEF Effect, HistoryEffect
  <2> QED BY <1>0, <1>2, <1>3, <1>5, <2>1 DEF Mine, Flushing
<1>8. Reached(q)'
  <2>1. pc[q] \in Replaying => active[q] \in Entry
    BY <1>0, EntriesAre
  <2>2. done[q] \subseteq Entry
    BY <1>0, Held DEF Typed
  <2>3. /\ pc[q] = "rename_entry" => files'[Pending(active[q])] = files[Pending(active[q])]
        /\ pc[q] = "sync_entry" => files'[Payload(active[q])] = files[Payload(active[q])]
    BY <1>2, <2>1, NamesAre DEF Replaying
  <2>4. \A e \in done[q] : files'[Payload(e)] = files[Payload(e)]
    BY <1>2, <2>2, NamesAre
  <2> QED BY <1>0, <1>2, <1>3, <1>5, <2>3, <2>4 DEF Mine, Reached
<1> QED BY <1>6, <1>7, <1>8 DEF Mine

\* Of whoever the stage is not, nothing is said.
LEMMA NotMine ==
  ASSUME NEW q \in Process, Shape(q)', ~Custody(q)'
  PROVE  Placed(q)' /\ Reached(q)' /\ Owned(q)' /\ (q \in made' => Flushing(q)')
<1>1. /\ pc'[q] \notin Written \cup Clearing \cup {"write_binding"}
      /\ q \in made' => pc'[q] = "sync_removed"
  BY DEF Custody
<1>2. q \notin visible'
  BY <1>1 DEF Shape, Written, Sealing
<1>3. pc'[q] \notin {"rename_entry", "sync_entry", "rename_seal", "look_sealed", "sync_bound",
                    "sync_root", "clean", "stage"} \cup Cleared
  BY <1>1 DEF Written, Clearing, Cleared, Replaying, Sealing, Removing
<1>4. Placed(q)' /\ Owned(q)'
  BY <1>3 DEF Placed, Owned
<1>5. q \in made' => Flushing(q)'
  BY <1>3 DEF Flushing
<1>6. Reached(q)'
  BY <1>1, <1>2, <1>3 DEF Reached, Written, Beginning
<1> QED BY <1>4, <1>5, <1>6

LEMMA AllMine ==
  ASSUME NoFailureWhileShared, IInv, NEW p \in Process, Acts(p), Effect(p), Typed'
  PROVE  \A q \in Process : /\ Placed(q)' /\ Reached(q)'
                            /\ "overlap" \in world' => Owned(q)'
                            /\ q \in made' => Flushing(q)'
<1> SUFFICES ASSUME NEW q \in Process
             PROVE  /\ Placed(q)' /\ Reached(q)'
                    /\ "overlap" \in world' => Owned(q)'
                    /\ q \in made' => Flushing(q)'
  OBVIOUS
<1>1. CASE ~Custody(q)'
  BY <1>1, NotMine DEF Typed
<1>2. CASE Custody(q)' /\ q = p
  BY <1>2, MineStep DEF Mine
<1>3. CASE Custody(q)' /\ q # p
  <2>1. Custody(q)
    BY <1>3, OthersKeep DEF Custody, IInv
  <2> QED BY <1>3, <2>1, OthersMine DEF Mine
<1> QED BY <1>1, <1>2, <1>3

\* Who gets to the lock, and where whoever removed it goes.
LEMMA Arrives ==
  ASSUME Typed, NEW p \in Process, Acts(p), pc'[p] \in {"lock", "bind"}
  PROVE  OpenLock(p) \/ (TakeLock(p) /\ ~Refuse(p))
<1>0. TypeOK
  BY DEF Typed
<1>1. ASSUME NEW to, Goto(p, to), to \notin {"lock", "bind"} PROVE FALSE
  BY <1>0, <1>1, Goes
<1>2. ~Close(p)
  BY <1>1 DEF Close
<1>3. Refuse(p) => FALSE
  BY <1>1, <1>2 DEF Refuse
<1>4. CASE Start(p) \/ MakeStage(p) \/ OpenStage(p) \/ WriteBinding(p) \/ SyncBinding(p)
             \/ SyncBound(p) \/ SyncRoot(p) \/ LookSealed(p)
  BY <1>1, <1>3, <1>4 DEF Start, MakeStage, OpenStage, WriteBinding, SyncBinding, SyncBound,
                          SyncRoot, LookSealed
<1>5. CASE Bind(p)
  <2>1. \E to \in {"sync_root", "look_sealed", "write_binding"} : Goto(p, to)
    BY <1>3, <1>5 DEF Bind
  <2> QED BY <1>1, <2>1
<1>6. CASE Replay(p)
  <2>1. \/ \E to \in {"write", "rename_entry", "sync_entry", "stage", "write_seal", "sync_seal",
                      "rename_seal"} : Goto(p, to)
        \/ pc[p] = "stage" /\ pc' = pc
    BY <1>6 DEF Replay, BeginEntry, VerifyEntry, WriteEntry, RenameEntry, EndEntry, EntryDone,
                Seal, WriteSeal, RenameSeal
  <2> QED BY <1>1, <2>1
<1>7. CASE Abandon(p)
  <2>1. \/ \E to \in {"abandon", "unlink_binding", "unlock", "unlink_lock", "rmdir",
                      "sync_removed"} : Goto(p, to)
        \/ pc[p] \in {"clean", "abandon"} /\ pc' = pc
    BY <1>2, <1>7 DEF Abandon, Drop, UnlinkFile, FilesUnlinked, UnlinkBinding, Unlock, UnlinkLock,
                RemoveStage, SyncRemoved
  <2> QED BY <1>1, <2>1
<1>8. CASE CallFails(p)
  <2>1. \E to \in {"abandon", "stage", "unlink_binding", "unlock", "rmdir", "sync_removed"} :
            Goto(p, to)
    BY <1>2, <1>3, <1>8, Fails
  <2> QED BY <1>1, <2>1
<1>9. ~SyncSeal(p) /\ ~Crash(p)
  BY <1>2 DEF SyncSeal, Crash
<1> QED BY <1>3, <1>4, <1>5, <1>6, <1>7, <1>8, <1>9 DEF Acts, Begin

LEMMA Leaves ==
  ASSUME Typed, NEW p \in Process, Acts(p), pc[p] \in {"unlink_lock", "rmdir"}
  PROVE  ~Custody(p)' \/ (pc[p] = "unlink_lock" /\ pc'[p] = "rmdir")
<1>0. TypeOK
  BY DEF Typed
<1>1. CASE Close(p)
  BY <1>1, Closed
<1>2. CASE CallFails(p)
  <2>1. (pc[p] = "unlink_lock" /\ Goto(p, "rmdir")) \/ Goto(p, "sync_removed") \/ Close(p)
    BY <1>2, Fails DEF Beginning, Replaying, Sealing
  <2>2. Goto(p, "sync_removed") => ~Custody(p)'
    BY <1>0, Goes DEF Custody, Written, Clearing, Replaying, Sealing, Removing
  <2> QED BY <1>0, <1>1, <2>1, <2>2, Goes
<1>3. CASE UnlinkLock(p)
  BY <1>0, <1>3, Goes DEF UnlinkLock
<1>4. CASE RemoveStage(p)
  <2>1. pc'[p] = "sync_removed"
    BY <1>0, <1>4, Goes DEF RemoveStage
  <2> QED BY <2>1 DEF Custody, Written, Clearing, Replaying, Sealing, Removing
<1>5. CASE SyncSeal(p) \/ Crash(p)
  BY <1>1, <1>5 DEF SyncSeal, Crash
<1>6. ~Begin(p) /\ ~Replay(p)
  BY DEF Begin, Replay, Start, MakeStage, OpenStage, OpenLock, TakeLock, Bind,
             WriteBinding, SyncBinding, SyncBound, SyncRoot, LookSealed, BeginEntry, VerifyEntry,
             WriteEntry, RenameEntry, EndEntry, Seal, WriteSeal, RenameSeal
<1>7. Abandon(p) => UnlinkLock(p) \/ RemoveStage(p)
  BY DEF Abandon, Drop, UnlinkFile, FilesUnlinked, UnlinkBinding, Unlock, SyncRemoved
<1> QED BY <1>2, <1>3, <1>4, <1>5, <1>6, <1>7 DEF Acts

LEMMA WaitingStep ==
  ASSUME IInv, NEW p \in Process, Acts(p), Effect(p), Typed', "overlap" \in world,
         NEW q \in Process
  PROVE  Waiting(q)'
<1> SUFFICES ASSUME pc'[q] \in {"lock", "bind"}, q \in inside'
             PROVE  IF q \in locking' THEN pc'[q] = "bind" => owner' = q
                    ELSE /\ files'[Binding] = Absent
                         /\ \A r \in Process : Custody(r)' => pc'[r] = "rmdir"
  BY DEF Waiting
<1>0. /\ Typed /\ TypeOK /\ One
      /\ \A r \in Process : Shape(r) /\ Placed(r) /\ Reached(r) /\ Owned(r) /\ Waiting(r)
  BY DEF IInv, Typed, Guarded
<1>k. \A r \in Process \ {p} : pc'[r] = pc[r] /\ (Custody(r)' <=> Custody(r))
  BY <1>0, OthersKeep DEF Custody
<1>1. CASE q = p /\ OpenLock(p)
  <2>1. pc'[p] = "lock" /\ p \in locking'
    <3>1. pc'[p] \in {"clean", "rmdir", "idle"} \/ (pc'[p] = "lock" /\ p \in locking')
      BY <1>0, <1>1, Goes DEF OpenLock, Refuse, Close
    <3> QED BY <1>1, <3>1
  <2> QED BY <1>1, <2>1
<1>2. CASE q = p /\ TakeLock(p) /\ ~Refuse(p)
  <2>1. CASE p \in locking
    BY <1>2, <2>1 DEF TakeLock
  <2>2. CASE p \notin locking
    <3>1. UNCHANGED <<storage, locks, call>> /\ pc[p] = "lock" /\ pc'[p] = "bind"
      BY <1>0, <1>2, <2>2, Goes DEF TakeLock
    <3>2. /\ files[Binding] = Absent
          /\ \A r \in Process : Custody(r) => pc[r] = "rmdir"
      BY <1>0, <1>2, <2>2, <3>1 DEF Waiting, locks
    <3>3. ~Custody(p)'
      BY <3>1, <3>2 DEF Custody, call, Written, Clearing, Replaying, Sealing, Removing
    <3> QED BY <1>2, <1>k, <2>2, <3>1, <3>2, <3>3 DEF locks, storage
  <2> QED BY <2>1, <2>2
<1>3. CASE q # p
  <2>0. pc[q] \in {"lock", "bind"} /\ pc'[q] = pc[q] /\ q \in inside /\ LockEffect(p)
    BY <1>0, <1>3, OthersKeep DEF Effect
  <2>1. CASE q \in locking'
    <3>1. q \in locking
      BY <1>3, <2>0, <2>1 DEF LockEffect
    <3>2. pc[q] = "bind" => owner = q
      BY <1>0, <2>0, <3>1 DEF Waiting
    <3>3. owner = q => owner' = q
      BY <1>3, <2>0, <2>1, Distinct DEF LockEffect, Unlocked
    <3> QED BY <2>0, <2>1, <3>2, <3>3
  <2>2. CASE q \notin locking' /\ q \notin locking
    <3>1. /\ files[Binding] = Absent
          /\ \A r \in Process : Custody(r) => pc[r] = "rmdir"
      BY <1>0, <2>0, <2>2 DEF Waiting
    <3>2. files'[Binding] = Absent
      <4>1. Custody(p) \/ files'[Binding] = files[Binding]
        BY <1>0, OutsideEffect, NamesAre
      <4>2. pc[p] = "rmdir" => files'[Binding] = files[Binding]
        BY <1>0, FilesStay
      <4> QED BY <3>1, <4>1, <4>2
    <3>3. ~Custody(p)'
      <4>1. CASE Custody(p)
        BY <1>0, <3>1, <4>1, Leaves
      <4>2. ~NewStage(p) /\ ~Accepted(p)
        BY <1>0, <2>0, <3>1, Distinct DEF NewStage, Accepted, TypeOK
      <4> QED BY <1>0, <4>1, <4>2, NewCustody
    <3> QED BY <1>k, <2>2, <3>1, <3>2, <3>3
  <2>3. CASE q \notin locking' /\ q \in locking
    <3>1. pc[p] = "unlink_lock"
      BY <1>3, <2>0, <2>3 DEF LockEffect
    <3>2. Custody(p) /\ files[Binding] = Absent
      BY <1>0, <3>1 DEF Custody, Owned, Cleared, Clearing, Removing
    <3>3. files'[Binding] = Absent
      BY <1>0, <3>1, <3>2, FilesStay
    <3>4. \A r \in Process \ {p} : ~Custody(r)
      BY <1>0, <3>2 DEF One
    <3> QED BY <1>0, <1>k, <2>3, <3>1, <3>3, <3>4, Leaves
  <2> QED BY <2>1, <2>2, <2>3
<1> QED BY <1>0, <1>1, <1>2, <1>3, Arrives

-----------------------------------------------------------------------------
(* What is flushed.                                                        *)

\* At a point of begin or of a removal, the one who made the stage either
\* goes on there, or has flushed it, or has removed the binding, or died.
LEMMA MakerStep ==
  ASSUME IInv, NEW p \in Process, Acts(p), Effect(p), p \in made,
         pc[p] \in Beginning \cup {"clean", "abandon", "unlink_binding"},
         "unflushed" \notin mishap', files'[Binding] # Absent
  PROVE  \/ bound' /\ dirDisk'
         \/ p \in made' /\ pc'[p] \in Beginning \cup {"clean", "abandon", "unlink_binding"}
<1>0. Custody(p)
  BY DEF Custody, Beginning
<1>1. /\ Typed /\ TypeOK /\ Shape(p) /\ Mine(p) /\ dir /\ selected[p] # Absent
      /\ pc[p] \notin {"open", "rmdir"} => p \in inside
  BY <1>0, Custodian
<1>2. CASE Refuse(p)
  <2>1. CASE pc[p] \in Beginning
    <3>1. p \in made' /\ pc'[p] = (IF p \in inside THEN "clean" ELSE "rmdir") /\ UNCHANGED storage
      BY <1>1, <1>2, <2>1, Refused
    <3>2. p \notin inside => files[Binding] = Absent
      BY <1>1, <2>1 DEF Mine, Reached, Beginning
    <3> QED BY <3>1, <3>2 DEF storage
  <2>2. CASE pc[p] \notin Beginning
    <3>1. p \in made' /\ pc'[p] = "clean"
      BY <1>1, <1>2, <2>2, Goes DEF Refuse, call, Beginning
    <3> QED BY <3>1
  <2> QED BY <2>1, <2>2
<1>3. CASE LookSealed(p) /\ ~Refuse(p)
  <2>1. pc[p] = "look_sealed" /\ UNCHANGED storage
    BY <1>3 DEF LookSealed
  <2>2. bound /\ dirDisk
    BY <1>1, <2>1 DEF Mine, Flushing
  <2> QED BY <2>1, <2>2 DEF storage
<1>4. CASE Begin(p) /\ ~LookSealed(p) /\ ~Refuse(p)
  <2>1. p \in made' /\ \E to \in Beginning : Goto(p, to)
    <3>1. CASE Bind(p)
      <4>1. made' = made /\ \E to \in {"sync_root", "look_sealed", "write_binding"} : Goto(p, to)
        BY <1>4, <3>1 DEF Bind, call
      <4> QED BY <4>1 DEF Beginning
    <3>2. CASE ~Bind(p)
      BY <1>1, <1>4, <3>2 DEF Begin, Beginning, Start, MakeStage, OpenStage, OpenLock, TakeLock,
                         WriteBinding, SyncBinding, SyncBound, SyncRoot, call
    <3> QED BY <3>1, <3>2
  <2> QED BY <1>1, <2>1, Goes
<1>5. ~Replay(p)
  BY DEF Replay, Beginning, BeginEntry, VerifyEntry, WriteEntry, RenameEntry, EndEntry, Seal,
         WriteSeal, RenameSeal
<1>6. CASE UnlinkFile(p)
  BY <1>6 DEF UnlinkFile, call
<1>7. CASE FilesUnlinked(p)
  BY <1>1, <1>7, Goes DEF FilesUnlinked, call
<1>8. ~UnlinkBinding(p)
  <2>1. SUFFICES ASSUME UnlinkBinding(p) PROVE FALSE
    OBVIOUS
  <2>2. files' = [files EXCEPT ![Binding] = Absent]
    BY <1>1, <2>1 DEF UnlinkBinding, Put
  <2> QED BY <1>1, <2>2, NamesAre DEF TypeOK
<1>9. CallFails(p) => Refuse(p)
  <2>1. pc[p] \in {"clean", "abandon", "unlink_binding"} => "unflushed" \in mishap \cup MishapOf(p)
    BY DEF MishapOf, Removing
  <2> QED BY <2>1, Fails DEF Beginning, Replaying, Sealing, Removing
<1>10. ~Crash(p) /\ ~SyncSeal(p)
  BY DEF Crash, SyncSeal, MishapOf, Beginning, Removing
<1>11. Abandon(p) => UnlinkFile(p) \/ FilesUnlinked(p) \/ UnlinkBinding(p)
  BY DEF Abandon, Drop, Unlock, UnlinkLock, RemoveStage, SyncRemoved, Beginning
<1> QED BY <1>2, <1>3, <1>4, <1>5, <1>6, <1>7, <1>8, <1>9, <1>10, <1>11 DEF Acts

LEMMA AnchoredStep ==
  ASSUME NoFailureWhileShared, IInv, NEW p \in Process, Acts(p), Effect(p), Typed'
  PROVE  Anchored'
<1>1. \A q \in made' : Flushing(q)'
  BY AllMine DEF Typed, TypeOK
<1>2. ASSUME "unflushed" \notin mishap', files'[Binding] # Absent
      PROVE  \/ bound' /\ dirDisk'
             \/ \E q \in made' : pc'[q] \in Beginning \cup {"clean", "abandon", "unlink_binding"}
  <2>0. Typed /\ TypeOK /\ Reached(p) /\ DiskEffect(p) /\ "unflushed" \notin mishap /\ Anchored
    BY <1>2 DEF IInv, Typed, Effect, HistoryEffect
  <2>1. CASE files[Binding] = Absent
    <3>1. pc[p] = "bind" /\ p \in made
      BY <1>2, <2>0, <2>1, FilesStay, Distinct DEF Reached
    <3> QED BY <1>2, <3>1, MakerStep DEF Beginning
  <2>2. CASE files[Binding] # Absent /\ bound /\ dirDisk
    <3>1. dir
      BY <2>0, <2>2, NamesAre DEF TypeOK, Empty
    <3> QED BY <2>0, <2>2, <3>1 DEF DiskEffect
  <2>3. CASE \E q \in made : pc[q] \in Beginning \cup {"clean", "abandon", "unlink_binding"}
    <3>1. PICK q \in made : pc[q] \in Beginning \cup {"clean", "abandon", "unlink_binding"}
      BY <2>3
    <3>2. CASE q = p
      BY <1>2, <3>1, <3>2, MakerStep
    <3>3. CASE q # p
      <4>1. q \in Process \ {p}
        BY <2>0, <3>1, <3>3 DEF TypeOK
      <4> QED BY <2>0, <3>1, <4>1, OthersKeep
    <3> QED BY <3>2, <3>3
  <2> QED BY <2>0, <2>1, <2>2, <2>3 DEF Anchored
<1> QED BY <1>1, <1>2 DEF Anchored

LEMMA DurableStays ==
  ASSUME IInv, NEW p \in Process, Effect(p), NEW s \in Selection, Durable(s)
  PROVE  Durable(s)'
<1>1. s # Absent
  BY Distinct
<1>2. /\ dir' = dir /\ files'[Sealed] = files[Sealed] /\ files'[Binding] = files[Binding]
  BY <1>1, SealedStays DEF Durable
<1>3. DiskEffect(p)
  BY DEF Effect
<1>4. bound' /\ dirDisk'
  BY <1>1, <1>3 DEF DiskEffect, Durable
<1>5. disk' = disk \/ disk' = [n \in Name |-> Flushed(n)]
  BY <1>3 DEF DiskEffect, Durable
<1>6. Flushed(Binding) = files[Binding] /\ Flushed(Sealed) = files[Sealed]
  BY NamesAre DEF Flushed, Durable
<1> QED BY <1>2, <1>4, <1>5, <1>6, NamesAre DEF Durable

LEMMA AcknowledgedStep ==
  ASSUME IInv, NEW p \in Process, Acts(p), Effect(p)
  PROVE  Acknowledged'
<1> SUFFICES ASSUME acked', "unflushed" \notin mishap'
             PROVE  \E s \in Selection : Durable(s)'
  BY DEF Acknowledged
<1>0. Typed /\ Anchored /\ One /\ Acknowledged /\ "unflushed" \notin mishap
  BY DEF IInv, Effect, HistoryEffect
<1>1. CASE acked
  BY <1>0, <1>1, DurableStays DEF Acknowledged
<1>2. CASE ~acked
  <2>1. SyncSeal(p)
    BY <1>2 DEF Acts, history, CallFails, Crash
  <2>2. pc[p] = "sync_seal" /\ Custody(p)
    BY <2>1 DEF SyncSeal, Custody, Written, Sealing
  <2>3. p \in inside /\ dir /\ Mine(p) /\ Shape(p) /\ selected[p] \in Selection /\ selected[p] # Absent
    BY <2>2, Custodian
  <2>4. files[Binding] = selected[p] /\ files[Sealed] = selected[p]
    BY <2>2, <2>3 DEF Mine, Reached, Written, Sealing, Shape
  <2>5. bound /\ dirDisk
    <3>1. ASSUME NEW r \in made, pc[r] \in Beginning \cup {"clean", "abandon", "unlink_binding"}
          PROVE  FALSE
      <4>1. r \in Process /\ Custody(r)
        BY <1>0, <3>1 DEF Typed, TypeOK, Custody, Beginning
      <4> QED BY <1>0, <2>2, <3>1, <4>1 DEF One, Beginning
    <3> QED BY <1>0, <2>3, <2>4, <3>1 DEF Anchored
  <2>6. disk' = [n \in Name |-> Flushed(n)] /\ UNCHANGED <<dir, dirDisk, files, bound>>
    BY <2>1, <2>3 DEF SyncSeal, Flush
  <2>7. Flushed(Binding) = files[Binding] /\ Flushed(Sealed) = files[Sealed]
    BY <2>5, NamesAre DEF Flushed
  <2> QED BY <2>3, <2>4, <2>5, <2>6, <2>7, NamesAre DEF Durable
<1> QED BY <1>1, <1>2

-----------------------------------------------------------------------------
(* What is left.                                                           *)

\* The one who made the stage keeps it, or has sealed it, or removes it whole.
Tidied(p) ==
  \/ p \in made' /\ pc'[p] # "sync_removed" /\ Keeps(p)'
  \/ p \notin made' /\ files'[Sealed] # Absent
  \/ pc'[p] = "sync_removed" /\ ~dir'

LEMMA OwnIs ==
  ASSUME NEW point, NEW s
  PROVE  /\ point \in {"open", "open_lock", "rmdir"} => OwnAt(point, s) = {}
         /\ point \in {"lock", "bind", "unlock", "unlink_lock"} => OwnAt(point, s) = {LockFile}
         /\ point \in {"write_binding", "sync_binding", "sync_bound", "sync_root", "look_sealed",
                       "clean", "unlink_binding"} => OwnAt(point, s) = {LockFile, Binding}
         /\ point \in {"stage", "abandon"} \cup Replaying \cup Sealing =>
              OwnAt(point, s) = {LockFile, Binding, Sealed, SealedPending}
                                  \cup {Pending(e) : e \in s} \cup {Payload(e) : e \in s}
BY DEF OwnAt, Beginning, Replaying, Sealing

\* A file that is made or removed.
LEMMA KeepsPut ==
  ASSUME TypeOK, NEW p \in Process, Keeps(p), NEW n \in Name, NEW c,
         files' = [files EXCEPT ![n] = c], c = Absent \/ n \in OwnAt(pc[p], selected[p])' ,
         \A m \in Name \ {n} : m \in OwnAt(pc[p], selected[p]) => m \in OwnAt(pc[p], selected[p])'
  PROVE  Keeps(p)'
BY DEF Keeps, TypeOK

LEMMA TidyGo ==
  ASSUME TypeOK, NEW p \in Process, p \in made, Keeps(p),
         NEW from, NEW to, pc[p] = from, Goto(p, to), UNCHANGED <<files, selected, made>>,
         to # "sync_removed", OwnAt(from, selected[p]) \subseteq OwnAt(to, selected[p])
  PROVE  Tidied(p)
<1>1. pc'[p] = to
  BY Goes
<1> QED BY <1>1 DEF Tidied, Keeps

LEMMA TidyPut ==
  ASSUME TypeOK, NEW p \in Process, p \in made, Keeps(p),
         NEW from, NEW to, pc[p] = from, Goto(p, to), UNCHANGED <<selected, made>>,
         to # "sync_removed", NEW n \in Name, NEW c, files' = [files EXCEPT ![n] = c],
         c = Absent \/ n \in OwnAt(to, selected[p]),
         \A m \in Name \ {n} : m \in OwnAt(from, selected[p]) => m \in OwnAt(to, selected[p])
  PROVE  Tidied(p)
<1>1. pc'[p] = to
  BY Goes
<1>2. Keeps(p)'
  BY <1>1, KeepsPut
<1> QED BY <1>1, <1>2 DEF Tidied

LEMMA TidyRefuse ==
  ASSUME IInv, NEW p \in Process, Custody(p), p \in made, Keeps(p), Refuse(p), pc[p] \in Beginning
  PROVE  Tidied(p)
<1>0. /\ Typed /\ TypeOK /\ pc[p] # "idle"
      /\ pc[p] \notin {"open", "rmdir"} => p \in inside
  BY Custodian
<1>1. UNCHANGED <<files, selected, made>>
  BY DEF Refuse, storage, call
<1>2. CASE p \in inside
  <2>1. Goto(p, "clean")
    BY <1>2 DEF Refuse
  <2>2. OwnAt(pc[p], selected[p]) \subseteq OwnAt("clean", selected[p])
    BY OwnIs DEF Beginning
  <2> QED BY <1>0, <1>1, <2>1, <2>2, TidyGo
<1>3. CASE p \notin inside
  <2>1. Goto(p, "rmdir") /\ pc[p] = "open"
    BY <1>0, <1>3 DEF Refuse, Beginning
  <2>2. OwnAt(pc[p], selected[p]) \subseteq OwnAt("rmdir", selected[p])
    BY <2>1, OwnIs
  <2> QED BY <1>0, <1>1, <2>1, <2>2, TidyGo
<1> QED BY <1>2, <1>3

LEMMA TidyBegin ==
  ASSUME IInv, NEW p \in Process, Custody(p), p \in made, Keeps(p), Begin(p)
  PROVE  Tidied(p)
<1>0. /\ Typed /\ TypeOK /\ Shape(p) /\ Mine(p) /\ dir /\ files \in [Name -> Content]
      /\ selected[p] \in Selection /\ selected[p] # Absent
      /\ pc[p] \notin {"open", "rmdir"} => p \in inside
      /\ pc[p] # "idle"
  BY Custodian
<1>3. CASE Refuse(p)
  <2>1. pc[p] # "mkdir"
    BY <1>0 DEF Shape
  <2>2. pc[p] \in Beginning
    BY <1>0, <2>1 DEF Begin, Start, MakeStage, OpenStage, OpenLock, TakeLock, Bind,
              WriteBinding, SyncBinding, SyncBound, SyncRoot, LookSealed, Beginning
  <2> QED BY <1>3, <2>2, TidyRefuse
<1>4. CASE OpenStage(p) /\ ~Refuse(p)
  <2>1. OwnAt("open", selected[p]) \subseteq OwnAt("open_lock", selected[p])
    BY OwnIs
  <2> QED BY TidyGo, <1>0, <1>4, <2>1 DEF OpenStage, storage, call
<1>5. CASE OpenLock(p) /\ ~Refuse(p)
  <2>1. OwnAt("open_lock", selected[p]) \subseteq OwnAt("lock", selected[p])
        /\ LockFile \in OwnAt("lock", selected[p])
    BY OwnIs
  <2> QED BY TidyPut, <1>0, <1>5, <2>1, NamesAre DEF OpenLock, Put, call
<1>6. CASE TakeLock(p) /\ ~Refuse(p)
  <2>1. OwnAt("lock", selected[p]) \subseteq OwnAt("bind", selected[p])
    BY OwnIs
  <2> QED BY TidyGo, <1>0, <1>6, <2>1 DEF TakeLock, storage, call
<1>7. CASE Bind(p) /\ ~Refuse(p)
  <2>1. /\ OwnAt("bind", selected[p]) \subseteq OwnAt("write_binding", selected[p])
        /\ OwnAt("bind", selected[p]) \subseteq OwnAt("sync_root", selected[p])
        /\ Binding \in OwnAt("write_binding", selected[p])
    BY OwnIs
  <2>2. CASE Goto(p, "sync_root") /\ UNCHANGED <<storage, locks, call>>
    BY TidyGo, <1>0, <1>7, <2>1, <2>2 DEF Bind, storage, call
  <2>3. CASE /\ p \in inside /\ Put(p, Binding, Partial) /\ Goto(p, "write_binding")
             /\ UNCHANGED call
    BY TidyPut, <1>0, <1>7, <2>1, <2>3, NamesAre DEF Bind, Put, call
  <2> QED BY <1>7, <2>2, <2>3 DEF Bind
<1>8. CASE WriteBinding(p)
  <2>1. OwnAt("write_binding", selected[p]) \subseteq OwnAt("sync_binding", selected[p])
        /\ Binding \in OwnAt("sync_binding", selected[p])
    BY OwnIs
  <2> QED BY <1>0, TidyPut, <1>8, <2>1, NamesAre DEF WriteBinding, Put, call
<1>9. CASE SyncBinding(p) \/ SyncBound(p) \/ SyncRoot(p)
  <2>1. /\ OwnAt("sync_binding", selected[p]) \subseteq OwnAt("sync_bound", selected[p])
        /\ OwnAt("sync_bound", selected[p]) \subseteq OwnAt("sync_root", selected[p])
        /\ OwnAt("sync_root", selected[p]) \subseteq OwnAt("look_sealed", selected[p])
    BY OwnIs
  <2>2. UNCHANGED <<files, selected, made>>
    BY <1>9 DEF SyncBinding, SyncBound, SyncRoot, call
  <2> QED BY TidyGo, <1>0, <1>9, <2>1, <2>2 DEF SyncBinding, SyncBound, SyncRoot
<1>10. CASE LookSealed(p) /\ ~Refuse(p)
  <2>1. OwnAt("look_sealed", selected[p]) \subseteq OwnAt("stage", selected[p])
    BY OwnIs
  <2> QED BY TidyGo, <1>0, <1>10, <2>1 DEF LookSealed, storage
<1>11. ~Start(p) /\ ~MakeStage(p)
  BY <1>0 DEF Start, MakeStage, Shape
<1> QED BY <1>3, <1>4, <1>5, <1>6, <1>7, <1>8, <1>9, <1>10, <1>11 DEF Begin

LEMMA TidyReplay ==
  ASSUME IInv, NEW p \in Process, Custody(p), p \in made, Keeps(p), Replay(p)
  PROVE  Tidied(p)
<1>0. /\ Typed /\ TypeOK /\ Shape(p) /\ files \in [Name -> Content]
      /\ pc[p] \notin {"open", "rmdir"} => p \in inside
      /\ pc[p] # "idle"
  BY Custodian
<1>1. selected[p] \subseteq Entry /\ (pc[p] \in Replaying => active[p] \in selected[p])
  BY <1>0, EntriesAre
<1> DEFINE All == {LockFile, Binding, Sealed, SealedPending}
                    \cup {Pending(e) : e \in selected[p]} \cup {Payload(e) : e \in selected[p]}
<1>2. \A to \in {"stage", "abandon"} \cup Replaying \cup Sealing : OwnAt(to, selected[p]) = All
  BY OwnIs
<1> HIDE DEF All
<1>3. \A to \in {"stage", "write", "rename_entry", "sync_entry", "write_seal", "rename_seal",
                 "sync_seal"} : OwnAt(to, selected[p]) = All /\ to # "sync_removed"
  BY <1>2 DEF Replaying, Sealing
<1>4. /\ Sealed \in All /\ SealedPending \in All
      /\ \A e \in selected[p] : Pending(e) \in All /\ Payload(e) \in All
  BY DEF All
<1>5. ASSUME NEW from \in {"stage", "write", "rename_entry", "sync_entry", "write_seal",
                           "rename_seal", "sync_seal"},
             NEW to \in {"stage", "write", "rename_entry", "sync_entry", "write_seal",
                         "rename_seal", "sync_seal"},
             pc[p] = from, Goto(p, to), UNCHANGED <<selected, made>>
      PROVE  /\ files' = files => Tidied(p)
             /\ \A n \in Name \cap All : \A c : files' = [files EXCEPT ![n] = c] => Tidied(p)
  <2>1. files' = files => Tidied(p)
    BY <1>0, <1>3, <1>5, TidyGo
  <2>2. ASSUME NEW n \in Name \cap All, NEW c, files' = [files EXCEPT ![n] = c] PROVE Tidied(p)
    <3>1. /\ n \in Name /\ n \in OwnAt(to, selected[p]) /\ to # "sync_removed"
          /\ \A m \in Name \ {n} : m \in OwnAt(from, selected[p]) => m \in OwnAt(to, selected[p])
      BY <1>3
    <3>2. pc[p] = from /\ Goto(p, to) /\ UNCHANGED <<selected, made>> /\ TypeOK
      BY <1>0, <1>5
    <3> QED BY <2>2, <3>1, <3>2, TidyPut
  <2> QED BY <2>1, <2>2
<1>6. ASSUME NEW to \in {"sync_entry", "sync_seal"},
             pc[p] \in {"rename_entry", "rename_seal"}, Goto(p, to), UNCHANGED <<selected, made>>,
             NEW n \in Name \cap All, NEW m \in Name \cap All,
             files' = [files EXCEPT ![n] = files[m], ![m] = Absent]
      PROVE  Tidied(p)
  <2>1. pc'[p] = to
    BY <1>0, <1>6, Goes
  <2>2. \A k \in Name : files'[k] # Absent => k = n \/ files[k] # Absent
    BY <1>0, <1>6
  <2>3. OwnAt(pc[p], selected[p]) = All /\ OwnAt(to, selected[p]) = All /\ to # "sync_removed"
    BY <1>3, <1>6
  <2>4. Keeps(p)'
    BY <1>6, <2>1, <2>2, <2>3 DEF Keeps
  <2> QED BY <1>6, <2>1, <2>3, <2>4 DEF Tidied
<1>7. CASE BeginEntry(p)
  <2>1. PICK e \in selected[p] : Put(p, Pending(e), Partial)
    BY <1>7 DEF BeginEntry
  <2>2. Pending(e) \in Name \cap All
    BY <1>1, <1>4, <2>1, NamesAre
  <2> QED BY <1>5, <1>7, <2>1, <2>2 DEF BeginEntry, Put
<1>8. CASE VerifyEntry(p)
  <2>1. Goto(p, "stage") /\ pc[p] = "stage"
    BY <1>0, <1>8 DEF VerifyEntry, Goto, TypeOK
  <2> QED BY <1>5, <1>8, <2>1 DEF VerifyEntry, storage
<1>9. CASE WriteEntry(p)
  <2>1. Pending(active[p]) \in Name \cap All
    BY <1>1, <1>4, <1>9, NamesAre DEF WriteEntry, Replaying
  <2> QED BY <1>5, <1>9, <2>1 DEF WriteEntry, Put, call
<1>10. CASE RenameEntry(p)
  <2>1. p \in inside
    BY <1>0, <1>10 DEF RenameEntry
  <2>2. Pending(active[p]) \in Name \cap All /\ Payload(active[p]) \in Name \cap All
    BY <1>1, <1>4, <1>10, NamesAre DEF RenameEntry, Replaying
  <2> QED BY <1>6, <1>10, <2>1, <2>2 DEF RenameEntry, Move, call
<1>11. CASE EndEntry(p)
  BY <1>5, <1>11 DEF EndEntry, EntryDone
<1>12. CASE Seal(p)
  BY <1>4, <1>5, <1>12, NamesAre DEF Seal, Put
<1>13. CASE WriteSeal(p)
  BY <1>4, <1>5, <1>13, NamesAre DEF WriteSeal, Put, call
<1>14. CASE RenameSeal(p)
  <2>1. p \in inside
    BY <1>0, <1>14 DEF RenameSeal
  <2> QED BY <1>4, <1>6, <1>14, <2>1, NamesAre DEF RenameSeal, Move
<1> QED BY <1>7, <1>8, <1>9, <1>10, <1>11, <1>12, <1>13, <1>14 DEF Replay

LEMMA TidyAbandon ==
  ASSUME IInv, NEW p \in Process, Custody(p), p \in made, Keeps(p), Abandon(p)
  PROVE  Tidied(p)
<1>0. /\ Typed /\ TypeOK /\ Shape(p) /\ Mine(p) /\ files \in [Name -> Content]
      /\ pc[p] \notin {"open", "rmdir"} => p \in inside
      /\ pc[p] # "idle" /\ selected[p] # Absent
  BY Custodian
<1>1. CASE Drop(p)
  <2>1. CASE p \in visible
    <3>1. files[Sealed] # Absent
      BY <1>0, <2>1 DEF Mine, Reached
    <3> QED BY <1>0, <1>1, <2>1, <3>1, Closed DEF Drop, Tidied, storage
  <2>2. CASE p \notin visible
    <3>1. OwnAt(pc[p], selected[p]) = OwnAt("abandon", selected[p])
      <4>1. pc[p] \in {"stage", "abandon"} \cup Replaying \cup Sealing
        BY <1>1 DEF Drop, Replaying
      <4>2. OwnAt(pc[p], selected[p]) = {LockFile, Binding, Sealed, SealedPending}
                \cup {Pending(e) : e \in selected[p]} \cup {Payload(e) : e \in selected[p]}
        BY <4>1, OwnIs
      <4> QED BY <4>2, OwnIs
    <3> QED BY <1>0, <1>1, <2>2, <3>1, TidyGo DEF Drop, storage, call
  <2> QED BY <2>1, <2>2
<1>2. CASE UnlinkFile(p)
  <2>1. PICK n \in Doomed(p) : files' = [files EXCEPT ![n] = Absent]
    BY <1>0, <1>2 DEF UnlinkFile, Put
  <2>2. n \in Name
    BY <1>0, <1>2, <2>1, EntriesAre DEF UnlinkFile
  <2>3. Goto(p, pc[p]) /\ pc[p] # "sync_removed"
    BY <1>0, <1>2 DEF UnlinkFile, Goto, TypeOK
  <2> QED BY <1>0, <1>2, <2>1, <2>2, <2>3, TidyPut DEF UnlinkFile, call
<1>3. CASE FilesUnlinked(p)
  <2>1. pc[p] \in {"clean", "abandon"} /\ pc'[p] = "unlink_binding" /\ p \in inside
        /\ UNCHANGED <<files, selected, made>>
    BY <1>0, <1>3, Goes DEF FilesUnlinked, storage, call
  <2>2. files[Sealed] = Absent
    BY <1>0, <2>1 DEF Mine, Reached, Clearing, Removing
  <2>3. \A n \in Doomed(p) : files[n] = Absent
    BY <1>3, <2>1 DEF FilesUnlinked, Sees
  <2>4. OwnAt("unlink_binding", selected[p]) = {LockFile, Binding}
    BY OwnIs
  <2>5. OwnAt(pc[p], selected[p]) \subseteq {LockFile, Binding, Sealed} \cup Doomed(p)
    BY <2>1, OwnIs DEF Doomed
  <2>6. Keeps(p)'
    BY <2>1, <2>2, <2>3, <2>4, <2>5 DEF Keeps
  <2> QED BY <2>1, <2>6 DEF Tidied
<1>4. CASE UnlinkBinding(p)
  <2>1. files' = [files EXCEPT ![Binding] = Absent] /\ UNCHANGED <<selected, made>>
        /\ pc[p] = "unlink_binding" /\ Goto(p, "unlock")
    BY <1>0, <1>4 DEF UnlinkBinding, Put, call
  <2>2. \A m \in Name \ {Binding} : m \in OwnAt("unlink_binding", selected[p]) =>
                                      m \in OwnAt("unlock", selected[p])
    BY OwnIs
  <2> QED BY <1>0, <2>1, <2>2, NamesAre, TidyPut
<1>5. CASE Unlock(p)
  <2>1. OwnAt("unlock", selected[p]) \subseteq OwnAt("unlink_lock", selected[p])
    BY OwnIs
  <2> QED BY <1>0, <1>5, <2>1, TidyGo DEF Unlock, storage, call
<1>6. CASE UnlinkLock(p)
  <2>1. files' = [files EXCEPT ![LockFile] = Absent] /\ UNCHANGED <<selected, made>>
        /\ pc[p] = "unlink_lock" /\ Goto(p, "rmdir")
    BY <1>0, <1>6 DEF UnlinkLock, Put, call
  <2>2. \A m \in Name \ {LockFile} : m \in OwnAt("unlink_lock", selected[p]) =>
                                       m \in OwnAt("rmdir", selected[p])
    BY OwnIs
  <2> QED BY <1>0, <2>1, <2>2, NamesAre, TidyPut
<1>7. CASE RemoveStage(p)
  <2>1. pc[p] = "rmdir" /\ pc'[p] = "sync_removed"
    BY <1>0, <1>7, Goes DEF RemoveStage
  <2>2. \A n \in Name : files[n] = Absent
    BY <2>1, OwnIs DEF Keeps
  <2>3. files = Empty
    BY <1>0, <2>2 DEF Empty
  <2> QED BY <1>7, <2>1, <2>3 DEF RemoveStage, Tidied
<1>8. ~SyncRemoved(p)
  BY DEF SyncRemoved, Custody, Written, Clearing, Replaying, Sealing, Removing
<1> QED BY <1>1, <1>2, <1>3, <1>4, <1>5, <1>6, <1>7, <1>8 DEF Abandon

LEMMA TidyFail ==
  ASSUME IInv, NEW p \in Process, Custody(p), p \in made, Keeps(p), CallFails(p),
         "left" \notin mishap'
  PROVE  Tidied(p)
<1>0. Typed /\ TypeOK /\ Shape(p)
  BY Custodian
<1>1. UNCHANGED files
  BY DEF CallFails, storage
<1>2. pc[p] # "mkdir" /\ pc[p] # "sync_removed"
  BY <1>0 DEF Shape, Custody, Written, Clearing, Replaying, Sealing, Removing
<1>3. pc[p] \notin Removing
  BY <1>2, Fails DEF MishapOf, Removing, Beginning, Replaying, Sealing
<1>4. CASE pc[p] \in Beginning /\ Refuse(p)
  BY <1>4, TidyRefuse
<1>5. CASE /\ UNCHANGED <<locks, call>> /\ pc[p] \in Replaying \cup Sealing
           /\ \E to \in {"abandon", "stage"} : Goto(p, to)
  <2>1. \A to \in {"abandon", "stage"} :
          OwnAt(pc[p], selected[p]) = OwnAt(to, selected[p]) /\ to # "sync_removed"
    <3>1. OwnAt(pc[p], selected[p]) = {LockFile, Binding, Sealed, SealedPending}
                \cup {Pending(e) : e \in selected[p]} \cup {Payload(e) : e \in selected[p]}
      BY <1>5, OwnIs
    <3> QED BY <3>1, OwnIs
  <2> QED BY <1>0, <1>1, <1>5, <2>1, TidyGo DEF call
<1> QED BY <1>2, <1>3, <1>4, <1>5, Fails DEF Removing

LEMMA Makes ==
  ASSUME Typed, NEW p \in Process, Acts(p), p \notin made, dir
  PROVE  p \notin made'
<1>1. CASE Close(p)
  BY <1>1, Closed
<1>2. CASE ~Close(p)
  <2>1. Refuse(p) => made' = made
    BY <1>2 DEF Refuse, call
  <2>2. Begin(p) => made' = made
    BY <2>1 DEF Begin, Start, MakeStage, OpenStage, OpenLock, TakeLock, Bind,
             WriteBinding, SyncBinding, SyncBound, SyncRoot, LookSealed, call
  <2>3. Replay(p) => made' = made
    BY DEF Replay, BeginEntry, VerifyEntry, WriteEntry, RenameEntry, EndEntry, Seal, WriteSeal,
           RenameSeal, call
  <2>4. Abandon(p) => made' = made
    BY <1>2 DEF Abandon, Drop, UnlinkFile, FilesUnlinked, UnlinkBinding, Unlock, UnlinkLock,
                RemoveStage, SyncRemoved, call
  <2>5. CallFails(p) => made' = made
    BY <1>2, <2>1, Fails DEF call
  <2> QED BY <1>2, <2>2, <2>3, <2>4, <2>5 DEF Acts, SyncSeal, Crash
<1> QED BY <1>1, <1>2

LEMMA TidyStep ==
  ASSUME IInv, NEW p \in Process, Acts(p), Effect(p), Typed'
  PROVE  Tidy'
<1> SUFFICES ASSUME "overlap" \notin world', "left" \notin mishap'
             PROVE  /\ dir' /\ files'[Sealed] = Absent =>
                         \E q \in made' : pc'[q] # "sync_removed"
                    /\ \A q \in made' : pc'[q] # "sync_removed" => Keeps(q)'
  BY DEF Tidy
<1>0. /\ Typed /\ TypeOK /\ Alone /\ Tidy /\ Shape(p) /\ Placed(p) /\ world' = world
      /\ "left" \notin mishap
  BY DEF IInv, Typed, Effect, HistoryEffect, CallEffect
<1>1. \A q \in made : q = p
  <2>1. \A q \in made : q \in Process /\ pc[q] # "idle"
    BY <1>0 DEF Typed, TypeOK, Shape
  <2>2. pc[p] = "idle" => \A q \in Process : pc[q] = "idle"
    BY <1>0, Starts DEF Start
  <2> QED BY <1>0, <2>1, <2>2 DEF Alone
<1>2. \A q \in made' : q = p
  BY <1>1, OthersKeep, <1>0 DEF Typed, TypeOK
<1>3. CASE ~dir
  <2>1. ~Custody(p)
    BY <1>0, <1>3 DEF Placed
  <2>2. files = Empty /\ \A n \in Name : files[n] = Absent
    BY <1>0, <1>3 DEF TypeOK, Empty
  <2>3. CASE MakeStage(p)
    <3>1. p \in made' /\ pc'[p] = "open" /\ files' = files
      BY <1>0, <1>3, <2>3, Goes DEF MakeStage
    <3> QED BY <1>2, <2>2, <3>1 DEF Keeps
  <2>4. CASE ~MakeStage(p)
    <3>1. dir' = dir
      BY <1>0, <2>1, <2>4, OutsideSteps DEF Start, OpenStage, OpenLock, TakeLock, Bind, SyncRemoved,
                                      Refuse, storage
    <3>2. p \notin made'
      <4>1. CASE Close(p)
        BY <1>0, <4>1, Closed
      <4>2. CASE ~Close(p)
        <5>1. p \in made => pc[p] = "sync_removed"
          BY <2>1 DEF Custody
        <5>2. pc[p] = "sync_removed" => Close(p)
          BY <1>0, <2>1, OutsideSteps DEF Start, MakeStage, OpenStage, OpenLock, TakeLock, Bind,
                                          SyncRemoved
        <5>3. made' = made
          BY <1>0, <2>1, <2>4, <4>2, <5>1, <5>2, OutsideSteps DEF Start, OpenStage, OpenLock,
                   TakeLock, Bind, SyncRemoved, Refuse, call
        <5> QED BY <4>2, <5>1, <5>2, <5>3
      <4> QED BY <4>1, <4>2
    <3> QED BY <1>2, <1>3, <3>1, <3>2
  <2> QED BY <2>3, <2>4
<1>4. CASE dir /\ p \in made /\ pc[p] # "sync_removed"
  <2>1. Custody(p) /\ Keeps(p)
    BY <1>0, <1>4 DEF Custody, Tidy
  <2>2. Tidied(p)
    <3>1. ~Crash(p)
      BY DEF Crash, MishapOf
    <3>2. CASE SyncSeal(p)
      <4>1. pc[p] = "sync_seal" /\ files' = files /\ Close(p)
        BY <3>2 DEF SyncSeal
      <4>2. files[Sealed] # Absent
        BY <2>1, <4>1, Custodian DEF Mine, Reached, Shape
      <4> QED BY <1>0, <4>1, <4>2, Closed DEF Tidied
    <3> QED BY <1>4, <2>1, <3>1, <3>2, TidyBegin, TidyReplay, TidyAbandon, TidyFail DEF Acts
  <2> QED BY <1>2, <2>2 DEF Tidied
<1>5. CASE dir /\ ~(p \in made /\ pc[p] # "sync_removed")
  <2>1. files[Sealed] # Absent
    BY <1>0, <1>1, <1>5 DEF Tidy
  <2>2. files'[Sealed] # Absent
    BY <2>1, SealedStays
  <2>3. p \in made' => pc'[p] = "sync_removed"
    <3>1. CASE p \in made
      <4>1. ~Custody(p)
        BY <1>5, <3>1 DEF Custody, Written, Clearing, Replaying, Sealing, Removing
      <4>2. Close(p)
        BY <1>0, <1>5, <3>1, <4>1, OutsideSteps DEF Start, MakeStage, OpenStage, OpenLock, TakeLock,
                                               Bind, SyncRemoved
      <4> QED BY <1>0, <4>2, Closed
    <3>2. CASE p \notin made
      BY <1>0, <1>5, <3>2, Makes
    <3> QED BY <3>1, <3>2
  <2> QED BY <1>2, <2>2, <2>3
<1> QED BY <1>3, <1>4, <1>5 DEF TypeOK

-----------------------------------------------------------------------------
(* A loss of power.                                                        *)

LEMMA PowerStep ==
  ASSUME IInv, PowerLoss, world' = world
  PROVE  IInv'
<1>0. /\ Typed /\ TypeOK /\ Marked /\ Acknowledged
      /\ files \in [Name -> Content] /\ disk \in [Name -> Content]
  BY DEF IInv, Typed, TypeOK
<1>1. PICK there \in {dir, dirDisk}, kept \in SUBSET {n \in Name : files[n] # disk[n]} :
        /\ dir' = there
        /\ files' = IF there THEN [n \in Name |-> IF n \in kept THEN files[n] ELSE disk[n]]
                    ELSE Empty
  BY DEF PowerLoss
<1>2. /\ dirDisk' = dir' /\ disk' = files' /\ bound' = TRUE
      /\ owner' = NoProcess /\ inside' = {} /\ locking' = {}
      /\ pc' = [p \in Process |-> "idle"] /\ made' = {} /\ visible' = {}
      /\ done' = [p \in Process |-> {}]
      /\ selected' = [p \in Process |-> Absent] /\ active' = [p \in Process |-> Absent]
      /\ mishap' = mishap \cup {"left"} /\ acked' = acked
  BY DEF PowerLoss
<1>3. \A n \in Name : files'[n] = IF ~there THEN Absent
                                   ELSE IF n \in kept THEN files[n] ELSE disk[n]
  BY <1>1 DEF Empty
<1>4. TypeOK'
  <2>1. files' \in [Name -> Content] /\ dir' \in BOOLEAN
    BY <1>0, <1>1, Distinct DEF TypeOK, Empty
  <2>2. ~dir' => files' = Empty
    BY <1>1
  <2>3. pc' \in [Process -> Point]
    BY <1>2, PointsAre
  <2> QED BY <1>0, <1>2, <2>1, <2>2, <2>3 DEF TypeOK
<1>5. \A p \in Process : pc'[p] = "idle" /\ p \notin made' /\ p \notin visible' /\ p \notin inside'
  BY <1>2
<1>6. \A p \in Process : ~Custody(p)' /\ Shape(p)'
  BY <1>2, <1>5 DEF Custody, Shape, Written, Clearing, Beginning, Replaying, Sealing, Removing
<1>7. Typed' /\ One' /\ Alone'
  BY <1>4, <1>5, <1>6 DEF Typed, One, Alone
<1>8. \A p \in Process : Placed(p)' /\ Guarded(p)' /\ Reached(p)'
  <2>1. \A p \in Process : Placed(p)' /\ Owned(p)' /\ Reached(p)'
    BY <1>6, NotMine
  <2>2. \A p \in Process : Waiting(p)'
    BY <1>5 DEF Waiting
  <2> QED BY <2>1, <2>2 DEF Guarded
<1>9. Marked'
  <2>1. files'[Sealed] \in {files[Sealed], disk[Sealed], Absent}
        /\ (files'[Sealed] # Absent => there)
    BY <1>3, NamesAre
  <2>2. files'[Sealed] # Absent => files'[Sealed] = files[Sealed]
    BY <1>0, <2>1 DEF Marked
  <2>3. ASSUME NEW s \in Selection, files'[Sealed] = s, NEW e \in s
        PROVE  files'[Payload(e)] = Exact
    <3>1. s # Absent /\ e \in Entry
      BY <2>3, Distinct
    <3>2. files[Payload(e)] = Exact /\ disk[Payload(e)] = Exact
      BY <1>0, <2>2, <2>3, <3>1 DEF Marked
    <3> QED BY <1>3, <2>1, <2>3, <3>1, <3>2, NamesAre
  <2> QED BY <1>0, <1>2, <2>2, <2>3, Distinct DEF Marked
<1>10. LockKept'
  BY <1>2 DEF LockKept
<1>11. Anchored'
  <2>1. files'[Binding] # Absent => there
    BY <1>3, NamesAre
  <2>2. there => dirDisk'
    BY <1>1, <1>2
  <2> QED BY <1>2, <2>1, <2>2 DEF Anchored
<1>12. Acknowledged'
  <2>1. ASSUME NEW s \in Selection, Durable(s) PROVE Durable(s)'
    <3>1. there
      BY <1>1, <2>1 DEF Durable
    <3> QED BY <1>1, <1>2, <1>3, <2>1, <3>1, NamesAre DEF Durable
  <2> QED BY <1>0, <1>2, <2>1 DEF Acknowledged
<1>13. Tidy'
  BY <1>2 DEF Tidy
<1> QED BY <1>7, <1>8, <1>9, <1>10, <1>11, <1>12, <1>13 DEF IInv

LEMMA InitInv ==
  ASSUME Init
  PROVE  IInv
<1>0. \A n \in Name : files[n] = Absent /\ disk[n] = Absent
  BY DEF Init, Empty
<1>1. TypeOK
  <2>1. files \in [Name -> Content] /\ disk \in [Name -> Content]
    BY Distinct DEF Init, Empty
  <2>2. pc \in [Process -> Point]
    BY PointsAre DEF Init
  <2> QED BY <2>1, <2>2 DEF Init, TypeOK
<1>2. \A p \in Process : pc[p] = "idle" /\ p \notin made /\ p \notin visible /\ p \notin inside
                         /\ done[p] = {}
  BY DEF Init
<1>3. \A p \in Process : ~Custody(p) /\ Shape(p)
  BY <1>2 DEF Custody, Shape, Written, Clearing, Beginning, Replaying, Sealing, Removing
<1>4. Typed /\ One /\ Alone
  BY <1>1, <1>2, <1>3 DEF Typed, One, Alone
<1>5. \A p \in Process : Placed(p) /\ Guarded(p)
  BY <1>2, <1>3 DEF Placed, Guarded, Owned, Waiting, Cleared
<1>6. \A p \in Process : Reached(p)
  BY <1>2 DEF Reached, Written, Clearing, Beginning, Replaying, Sealing, Removing
<1>7. Marked /\ LockKept /\ Anchored /\ Acknowledged /\ Tidy
  <2>1. Marked
    BY <1>0, NamesAre, Distinct DEF Marked
  <2>2. LockKept /\ Acknowledged
    BY DEF Init, LockKept, Acknowledged
  <2>3. Anchored /\ Tidy
    BY <1>0, NamesAre DEF Init, Anchored, Tidy
  <2> QED BY <2>1, <2>2, <2>3
<1> QED BY <1>4, <1>5, <1>6, <1>7 DEF IInv

LEMMA VarsKept ==
  ASSUME IInv, UNCHANGED vars
  PROVE  IInv'
<1>1. UNCHANGED <<world, dir, dirDisk, files, disk, bound, owner, inside, locking, pc,
                  selected, made, visible, done, active, acked, mishap>>
  BY DEF vars, storage, locks, call, history
<1>2. Typed' /\ One' /\ Alone'
  BY <1>1 DEF IInv, Typed, TypeOK, Shape, Complete, One, Alone, Custody
<1>3. \A p \in Process : Placed(p)' /\ Guarded(p)' /\ Reached(p)'
  BY <1>1 DEF IInv, Placed, Guarded, Owned, Waiting, Reached, Custody
<1>4. Marked' /\ LockKept' /\ Anchored' /\ Acknowledged' /\ Tidy'
  BY <1>1 DEF IInv, Marked, LockKept, Anchored, Flushing, Acknowledged, Durable, Tidy, Keeps
<1> QED BY <1>2, <1>3, <1>4 DEF IInv

LEMMA InvStep ==
  ASSUME NoFailureWhileShared, IInv, [Next]_vars
  PROVE  IInv'
<1>1. CASE UNCHANGED vars
  BY <1>1, VarsKept
<1>2. CASE PowerLoss /\ world' = world
  BY <1>2, PowerStep
<1>3. ASSUME NEW p \in Process, Acts(p) PROVE IInv'
  <2>1. Typed' /\ Effect(p)
    BY <1>3, TypedStep DEF IInv
  <2>2. One' /\ Alone'
    BY <1>3, <2>1, OneStep, AloneStep DEF IInv
  <2>3. \A q \in Process : Placed(q)' /\ Guarded(q)' /\ Reached(q)'
    BY <1>3, <2>1, AllMine, WaitingStep DEF Guarded, Acts
  <2>4. Marked' /\ LockKept' /\ Anchored' /\ Acknowledged' /\ Tidy'
    BY <1>3, <2>1, MarkedStep, LockKeptStep, AnchoredStep, AcknowledgedStep, TidyStep DEF IInv
  <2> QED BY <2>1, <2>2, <2>3, <2>4 DEF IInv
<1> QED BY <1>1, <1>2, <1>3, NextActs

-----------------------------------------------------------------------------
\* The invariant, of every stage that fails no call while several use it.
THEOREM StageInvariant == NoFailureWhileShared => (Spec => []IInv)
<1> SUFFICES ASSUME NoFailureWhileShared PROVE Spec => []IInv
  OBVIOUS
<1>1. Init => IInv
  BY InitInv
<1>2. IInv /\ [Next]_vars => IInv'
  BY InvStep
<1> QED BY <1>1, <1>2, PTL DEF Spec

\* What is open, locked and stored has its type, and a directory that is not
\* there holds no file and no process (application_payload_store::begin).
THEOREM StageTypeCorrect == NoFailureWhileShared => (Spec => []TypeOK)
<1> SUFFICES ASSUME NoFailureWhileShared PROVE Spec => []TypeOK
  OBVIOUS
<1>1. IInv => TypeOK
  BY DEF IInv, Typed
<1> QED BY <1>1, StageInvariant, PTL

\* Two processes never write, seal or remove in the same stage, although its
\* lock file is removed and made again (lock_stage, begin, abandon).
THEOREM OneWriterOnly == NoFailureWhileShared => (Spec => []OneWriter)
<1> SUFFICES ASSUME NoFailureWhileShared PROVE Spec => []OneWriter
  OBVIOUS
<1>1. IInv => OneWriter
  <2>1. ASSUME NEW p \in Process, Writing(p) PROVE Custody(p)
    BY <2>1 DEF Writing, Custody, Written, Clearing, Beginning, Removing
  <2> QED BY <2>1 DEF IInv, One, OneWriter
<1> QED BY <1>1, StageInvariant, PTL

\* What load() returns is complete, after any crash, power loss, takeover and
\* change of selection (end, seal).
THEOREM LoadsExactly == NoFailureWhileShared => (Spec => []LoadedIsExact)
<1> SUFFICES ASSUME NoFailureWhileShared PROVE Spec => []LoadedIsExact
  OBVIOUS
<1>1. IInv => LoadedIsExact
  BY DEF IInv, Marked, LoadedIsExact, Loadable
<1> QED BY <1>1, StageInvariant, PTL

\* A seal that was reported completed can be loaded ever after, unless whoever
\* made the stage died before it had flushed it (seal, begin).
THEOREM SealIsDurable == NoFailureWhileShared => (Spec => []SealSurvives)
<1> SUFFICES ASSUME NoFailureWhileShared PROVE Spec => []SealSurvives
  OBVIOUS
<1>1. IInv => SealSurvives
  BY DEF IInv, Acknowledged, Durable, SealSurvives, Loadable
<1> QED BY <1>1, StageInvariant, PTL

\* One process at a time, none of which dies or fails to remove, leaves nothing
\* of a stage that was not sealed (abandon, begin).
THEOREM LeavesNothing == NoFailureWhileShared => (Spec => []NothingLeft)
<1> SUFFICES ASSUME NoFailureWhileShared PROVE Spec => []NothingLeft
  OBVIOUS
<1>1. IInv => NothingLeft
  <2>1. Typed => ((\A p \in Process : pc[p] = "idle") => made = {})
    BY DEF Typed, TypeOK, Shape
  <2> QED BY <2>1 DEF IInv, Tidy, NothingLeft, Typed, TypeOK
<1> QED BY <1>1, StageInvariant, PTL

\* What can be loaded no process takes away, neither one that drops its stage
\* nor one that begins it again (marker_visible, abandon).
THEOREM PublishedIsKept == NoFailureWhileShared => (Spec => PublishedStays)
<1> SUFFICES ASSUME NoFailureWhileShared PROVE Spec => PublishedStays
  OBVIOUS
<1>1. ASSUME IInv, NEW p \in Process, Acts(p), NEW s \in Selection, Loadable(s)
      PROVE  Loadable(s)'
  <2>1. Effect(p)
    BY <1>1, Effects DEF IInv
  <2>2. files[Sealed] # Absent
    BY <1>1, Distinct DEF Loadable
  <2> QED BY <1>1, <2>1, <2>2, SealedStays DEF Loadable
<1>2. IInv /\ [Next]_vars => [PowerLoss \/ \A s \in Selection : Loadable(s) => Loadable(s)']_vars
  BY <1>1, NextActs
<1> QED BY <1>2, StageInvariant, PTL DEF Spec, PublishedStays
=============================================================================
