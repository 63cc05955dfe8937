---------------------------- MODULE PayloadStage ----------------------------
(***************************************************************************)
(* The private stage of one attempt's incoming payloads                    *)
(* (payload_stage.cpp): a directory with a lock, a record of what the      *)
(* stage is bound to, one file per selected entry and, last, the marker    *)
(* that seals it. Processes run begin, the replay of the archive, seal and *)
(* abandon one system call at a time.                                      *)
(*                                                                         *)
(* A selection of entries stands for the whole binding record, since the   *)
(* attempt and the image are fixed. `files` is what processes see in the   *)
(* directory, `disk` what is flushed of it; a directory or a lock file     *)
(* that was removed while a process has it open is no longer the one that  *)
(* others find (`inside`, `locking`).                                      *)
(***************************************************************************)
EXTENDS Naturals, FiniteSets

CONSTANTS
  Process,
  Entry,        \* regular entries of the image
  Selection,    \* the selections that callers stage
  Absent,       \* no such file
  Partial,      \* a file whose bytes are not all written
  Exact,        \* the bytes the image promises
  NoProcess,
  Worlds        \* the combinations of what may happen in a behaviour:
                \* "io" a call fails, "crash" a process dies, "power" is lost,
                \* "overlap" two processes use the stage at once

WorldKind == {"io", "crash", "power", "overlap"}

ASSUME PayloadStageAssumption ==
  /\ Selection \subseteq SUBSET Entry
  /\ Cardinality({Absent, Partial, Exact}) = 3
  /\ {Absent, Partial, Exact} \cap Selection = {}
  /\ NoProcess \notin Process
  /\ Worlds \subseteq SUBSET WorldKind

Pending(e) == <<"pending", e>>
Payload(e) == <<"payload", e>>
Binding == <<"binding">>
Sealed == <<"sealed">>
SealedPending == <<"sealed pending">>
LockFile == <<"lock">>

Name == {Binding, Sealed, SealedPending, LockFile}
          \cup {Pending(e) : e \in Entry} \cup {Payload(e) : e \in Entry}

Content == Selection \cup {Absent, Partial, Exact}
Empty == [n \in Name |-> Absent]

VARIABLES
  world,    \* what may happen in this behaviour
  dir,      \* the stage directory exists
  dirDisk,  \* and its name is flushed
  files,    \* its files as processes see them
  disk,     \* its files as a power loss finds them
  bound,    \* the bytes of the binding record are flushed
  owner,    \* who has the lock of the present lock file
  inside,   \* the processes that have the present directory open
  locking,  \* the processes that have the present lock file open
  pc,
  selected, \* what each process stages
  made,     \* the processes whose begin made the directory (created)
  visible,  \* marker_visible
  done,     \* completed: the entries each process has replayed
  active,   \* the entry it is replaying, or Absent
  acked,    \* history: a seal was reported completed
  mishap    \* history: "left" processes died, or could not remove what they
            \* meant to; "unflushed" it was one that still had to flush what
            \* it made

storage == <<dir, dirDisk, files, disk, bound>>
locks == <<owner, inside, locking>>
call == <<selected, made, visible, done, active>>
history == <<acked, mishap>>
vars == <<world, storage, locks, pc, call, history>>

\* begin, after mkdirat.
Beginning == {"open", "open_lock", "lock", "bind", "write_binding",
              "sync_binding", "sync_bound", "sync_root", "look_sealed"}
Replaying == {"write", "rename_entry", "sync_entry"}
Sealing == {"seal", "write_seal", "rename_seal", "sync_seal"}
Removing == {"clean", "abandon", "unlink_binding", "unlock", "unlink_lock",
             "rmdir", "sync_removed"}
Point == {"idle", "mkdir", "stage"} \cup Beginning \cup Replaying \cup Sealing
           \cup Removing

-----------------------------------------------------------------------------
Goto(p, point) == pc' = [pc EXCEPT ![p] = point]

\* What a process reads and changes through its descriptor of the directory;
\* a removed directory is empty and takes no file.
Sees(p, n) == IF p \in inside THEN files[n] ELSE Absent

Put(p, n, content) ==
  files' = IF p \in inside THEN [files EXCEPT ![n] = content] ELSE files

Move(p, from, to) ==
  files' = IF p \in inside THEN [files EXCEPT ![to] = files[from], ![from] = Absent]
           ELSE files

Flushed(n) ==
  IF n = Binding /\ files[n] # Absent /\ ~bound THEN Partial ELSE files[n]

\* fsync of the stage directory.
Flush(p) == disk' = IF p \in inside THEN [n \in Name |-> Flushed(n)] ELSE disk

\* The lock descriptor is closed.
Unlocked(p) == IF owner = p THEN NoProcess ELSE owner

\* All descriptors are closed.
Close(p) ==
  /\ Goto(p, "idle")
  /\ owner' = Unlocked(p)
  /\ inside' = inside \ {p}
  /\ locking' = locking \ {p}
  /\ made' = made \ {p}
  /\ visible' = visible \ {p}
  /\ done' = [done EXCEPT ![p] = {}]
  /\ selected' = [selected EXCEPT ![p] = Absent]
  /\ active' = [active EXCEPT ![p] = Absent]

\* begin throws: the lock goes first, and whoever made the directory removes it.
Refuse(p) ==
  /\ UNCHANGED storage
  /\ IF p \in made
     THEN /\ Goto(p, IF p \in inside THEN "clean" ELSE "rmdir")
          /\ owner' = Unlocked(p)
          /\ locking' = locking \ {p}
          /\ UNCHANGED <<inside, call>>
     ELSE Close(p)

-----------------------------------------------------------------------------
(* application_payload_store::begin. *)

Start(p) ==
  /\ pc[p] = "idle"
  /\ "overlap" \in world \/ \A q \in Process : pc[q] = "idle"
  /\ \E s \in Selection : selected' = [selected EXCEPT ![p] = s]
  /\ Goto(p, "mkdir")
  /\ UNCHANGED <<storage, locks, made, visible, done, active>>

MakeStage(p) ==
  /\ pc[p] = "mkdir"
  /\ \/ /\ ~dir
        /\ dir' = TRUE
        /\ made' = made \cup {p}
        /\ disk' = Empty
        /\ UNCHANGED <<dirDisk, files, bound>>
     \/ dir /\ UNCHANGED <<storage, made>>
  /\ Goto(p, "open")
  /\ UNCHANGED <<locks, selected, visible, done, active>>

OpenStage(p) ==
  /\ pc[p] = "open"
  /\ \/ /\ dir
        /\ inside' = inside \cup {p}
        /\ Goto(p, "open_lock")
        /\ UNCHANGED <<storage, owner, locking, call>>
     \/ ~dir /\ Refuse(p)

OpenLock(p) ==
  /\ pc[p] = "open_lock"
  /\ \/ /\ p \in inside
        /\ Put(p, LockFile, Exact)
        /\ locking' = locking \cup {p}
        /\ Goto(p, "lock")
        /\ UNCHANGED <<dir, dirDisk, disk, bound, owner, inside, call>>
     \/ p \notin inside /\ Refuse(p)

\* Mutant: the stage is not locked.
TakeNoLock(p) ==
  /\ pc[p] = "lock"
  /\ Goto(p, "bind")
  /\ UNCHANGED <<storage, locks, call>>

\* A lock file that was removed meanwhile may or may not be locked by another.
TakeLock(p) ==
  /\ pc[p] = "lock"
  /\ \/ /\ p \in locking /\ owner = NoProcess
        /\ owner' = p
        /\ Goto(p, "bind")
        /\ UNCHANGED <<storage, inside, locking, call>>
     \/ p \in locking /\ owner # NoProcess /\ Refuse(p)
     \/ /\ p \notin locking
        /\ \/ Goto(p, "bind") /\ UNCHANGED <<storage, locks, call>>
           \/ Refuse(p)

\* record_exists, validate_record, and the O_EXCL of write_record.
Bind(p) ==
  /\ pc[p] = "bind"
  /\ \/ /\ Sees(p, Binding) = selected[p]
        /\ Goto(p, IF p \in made THEN "sync_root" ELSE "look_sealed")
        /\ UNCHANGED <<storage, locks, call>>
     \/ /\ Sees(p, Binding) = Absent
        /\ p \in made /\ p \in inside
        /\ Put(p, Binding, Partial)
        /\ bound' = FALSE
        /\ Goto(p, "write_binding")
        /\ UNCHANGED <<dir, dirDisk, disk, locks, call>>
     \/ /\ Sees(p, Binding) # selected[p]
        /\ Sees(p, Binding) = Absent => ~(p \in made /\ p \in inside)
        /\ Refuse(p)

WriteBinding(p) ==
  /\ pc[p] = "write_binding"
  /\ Put(p, Binding, selected[p])
  /\ Goto(p, "sync_binding")
  /\ UNCHANGED <<dir, dirDisk, disk, bound, locks, call>>

SyncBinding(p) ==
  /\ pc[p] = "sync_binding"
  /\ bound' = IF p \in inside THEN TRUE ELSE bound
  /\ Goto(p, "sync_bound")
  /\ UNCHANGED <<dir, dirDisk, files, disk, locks, call>>

SyncBound(p) ==
  /\ pc[p] = "sync_bound"
  /\ Flush(p)
  /\ Goto(p, "sync_root")
  /\ UNCHANGED <<dir, dirDisk, files, bound, locks, call>>

SyncRoot(p) ==
  /\ pc[p] = "sync_root"
  /\ dirDisk' = dir
  /\ Goto(p, "look_sealed")
  /\ UNCHANGED <<dir, files, disk, bound, locks, call>>

LookSealed(p) ==
  /\ pc[p] = "look_sealed"
  /\ \/ /\ Sees(p, Sealed) \in {Absent, selected[p]}
        /\ visible' = IF Sees(p, Sealed) = Absent THEN visible ELSE visible \cup {p}
        /\ Goto(p, "stage")
        /\ UNCHANGED <<storage, locks, selected, made, done, active>>
     \/ Sees(p, Sealed) \notin {Absent, selected[p]} /\ Refuse(p)

-----------------------------------------------------------------------------
(* begin, write and end of one entry. A sealed stage is compared instead of *)
(* written; the archive may break off or differ at any point.               *)

BeginEntry(p) ==
  /\ pc[p] = "stage" /\ p \notin visible
  /\ \E e \in selected[p] \ done[p] :
       /\ active' = [active EXCEPT ![p] = e]
       /\ Put(p, Pending(e), Partial)
  /\ Goto(p, "write")
  /\ UNCHANGED <<dir, dirDisk, disk, bound, locks, selected, made, visible, done>>

VerifyEntry(p) ==
  /\ pc[p] = "stage" /\ p \in visible
  /\ \E e \in selected[p] \ done[p] :
       /\ Sees(p, Payload(e)) = Exact
       /\ done' = [done EXCEPT ![p] = @ \cup {e}]
  /\ UNCHANGED <<storage, locks, pc, selected, made, visible, active>>

\* The last write, the digest and the fsync of the file.
WriteEntry(p) ==
  /\ pc[p] = "write"
  /\ Put(p, Pending(active[p]), Exact)
  /\ Goto(p, "rename_entry")
  /\ UNCHANGED <<dir, dirDisk, disk, bound, locks, call>>

RenameEntry(p) ==
  /\ pc[p] = "rename_entry"
  /\ Move(p, Pending(active[p]), Payload(active[p]))
  /\ Goto(p, "sync_entry")
  /\ UNCHANGED <<dir, dirDisk, disk, bound, locks, call>>

EntryDone(p) ==
  /\ done' = [done EXCEPT ![p] = @ \cup {active[p]}]
  /\ active' = [active EXCEPT ![p] = Absent]
  /\ Goto(p, "stage")

\* Mutant: the renamed payload is not flushed before the stage is sealed.
EndUnflushed(p) ==
  /\ pc[p] = "sync_entry"
  /\ EntryDone(p)
  /\ UNCHANGED <<storage, locks, selected, made, visible>>

EndEntry(p) ==
  /\ pc[p] = "sync_entry"
  /\ Flush(p)
  /\ EntryDone(p)
  /\ UNCHANGED <<dir, dirDisk, files, bound, locks, selected, made, visible>>

-----------------------------------------------------------------------------
(* seal. *)

Complete(p) == selected[p] \subseteq done[p]

Seal(p) ==
  /\ pc[p] = "stage"
  /\ Complete(p)
  /\ \/ /\ Sees(p, Sealed) = Absent
        /\ Put(p, SealedPending, Partial)
        /\ Goto(p, "write_seal")
        /\ UNCHANGED visible
     \/ /\ Sees(p, Sealed) = selected[p]
        /\ visible' = visible \cup {p}
        /\ Goto(p, "sync_seal")
        /\ UNCHANGED files
  /\ UNCHANGED <<dir, dirDisk, disk, bound, locks, selected, made, done, active>>

WriteSeal(p) ==
  /\ pc[p] = "write_seal"
  /\ Put(p, SealedPending, selected[p])
  /\ Goto(p, "rename_seal")
  /\ UNCHANGED <<dir, dirDisk, disk, bound, locks, call>>

RenameSeal(p) ==
  /\ pc[p] = "rename_seal"
  /\ Move(p, SealedPending, Sealed)
  /\ visible' = visible \cup {p}
  /\ Goto(p, "sync_seal")
  /\ UNCHANGED <<dir, dirDisk, disk, bound, locks, selected, made, done, active>>

\* Mutant: the marker is not flushed.
SealUnflushed(p) ==
  /\ pc[p] = "sync_seal"
  /\ acked' = TRUE
  /\ Close(p)
  /\ UNCHANGED <<storage, mishap>>

\* Reported completed; the stage object is destroyed some time later.
SyncSeal(p) ==
  /\ pc[p] = "sync_seal"
  /\ Flush(p)
  /\ acked' = TRUE
  /\ Close(p)
  /\ UNCHANGED <<dir, dirDisk, files, bound, mishap>>

-----------------------------------------------------------------------------
(* abandon, and what a refused begin removes. *)

\* Mutant: abandon does not look at marker_visible.
DropAlways(p) ==
  /\ pc[p] \in {"stage", "write"}
  /\ Goto(p, "abandon")
  /\ UNCHANGED <<locks, call, storage>>

\* The archive broke off, or the caller gave up: the destructor abandons.
Drop(p) ==
  /\ pc[p] \in {"stage", "write"}
  /\ IF p \in visible THEN Close(p) ELSE Goto(p, "abandon") /\ UNCHANGED <<locks, call>>
  /\ UNCHANGED storage

Doomed(p) ==
  IF pc[p] = "clean" THEN {SealedPending, Sealed}
  ELSE {SealedPending} \cup {Pending(e) : e \in selected[p]}
                       \cup {Payload(e) : e \in selected[p]}

UnlinkFile(p) ==
  /\ pc[p] \in {"clean", "abandon"}
  /\ \E n \in Doomed(p) : Sees(p, n) # Absent /\ Put(p, n, Absent)
  /\ UNCHANGED <<dir, dirDisk, disk, bound, locks, pc, call>>

FilesUnlinked(p) ==
  /\ pc[p] \in {"clean", "abandon"}
  /\ \A n \in Doomed(p) : Sees(p, n) = Absent
  /\ Goto(p, "unlink_binding")
  /\ UNCHANGED <<storage, locks, call>>

UnlinkBinding(p) ==
  /\ pc[p] = "unlink_binding"
  /\ Put(p, Binding, Absent)
  /\ Goto(p, "unlock")
  /\ UNCHANGED <<dir, dirDisk, disk, bound, locks, call>>

Unlock(p) ==
  /\ pc[p] = "unlock"
  /\ owner' = Unlocked(p)
  /\ locking' = locking \ {p}
  /\ Goto(p, "unlink_lock")
  /\ UNCHANGED <<storage, inside, call>>

\* Mutant: abandon leaves the lock file.
LockFileKept(p) ==
  /\ pc[p] = "unlink_lock"
  /\ Goto(p, "rmdir")
  /\ UNCHANGED <<storage, locks, call>>

\* Whoever still has the lock file open has one that nobody will find.
UnlinkLock(p) ==
  /\ pc[p] = "unlink_lock"
  /\ Put(p, LockFile, Absent)
  /\ IF p \in inside
     THEN owner' = NoProcess /\ locking' = {}
     ELSE UNCHANGED <<owner, locking>>
  /\ Goto(p, "rmdir")
  /\ UNCHANGED <<dir, dirDisk, disk, bound, inside, call>>

\* Mutant: the directory goes although there are files in it.
RemoveNonempty(p) ==
  /\ pc[p] = "rmdir"
  /\ dir' = FALSE /\ inside' = {}
  /\ Goto(p, "sync_removed")
  /\ UNCHANGED <<dirDisk, files, disk, bound, owner, locking, call>>

\* By name: whatever directory is there, if it is empty.
RemoveStage(p) ==
  /\ pc[p] = "rmdir"
  /\ IF files = Empty
     THEN dir' = FALSE /\ inside' = {}
     ELSE UNCHANGED <<dir, inside>>
  /\ Goto(p, "sync_removed")
  /\ UNCHANGED <<dirDisk, files, disk, bound, owner, locking, call>>

SyncRemoved(p) ==
  /\ pc[p] = "sync_removed"
  /\ dirDisk' = dir
  /\ Close(p)
  /\ UNCHANGED <<dir, files, disk, bound>>

-----------------------------------------------------------------------------
(* What goes wrong. *)

MishapOf(p) ==
  {"left"} \cup (IF p \in made /\ pc[p] \in Beginning \cup Removing
                 THEN {"unflushed"} ELSE {})

\* A failing call: begin throws, a replay breaks off, seal reports failed or
\* indeterminate, and removals go on.
CallFails(p) ==
  /\ "io" \in world
  /\ \/ /\ pc[p] = "mkdir"
        /\ Close(p)
        /\ UNCHANGED mishap
     \/ /\ pc[p] \in Beginning
        /\ Refuse(p)
        /\ UNCHANGED mishap
     \/ /\ pc[p] \in Replaying
        /\ Goto(p, "abandon")
        /\ UNCHANGED <<locks, call, mishap>>
     \/ /\ pc[p] \in Sealing
        /\ Goto(p, "stage")
        /\ UNCHANGED <<locks, call, mishap>>
     \/ /\ pc[p] \in Removing \ {"unlock"}
        /\ mishap' = mishap \cup MishapOf(p)
        /\ CASE pc[p] \in {"clean", "abandon"} -> Goto(p, "unlink_binding") /\ UNCHANGED <<locks, call>>
             [] pc[p] = "unlink_binding"       -> Goto(p, "unlock") /\ UNCHANGED <<locks, call>>
             [] pc[p] = "unlink_lock"          -> Goto(p, "rmdir") /\ UNCHANGED <<locks, call>>
             [] pc[p] = "rmdir"                -> Goto(p, "sync_removed") /\ UNCHANGED <<locks, call>>
             [] pc[p] = "sync_removed"         -> Close(p)
  /\ UNCHANGED <<storage, acked>>

Crash(p) ==
  /\ "crash" \in world
  /\ pc[p] # "idle"
  /\ mishap' = mishap \cup MishapOf(p)
  /\ Close(p)
  /\ UNCHANGED <<storage, acked>>

\* Every process dies, and of what was not flushed any part is lost. What
\* comes up again is on stable storage.
PowerLoss ==
  /\ "power" \in world
  /\ \E there \in {dir, dirDisk}, kept \in SUBSET {n \in Name : files[n] # disk[n]} :
       /\ dir' = there
       /\ files' = IF there THEN [n \in Name |-> IF n \in kept THEN files[n] ELSE disk[n]]
                   ELSE Empty
  /\ dirDisk' = dir'
  /\ disk' = files'
  /\ bound' = TRUE
  /\ owner' = NoProcess /\ inside' = {} /\ locking' = {}
  /\ pc' = [p \in Process |-> "idle"]
  /\ made' = {} /\ visible' = {}
  /\ done' = [p \in Process |-> {}]
  /\ selected' = [p \in Process |-> Absent] /\ active' = [p \in Process |-> Absent]
  /\ mishap' = mishap \cup {"left"}
  /\ UNCHANGED acked

-----------------------------------------------------------------------------
Begin(p) ==
  \/ Start(p) \/ MakeStage(p) \/ OpenStage(p) \/ OpenLock(p) \/ TakeLock(p)
  \/ Bind(p) \/ WriteBinding(p) \/ SyncBinding(p) \/ SyncBound(p)
  \/ SyncRoot(p) \/ LookSealed(p)

Replay(p) ==
  \/ BeginEntry(p) \/ VerifyEntry(p) \/ WriteEntry(p) \/ RenameEntry(p)
  \/ EndEntry(p) \/ Seal(p) \/ WriteSeal(p) \/ RenameSeal(p)

Abandon(p) ==
  \/ Drop(p) \/ UnlinkFile(p) \/ FilesUnlinked(p) \/ UnlinkBinding(p)
  \/ Unlock(p) \/ UnlinkLock(p) \/ RemoveStage(p) \/ SyncRemoved(p)

Init ==
  /\ world \in Worlds
  /\ dir = FALSE /\ dirDisk = FALSE
  /\ files = Empty /\ disk = Empty
  /\ bound = TRUE
  /\ owner = NoProcess /\ inside = {} /\ locking = {}
  /\ pc = [p \in Process |-> "idle"]
  /\ selected = [p \in Process |-> Absent]
  /\ made = {} /\ visible = {}
  /\ done = [p \in Process |-> {}]
  /\ active = [p \in Process |-> Absent]
  /\ acked = FALSE /\ mishap = {}

Next ==
  /\ \/ \E p \in Process :
          \/ (Begin(p) \/ Replay(p) \/ Abandon(p)) /\ UNCHANGED history
          \/ SyncSeal(p) \/ CallFails(p) \/ Crash(p)
     \/ PowerLoss
  /\ UNCHANGED world

Spec == Init /\ [][Next]_vars

-----------------------------------------------------------------------------
\* Types: and a directory that is not there has no files and no one inside.
TypeOK ==
  /\ world \in Worlds
  /\ dir \in BOOLEAN /\ dirDisk \in BOOLEAN /\ bound \in BOOLEAN
  /\ files \in [Name -> Content] /\ disk \in [Name -> Content]
  /\ owner \in Process \cup {NoProcess}
  /\ inside \subseteq Process /\ locking \subseteq inside
  /\ owner # NoProcess => owner \in locking
  /\ pc \in [Process -> Point]
  /\ selected \in [Process -> Selection \cup {Absent}]
  /\ made \subseteq Process /\ visible \subseteq Process
  /\ done \in [Process -> SUBSET Entry] /\ active \in [Process -> Entry \cup {Absent}]
  /\ acked \in BOOLEAN /\ mishap \subseteq {"left", "unflushed"}
  /\ ~dir => files = Empty /\ inside = {}

\* load() of this selection returns payloads.
Loadable(s) == dir /\ files[Binding] = s /\ files[Sealed] = s

\* Whoever has accepted or written the binding, until it has removed it again.
Writing(p) ==
  /\ p \in inside
  /\ pc[p] \in ({"stage"} \cup Beginning \cup Replaying \cup Sealing
                  \cup {"abandon", "unlink_binding"}) \ {"open", "open_lock", "lock", "bind"}

\* Two processes never write, seal or remove in the same stage, although the
\* lock file itself is removed and made again (lock_stage, begin, abandon).
OneWriter == \A p, q \in Process : Writing(p) /\ Writing(q) => p = q

\* What load() returns is complete: every entry of the selection has exactly
\* its bytes, after any crash, power loss, takeover by another process and
\* change of selection (end, seal).
LoadedIsExact ==
  \A s \in Selection : Loadable(s) => \A e \in s : files[Payload(e)] = Exact

\* A seal that was reported completed can be loaded ever after, power losses
\* included, unless whoever made the stage died before it had flushed it and
\* another took over without flushing (begin).
SealSurvives ==
  acked /\ "unflushed" \notin mishap => \E s \in Selection : Loadable(s)

\* What can be loaded is never taken away by a process, whether its seal was
\* reported completed or indeterminate, and whoever drops the stage or begins
\* it again (marker_visible, abandon).
PublishedStays ==
  [][PowerLoss \/ \A s \in Selection : Loadable(s) => Loadable(s)']_vars

\* One process at a time and nobody dying or failing to remove: a stage that
\* was not sealed leaves nothing, so the next begin starts afresh (abandon,
\* begin).
NothingLeft ==
  ("overlap" \notin world /\ "left" \notin mishap /\ files[Sealed] = Absent
     /\ \A p \in Process : pc[p] = "idle")
  => ~dir
=============================================================================
