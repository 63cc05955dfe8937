---------------------------- MODULE JournalStore ----------------------------
(***************************************************************************)
(* application_journal_store (src/src/journal_store.cpp): an exact-name    *)
(* store of immutable declarations and steps, one compare-and-published    *)
(* cursor per declaration, and one mutable request-to-declaration locator. *)
(*                                                                         *)
(* Callers in several processes run the store's operations one system call *)
(* at a time.  A name has two contents: the one every process sees (cache) *)
(* and the one a power loss would leave (disk); fsync of a directory       *)
(* copies the first to the second for the names of that directory, and the *)
(* kernel may do so by itself for any name at any time.  Unique temporary  *)
(* names are never read and are left out: writing and synchronizing one is *)
(* part of the link or rename that publishes it.                           *)
(***************************************************************************)
EXTENDS JournalTypes

CONSTANTS
  Process,      \* operating-system processes
  ProcessOf,    \* the process of each caller
  NoProcess,    \* nobody holds the cursor lock
  Ops,          \* which operations each caller of an instance uses
  Faults        \* which of FaultKind the environment may do

FaultKind == {"io", "sync", "crash", "power"}

ASSUME JournalStoreAssumption ==
  /\ ProcessOf \in [Caller -> Process]
  /\ NoProcess \notin Process
  /\ Faults \subseteq FaultKind

PC == {"idle", "mkdir_journal", "sync_mkdir_journal", "mkdir_steps",
       "sync_mkdir_steps", "require", "read", "link", "sync_link",
       "sync_cleanup", "lock", "compare", "rename", "sync_rename",
       "read_ref", "read_declaration"}
SyncPoint == {"sync_mkdir_journal", "sync_mkdir_steps", "sync_link",
              "sync_cleanup", "sync_rename"}

-----------------------------------------------------------------------------
VARIABLES
  cache,  \* what every process sees under each name
  disk,   \* what has reached stable storage under each name
  lock,   \* per declaration: the process whose record lock covers cursor.lock
  pc,     \* per caller: the next system call
  job,    \* per caller: the call being executed
  ret,    \* per caller: how its last call ended
  seen,   \* per caller: the declaration the locator it read names
  acked   \* history, kept where power may fail: <<name, bytes>> of the
          \* immutable values whose publication was reported done

vars == <<cache, disk, lock, pc, job, ret, seen, acked>>
store == <<cache, disk>>

Init ==
  /\ cache = [n \in Name |-> Absent]
  /\ disk  = [n \in Name |-> Absent]
  /\ lock  = [d \in Declaration |-> NoProcess]
  /\ pc    = [c \in Caller |-> "idle"]
  /\ job   = [c \in Caller |-> NoJob]
  /\ ret   = [c \in Caller |-> "none"]
  /\ seen  = [c \in Caller |-> Absent]
  /\ acked = {}

-----------------------------------------------------------------------------
(* How a call moves on and how it ends. *)

Goto(c, point) ==
  /\ pc' = [pc EXCEPT ![c] = point]
  /\ UNCHANGED <<job, ret, seen, lock, acked>>

\* Mutant: the lock outlives the call that took it.
LockKept(c) == lock

\* ~cursor_lock closes cursor.lock, which drops every record lock the process
\* holds on that file, whichever of its threads took it.
LockAfterClose(c) ==
  IF /\ job[c].op = "cursor"
     /\ pc[c] # "require"
     /\ lock[job[c].of] = ProcessOf[c]
  THEN [lock EXCEPT ![job[c].of] = NoProcess]
  ELSE lock

Return(c, code) ==
  /\ pc'    = [pc EXCEPT ![c] = "idle"]
  /\ job'   = [job EXCEPT ![c] = NoJob]
  /\ ret'   = [ret EXCEPT ![c] = code]
  /\ seen'  = [seen EXCEPT ![c] = Absent]
  /\ lock'  = LockAfterClose(c)
  /\ acked' = IF /\ "power" \in Faults
                 /\ code = "ok"
                 /\ job[c].op \in {"declaration", "step"}
                THEN acked \cup {<<job[c].name, job[c].bytes>>}
                ELSE acked

SyncDirectory(directory) ==
  disk' = [n \in Name |-> IF Parent(n) = directory THEN cache[n] ELSE disk[n]]

-----------------------------------------------------------------------------
(* The operations, entered at their first system call. *)

Enter(c, jobs, first) ==
  /\ pc[c] = "idle"
  /\ \E j \in jobs : j.op \in Ops[c] /\ job' = [job EXCEPT ![c] = j]
  /\ pc' = [pc EXCEPT ![c] = first]
  /\ ret' = [ret EXCEPT ![c] = "none"]
  /\ UNCHANGED <<store, seen, lock, acked>>

PublishDeclaration(c)      == Enter(c, DeclarationJob, "mkdir_journal")
PublishStep(c)             == Enter(c, StepJob, "require")
CompareAndPublishCursor(c) == Enter(c, CursorJob, "require")
LoadActiveDeclaration(c)   == Enter(c, ActiveJob, "read_ref")

-----------------------------------------------------------------------------
(* ensure_child_directory: only the creator synchronizes the parent. *)

\* Mutant: the parent of a new directory is not synchronized.
MakeDirectoryUnsynced(c, directory, created, exists) ==
  /\ cache' = [cache EXCEPT ![directory] = "directory"]
  /\ Goto(c, exists)
  /\ UNCHANGED disk

MakeDirectory(c, directory, created, exists) ==
  /\ \/ /\ cache[directory] = Absent
        /\ cache' = [cache EXCEPT ![directory] = "directory"]
        /\ Goto(c, created)
     \/ /\ cache[directory] # Absent
        /\ Goto(c, exists)
        /\ UNCHANGED cache
  /\ UNCHANGED disk

EnsureJournal(c) ==
  /\ pc[c] = "mkdir_journal"
  /\ MakeDirectory(c, JournalDir(job[c].of), "sync_mkdir_journal", "mkdir_steps")

EnsureSteps(c) ==
  /\ pc[c] = "mkdir_steps"
  /\ MakeDirectory(c, StepsDir(job[c].of), "sync_mkdir_steps", "read")

SyncNewDirectory(c) ==
  /\ \/ /\ pc[c] = "sync_mkdir_journal"
        /\ SyncDirectory(Root)
        /\ Goto(c, "mkdir_steps")
     \/ /\ pc[c] = "sync_mkdir_steps"
        /\ SyncDirectory(JournalDir(job[c].of))
        /\ Goto(c, "read")
  /\ UNCHANGED cache

\* open_required_journal, require_declaration_file, open_required_steps.
Require(c) ==
  /\ pc[c] = "require"
  /\ \/ /\ cache[JournalDir(job[c].of)] = Absent
        /\ Return(c, "namespace_open_failed")
     \/ /\ cache[JournalDir(job[c].of)] # Absent
        /\ \/ cache[DeclarationFile(job[c].of)] = Absent
           \/ job[c].op = "step" /\ cache[StepsDir(job[c].of)] = Absent
        /\ Return(c, "value_corrupt")
     \/ /\ cache[JournalDir(job[c].of)] # Absent
        /\ cache[DeclarationFile(job[c].of)] # Absent
        /\ job[c].op = "step" => cache[StepsDir(job[c].of)] # Absent
        /\ Goto(c, IF job[c].op = "step" THEN "read" ELSE "lock")
  /\ UNCHANGED store

-----------------------------------------------------------------------------
(* publish_immutable. *)

\* What follows a finished publish_immutable: publish_declaration goes on to
\* the request locator, publish_step returns.
ImmutablePublished(c) ==
  IF job[c].op = "declaration" THEN Goto(c, "rename") ELSE Return(c, "ok")

\* Mutant: an existing name is taken for an exact retry without comparison.
ReadExistingTrusted(c) ==
  /\ pc[c] = "read"
  /\ IF cache[job[c].name] = Absent THEN Goto(c, "link") ELSE ImmutablePublished(c)
  /\ UNCHANGED store

\* Mutant: the locator is renamed before the declaration is linked.
LocatorFirst(c) ==
  /\ pc[c] = "read"
  /\ Goto(c, IF job[c].op = "declaration" THEN "rename" ELSE "link")
  /\ UNCHANGED store

ReadExisting(c) ==
  /\ pc[c] = "read"
  /\ \/ /\ cache[job[c].name] = Absent
        /\ Goto(c, "link")
     \/ /\ cache[job[c].name] = job[c].bytes
        /\ ImmutablePublished(c)
     \/ /\ cache[job[c].name] \notin {Absent, job[c].bytes}
        /\ Return(c, "immutable_conflict")
  /\ UNCHANGED store

\* Mutant: renameat, which replaces an existing name.
LinkReplaces(c) ==
  /\ pc[c] = "link"
  /\ cache' = [cache EXCEPT ![job[c].name] = job[c].bytes]
  /\ Goto(c, "sync_link")
  /\ UNCHANGED disk

\* write_temporary, then linkat, which never replaces an existing name.
Link(c) ==
  /\ pc[c] = "link"
  /\ \/ /\ cache[job[c].name] = Absent
        /\ cache' = [cache EXCEPT ![job[c].name] = job[c].bytes]
        /\ Goto(c, "sync_link")
     \/ /\ cache[job[c].name] = job[c].bytes
        /\ ImmutablePublished(c)
        /\ UNCHANGED cache
     \/ /\ cache[job[c].name] \notin {Absent, job[c].bytes}
        /\ Return(c, "immutable_conflict")
        /\ UNCHANGED cache
  /\ UNCHANGED disk

SyncLink(c) ==
  /\ pc[c] = "sync_link"
  /\ SyncDirectory(Parent(job[c].name))
  /\ Goto(c, "sync_cleanup")
  /\ UNCHANGED cache

SyncCleanup(c) ==
  /\ pc[c] = "sync_cleanup"
  /\ SyncDirectory(Parent(job[c].name))
  /\ ImmutablePublished(c)
  /\ UNCHANGED cache

-----------------------------------------------------------------------------
(* publish_replacement: the locator of a declaration, or a cursor. *)

Replaced(j) ==
  IF j.op = "declaration" THEN ActiveRef(RequestOf[j.of]) ELSE j.name

\* Mutant: the temporary is renamed before its bytes are written.
RenameUnwritten(c) ==
  /\ pc[c] = "rename"
  /\ cache' = [cache EXCEPT ![Replaced(job[c])] = "no bytes"]
  /\ Goto(c, "sync_rename")
  /\ UNCHANGED disk

Rename(c) ==
  /\ pc[c] = "rename"
  /\ cache' = [cache EXCEPT ![Replaced(job[c])] = job[c].bytes]
  /\ Goto(c, "sync_rename")
  /\ UNCHANGED disk

\* Mutant: the rename is not synchronized.
RenameUnsynced(c) ==
  /\ pc[c] = "sync_rename"
  /\ Return(c, "ok")
  /\ UNCHANGED store

SyncRename(c) ==
  /\ pc[c] = "sync_rename"
  /\ SyncDirectory(Parent(Replaced(job[c])))
  /\ Return(c, "ok")
  /\ UNCHANGED cache

-----------------------------------------------------------------------------
(* compare_and_publish_cursor under cursor_lock. *)

\* Mutant: F_SETLK's refusal is ignored.
LockIgnored(c) ==
  /\ pc[c] = "lock"
  /\ lock' = [lock EXCEPT ![job[c].of] = ProcessOf[c]]
  /\ pc' = [pc EXCEPT ![c] = "compare"]
  /\ UNCHANGED <<store, job, ret, seen, acked>>

\* A record lock conflicts only with the locks of other processes.
LockCursor(c) ==
  /\ pc[c] = "lock"
  /\ lock[job[c].of] \in {NoProcess, ProcessOf[c]}
  /\ lock' = [lock EXCEPT ![job[c].of] = ProcessOf[c]]
  /\ pc' = [pc EXCEPT ![c] = "compare"]
  /\ UNCHANGED <<store, job, ret, seen, acked>>

\* Mutant: the desired value is published without comparison.
CompareSkipped(c) ==
  /\ pc[c] = "compare"
  /\ Goto(c, "rename")
  /\ UNCHANGED store

CompareCursor(c) ==
  /\ pc[c] = "compare"
  /\ LET current == cache[job[c].name]
     IN  \/ /\ current = job[c].bytes
            /\ Return(c, "ok")
         \/ /\ current # job[c].bytes
            /\ current = job[c].expected
            /\ Goto(c, "rename")
         \/ /\ current \notin {job[c].bytes, job[c].expected}
            /\ Return(c, "cursor_conflict")
  /\ UNCHANGED store

-----------------------------------------------------------------------------
(* load_active_declaration: the locator, then the declaration it names. *)

ReadRef(c) ==
  /\ pc[c] = "read_ref"
  /\ \/ /\ cache[job[c].name] = Absent
        /\ Return(c, "absent")
     \/ /\ cache[job[c].name] # Absent
        /\ seen' = [seen EXCEPT ![c] = cache[job[c].name]]
        /\ pc' = [pc EXCEPT ![c] = "read_declaration"]
        /\ UNCHANGED <<job, ret, lock, acked>>
  /\ UNCHANGED store

ReadDeclaration(c) ==
  /\ pc[c] = "read_declaration"
  /\ IF /\ cache[DeclarationFile(seen[c])] # Absent
        /\ ActiveRef(RequestOf[seen[c]]) = job[c].name
     THEN Return(c, "ok")
     ELSE Return(c, "index_corrupt")
  /\ UNCHANGED store

-----------------------------------------------------------------------------
(* Faults. *)

\* Any call but fsync of a directory fails: the temporary is unlinked or left
\* behind and the exact name is untouched.
IoError(c) ==
  /\ "io" \in Faults
  /\ pc[c] \notin SyncPoint \cup {"idle"}
  /\ Return(c, "io_error")
  /\ UNCHANGED store

SyncError(c) ==
  /\ "sync" \in Faults
  /\ pc[c] \in SyncPoint
  /\ Return(c, "directory_sync_failed")
  /\ UNCHANGED store

\* A process dies: its calls vanish, its record locks are dropped.
Crash(p) ==
  /\ "crash" \in Faults
  /\ \E c \in Caller : ProcessOf[c] = p /\ pc[c] # "idle"
  /\ pc'   = [c \in Caller |-> IF ProcessOf[c] = p THEN "idle" ELSE pc[c]]
  /\ job'  = [c \in Caller |-> IF ProcessOf[c] = p THEN NoJob ELSE job[c]]
  /\ ret'  = [c \in Caller |-> IF ProcessOf[c] = p THEN "none" ELSE ret[c]]
  /\ seen' = [c \in Caller |-> IF ProcessOf[c] = p THEN Absent ELSE seen[c]]
  /\ lock' = [d \in Declaration |-> IF lock[d] = p THEN NoProcess ELSE lock[d]]
  /\ UNCHANGED <<store, acked>>

\* The kernel writes one directory entry back by itself.
WriteBack(n) ==
  /\ "power" \in Faults
  /\ disk[n] # cache[n]
  /\ disk' = [disk EXCEPT ![n] = cache[n]]
  /\ UNCHANGED <<cache, lock, pc, job, ret, seen, acked>>

\* What a power loss leaves: the entries on disk whose directories are there.
Survivor ==
  [n \in Name |-> IF \A a \in Containing(n) : disk[a] # Absent
                    THEN disk[n] ELSE Absent]

PowerLoss ==
  /\ "power" \in Faults
  /\ cache' = Survivor
  /\ disk'  = Survivor
  /\ lock'  = [d \in Declaration |-> NoProcess]
  /\ pc'    = [c \in Caller |-> "idle"]
  /\ job'   = [c \in Caller |-> NoJob]
  /\ ret'   = [c \in Caller |-> "none"]
  /\ seen'  = [c \in Caller |-> Absent]
  /\ UNCHANGED acked

-----------------------------------------------------------------------------
StoreCall(c) ==
  \/ EnsureJournal(c) \/ EnsureSteps(c) \/ SyncNewDirectory(c) \/ Require(c)
  \/ ReadExisting(c) \/ Link(c) \/ SyncLink(c) \/ SyncCleanup(c)
  \/ LockCursor(c) \/ CompareCursor(c) \/ Rename(c) \/ SyncRename(c)
  \/ ReadRef(c) \/ ReadDeclaration(c)

Begin(c) ==
  \/ PublishDeclaration(c) \/ PublishStep(c) \/ CompareAndPublishCursor(c)
  \/ LoadActiveDeclaration(c)

Fault ==
  \/ \E c \in Caller : IoError(c) \/ SyncError(c)
  \/ \E p \in Process : Crash(p)
  \/ \E n \in Name : WriteBack(n)
  \/ PowerLoss

Next == (\E c \in Caller : Begin(c) \/ StoreCall(c)) \/ Fault

Spec == Init /\ [][Next]_vars

\* Every caller keeps running the call it is in; record locks are granted in
\* the long run to each waiter (the kernel wakes all of them on release).
FairSpec ==
  /\ Spec
  /\ \A c \in Caller : WF_vars(StoreCall(c)) /\ SF_vars(LockCursor(c))

-----------------------------------------------------------------------------
(* Properties. *)

\* Every variable keeps its type: in particular each caller's program counter,
\* call and result stay among those of journal_store.cpp.
TypeOK ==
  /\ cache \in [Name -> Bytes \cup {Absent}]
  /\ disk  \in [Name -> Bytes \cup {Absent}]
  /\ lock  \in [Declaration -> Process \cup {NoProcess}]
  /\ pc    \in [Caller -> PC]
  /\ job   \in [Caller -> Job]
  /\ ret   \in [Caller -> Code]
  /\ seen  \in [Caller -> Declaration \cup {Absent}]
  /\ acked \subseteq Name \X Bytes

\* A declaration or step name never changes its bytes, whatever publishers race
\* for it, retry or die; only a power loss may take back an unsynchronized one
\* (publish_immutable: read, temporary, linkat without replacement).
ImmutableNamesStay ==
  [][\A n \in Immutable :
       cache[n] # Absent =>
         \/ cache'[n] = cache[n]
         \/ PowerLoss /\ cache'[n] = Absent]_vars

\* A cursor only moves from the value a call expected to the value that call
\* desired, although the comparison and the rename are separate system calls
\* (compare_and_publish_cursor under cursor_lock).
CursorSwapsAtomically ==
  [][\A d \in Declaration :
       cache'[CursorFile(d)] # cache[CursorFile(d)] =>
         \/ PowerLoss
         \/ \E c \in Caller :
              /\ job[c].op = "cursor"
              /\ job[c].of = d
              /\ cache[CursorFile(d)] = job[c].expected
              /\ cache'[CursorFile(d)] = job[c].bytes]_vars

\* A locator names a declaration that is there and is of that request, so
\* load_active_declaration has nothing to report as index_corrupt.
Resolves(content) ==
  \A r \in Request :
    content[ActiveRef(r)] # Absent =>
      \E d \in Declaration :
        /\ content[ActiveRef(r)] = d
        /\ RequestOf[d] = r
        /\ content[DeclarationFile(d)] = d

LocatorResolves == Resolves(cache)

\* The same of what a power loss would leave: a locator that survives points
\* at a declaration that survives (publish_declaration synchronizes the
\* declaration's directory before it renames the locator).
DurableLocatorResolves == Resolves(Survivor)

\* A declaration or step whose publication reported success survives a power
\* loss, with the directories it is reached through.
AckedSurvive == \A a \in acked : Survivor[a[1]] = a[2]

\* A compare-and-publish that reports success leaves a cursor on stable storage
\* that is the desired one, also when it found that value already visible.
CursorAckDurable ==
  [][\A c \in Caller :
       (job[c].op = "cursor" /\ job'[c] = NoJob /\ ret'[c] = "ok") =>
         disk'[job[c].name] = job[c].bytes]_vars

\* Every call returns, although compare_and_publish_cursor waits for a lock
\* without a timeout.
EveryCallReturns == \A c \in Caller : pc[c] # "idle" ~> pc[c] = "idle"

-----------------------------------------------------------------------------
(* The store implements what it promises. *)

Spine == INSTANCE JournalSpec
           WITH retained <- [n \in {m \in Name : m[1] \notin {"journal", "steps"}}
                               |-> cache[n]]

\* While the machine stays up, every step of the store is one of the promised
\* atomic steps or changes nothing a caller can see.
ImplementsSpine == Spine!Spec
=============================================================================
