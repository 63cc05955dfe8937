---------------------------- MODULE RejectedStore ----------------------------
(***************************************************************************)
(* The rejected object of one path and attempt (rejected_store.cpp): its   *)
(* payload, if it is a regular file, and its record in the attempt's       *)
(* directory, and a second link to each in the index of all attempts,      *)
(* named by the record's identity. Processes run publish, load,            *)
(* load_identified and synchronize by their system calls.                  *)
(*                                                                         *)
(* Temporary files have unique names and nobody reads another's, so that   *)
(* the ones a death leaves are left out. A file holds the bytes it should  *)
(* hold (Whole), other bytes or none; the record of an attempt, path and   *)
(* object has always the same bytes and the same identity.                 *)
(***************************************************************************)
EXTENDS FiniteSets

CONSTANTS
  Process,
  NoProcess,
  Absent,       \* no such file
  Empty,        \* a file whose bytes were lost
  Whole,        \* a file with the right bytes, or a directory
  Other,        \* other bytes
  Worlds        \* the combinations of what may happen in a behaviour:
                \* "stop" a call fails or a process dies, "power" is lost,
                \* "overlap" two processes are at the attempt at once

WorldKind == {"stop", "power", "overlap"}

ASSUME RejectedStoreAssumption ==
  /\ Cardinality({Absent, Empty, Whole, Other}) = 4
  /\ NoProcess \notin Process
  /\ Worlds \subseteq SUBSET WorldKind

Directory == {"attempt", "source", "index"}
Name == Directory \cup {"binding", "payload", "record", "index_payload", "index_record"}
Content == {Absent, Empty, Whole, Other}
Kind == {"regular", "other"}

Parent(n) ==
  CASE n \in {"attempt", "index"} -> "store"
    [] n \in {"index_payload", "index_record"} -> "index"
    [] n \in {"source", "binding"} -> "attempt"
    [] n \in {"payload", "record"} -> "source"

\* The directories of the store that a name is reached through.
Above(n) ==
  ({Parent(n)} \cup IF Parent(n) = "source" THEN {"attempt"} ELSE {}) \ {"store"}

Indexed(n) == IF n = "payload" THEN "index_payload" ELSE "index_record"

VARIABLES
  world,
  kind,       \* what the rejected object is
  files,      \* what processes see under each name
  disk,       \* the names that are flushed
  loose,      \* the files of the attempt whose bytes are not flushed
  apart,      \* the files whose two names are of different inodes
  writer,     \* who has the attempt's lock to write
  readers,    \* and who to read
  pc,
  call,       \* what each process runs
  returned,   \* the processes that retain the completed effect (rejected_effects_)
  named,      \* the engine has kept that the publication completed
  status,     \* and what it was last told of the store's durability
  confirmed,  \* history: the names there when synchronize returned
  undone      \* history: something was lost before the engine was told that
              \* the store is durable

storage == <<files, disk, loose, apart>>
locks == <<writer, readers>>
working == <<pc, call, returned>>
journal == <<named, status>>
history == <<confirmed, undone>>
rejecting == <<world, kind, storage, locks, working, journal, history>>

Operation == {"none", "publish", "load", "identify", "synchronize"}
Point == {"idle", "mkdir", "open_dir", "bind", "lock", "mkdir_source", "look",
          "copy", "link_payload", "link_record", "mkdir_index",
          "link_index_payload", "link_index_record", "identify", "verify",
          "sync_source", "sync_index", "sync_attempt", "sync_store"}
Status == {"not_attempted", "unconfirmed", "confirmed"}

Calling(operation) == [operation |-> operation, bytes |-> Absent, flushed |-> FALSE]
NoCall == Calling("none")

RejectedInit ==
  /\ world \in Worlds /\ kind \in Kind
  /\ files = [n \in Name |-> Absent] /\ disk = {} /\ loose = {} /\ apart = {}
  /\ writer = NoProcess /\ readers = {}
  /\ pc = [p \in Process |-> "idle"]
  /\ call = [p \in Process |-> NoCall]
  /\ returned = {} /\ named = FALSE /\ status = "not_attempted"
  /\ confirmed = {} /\ undone = FALSE

-----------------------------------------------------------------------------
Present == {n \in Name : files[n] # Absent}

Goto(p, point) == pc' = [pc EXCEPT ![p] = point]

Step(p, from, to) ==
  /\ pc[p] = from
  /\ Goto(p, to)
  /\ UNCHANGED <<call, returned>>

Unchanged == UNCHANGED <<world, kind, storage, locks, journal, history>>

\* The call ends: descriptors and the lock are closed, the temporary file is
\* unlinked.
Close(p) ==
  /\ Goto(p, "idle")
  /\ call' = [call EXCEPT ![p] = NoCall]
  /\ writer' = IF writer = p THEN NoProcess ELSE writer
  /\ readers' = readers \ {p}

\* The call throws, or it found nothing and changed nothing.
Return(p) ==
  /\ Close(p)
  /\ UNCHANGED <<world, kind, storage, returned, journal, history>>

\* Mutant: every new name is taken for another inode's.
MakeApart(n, content, flushed) ==
  /\ files' = [files EXCEPT ![n] = content]
  /\ loose' = IF flushed THEN loose \ {n} ELSE loose \cup {n}
  /\ apart' = apart \cup {n}
  /\ UNCHANGED <<world, kind, disk, locks, journal, history>>

\* mkdirat, or linkat of a temporary file.
Make(n, content, flushed) ==
  /\ files' = [files EXCEPT ![n] = content]
  /\ loose' = IF flushed THEN loose \ {n} ELSE loose \cup {n}
  /\ apart' = IF n \in {"payload", "record"} /\ files[Indexed(n)] # Absent
                THEN apart \cup {n} ELSE apart
  /\ UNCHANGED <<world, kind, disk, locks, journal, history>>

MakeDirectory(p, from, d, to) ==
  /\ Step(p, from, to)
  /\ IF files[d] = Absent THEN Make(d, Whole, TRUE) ELSE Unchanged

\* decode_record, decode_identified_record
Decodes(n) == files[n] = Whole

\* open_verified_payload_named, under either name.
PayloadVerifies(n) == kind = "regular" => files[n] = Whole

-----------------------------------------------------------------------------
\* open_attempt_directory, lock_attempt and open_source_directory

Alone(p) == "overlap" \in world \/ \A q \in Process \ {p} : pc[q] = "idle"

\* A transaction that retains the effect does not ask for it again.
Start(p) ==
  /\ pc[p] = "idle" /\ Alone(p)
  /\ \E operation \in Operation \ {"none"} :
       /\ operation \in {"publish", "load"} => p \notin returned
       /\ operation = "synchronize" => p \in returned
       /\ call' = [call EXCEPT ![p] = Calling(operation)]
       /\ Goto(p, CASE operation = "publish" -> "mkdir"
                    [] operation = "identify" -> "identify"
                    [] OTHER -> "open_dir")
  /\ UNCHANGED returned
  /\ Unchanged

MakeAttempt(p) == MakeDirectory(p, "mkdir", "attempt", "open_dir")

\* An empty binding is taken for none. Without a directory or a binding there
\* is nothing to load, and synchronize throws.
OpenAttempt(p) ==
  LET unbound == files["binding"] \in {Absent, Empty}
  IN /\ pc[p] = "open_dir"
     /\ IF ~unbound THEN Step(p, "open_dir", "lock") /\ Unchanged
        ELSE IF call[p].operation = "publish"
          THEN Step(p, "open_dir", "bind") /\ Unchanged
          ELSE Return(p)

\* publish_immutable_bytes: what is there already must be the same.
PublishBinding(p) ==
  /\ pc[p] = "bind"
  /\ CASE files["binding"] = Absent -> Step(p, "bind", "lock") /\ Make("binding", Whole, TRUE)
       [] Decodes("binding") -> Step(p, "bind", "lock") /\ Unchanged
       [] OTHER -> Return(p)

\* F_OFD_SETLK does not wait.
TakeLock(p) ==
  LET writing == call[p].operation = "publish"
      free == writer = NoProcess /\ (writing => readers = {})
  IN \/ /\ free
        /\ Step(p, "lock", CASE writing -> "mkdir_source"
                             [] call[p].operation = "load" -> "look"
                             [] OTHER -> "sync_source")
        /\ writer' = IF writing THEN p ELSE writer
        /\ readers' = IF writing THEN readers ELSE readers \cup {p}
        /\ UNCHANGED <<world, kind, storage, journal, history>>
     \/ ~free /\ pc[p] = "lock" /\ Return(p)

MakeSource(p) == MakeDirectory(p, "mkdir_source", "source", "look")

-----------------------------------------------------------------------------
\* publish_record, publish_regular_payload, publish_identity_index

\* Mutant: an existing record is answered without its index.
LookAtRecordOnly(p) ==
  /\ pc[p] = "look"
  /\ CASE files["record"] \in {Absent, Empty} ->
            IF call[p].operation = "load" THEN Return(p)
            ELSE /\ Step(p, "look", IF kind = "regular" THEN "copy" ELSE "link_record")
                 /\ Unchanged
       [] Decodes("record") /\ PayloadVerifies("payload") ->
            /\ Close(p)
            /\ returned' = returned \cup {p} /\ named' = TRUE
            /\ UNCHANGED <<world, kind, storage, status, history>>
       [] OTHER -> Return(p)

\* The record under the lock: it is there, with its payload, or yet to be
\* published. A restart loads only what the engine knows to be published.
LookAtRecord(p) ==
  /\ pc[p] = "look"
  /\ CASE files["record"] \in {Absent, Empty} ->
            IF call[p].operation = "load" THEN Return(p)
            ELSE /\ Step(p, "look", IF kind = "regular" THEN "copy" ELSE "link_record")
                 /\ Unchanged
       [] Decodes("record") /\ PayloadVerifies("payload") ->
            IF call[p].operation = "publish"
              THEN Step(p, "look", "mkdir_index") /\ Unchanged
              ELSE /\ Close(p)
                   /\ returned' = IF named THEN returned \cup {p} ELSE returned
                   /\ UNCHANGED <<world, kind, storage, journal, history>>
       [] OTHER -> Return(p)

\* What is read of the sealed payload or of the captured object: what was
\* admitted, or not any more.
SourceBytes == {Whole, Other}

Copied(p, bytes, flushed) ==
  /\ call' = [call EXCEPT ![p].bytes = bytes, ![p].flushed = flushed]
  /\ Goto(p, "link_payload")
  /\ UNCHANGED returned
  /\ Unchanged

\* Mutant: the digest of what was copied is not compared.
CopyPayloadUnchecked(p) ==
  /\ pc[p] = "copy"
  /\ \E bytes \in SourceBytes : Copied(p, bytes, TRUE)

\* Mutant: the copy is not flushed before it is linked.
CopyPayloadLoose(p) ==
  /\ pc[p] = "copy"
  /\ Copied(p, Whole, FALSE) \/ Return(p)

\* hash_and_copy compares the digest; the copy is flushed.
CopyPayload(p) ==
  /\ pc[p] = "copy"
  /\ \E bytes \in SourceBytes :
       IF bytes = Whole THEN Copied(p, bytes, TRUE) ELSE Return(p)

LinkPayload(p) ==
  /\ pc[p] = "link_payload"
  /\ CASE files["payload"] = Absent ->
            Step(p, "link_payload", "link_record")
              /\ Make("payload", call[p].bytes, call[p].flushed)
       [] files["payload"] = Whole -> Step(p, "link_payload", "link_record") /\ Unchanged
       [] OTHER -> Return(p)

LinkRecord(p) ==
  /\ pc[p] = "link_record"
  /\ IF files["record"] = Absent
       THEN Step(p, "link_record", "mkdir_index") /\ Make("record", Whole, TRUE)
       ELSE Return(p)

\* Mutant: the record is indexed without its payload.
MakeIndexRecordOnly(p) == MakeDirectory(p, "mkdir_index", "index", "link_index_record")

MakeIndex(p) ==
  MakeDirectory(p, "mkdir_index", "index",
                IF kind = "regular" THEN "link_index_payload" ELSE "link_index_record")

\* Mutant: the second name is of a copy.
LinkAgainCopies(n) ==
  /\ files' = [files EXCEPT ![Indexed(n)] = files[n]]
  /\ apart' = apart \cup {n}
  /\ UNCHANGED <<disk, loose>>

\* linkat of a file to its second name.
LinkAgain(n) ==
  /\ files' = [files EXCEPT ![Indexed(n)] = files[n]]
  /\ apart' = apart \ {n}
  /\ UNCHANGED <<disk, loose>>

\* publish_identity_link of the payload.
LinkIndexPayload(p) ==
  /\ pc[p] = "link_index_payload"
  /\ CASE files["index_payload"] = Absent ->
            /\ Step(p, "link_index_payload", "link_index_record")
            /\ LinkAgain("payload")
            /\ UNCHANGED <<world, kind, locks, journal, history>>
       [] files["index_payload"] # Absent /\ "payload" \in apart -> Return(p)
       [] OTHER -> Step(p, "link_index_payload", "link_index_record") /\ Unchanged

\* publish_identity_link of the record, last; the engine keeps the result.
LinkIndexRecord(p) ==
  /\ pc[p] = "link_index_record"
  /\ IF "record" \in apart THEN Return(p)
     ELSE /\ Close(p)
          /\ returned' = returned \cup {p}
          /\ named' = TRUE
          /\ IF files["index_record"] = Absent THEN LinkAgain("record")
             ELSE UNCHANGED storage
          /\ UNCHANGED <<world, kind, status, history>>

-----------------------------------------------------------------------------
\* load_identified takes no lock: it reads the record of the index, then the
\* payload.

Identify(p) ==
  /\ pc[p] = "identify"
  /\ IF files["index_record"] \in {Absent, Empty} THEN Return(p)
     ELSE Step(p, "identify", "verify") /\ Unchanged

\* The object, or it throws: the properties say which.
Verify(p) == pc[p] = "verify" /\ Return(p)

-----------------------------------------------------------------------------
\* synchronize: fsync of the source's, the index's, the attempt's and the
\* store's directory.

SyncDirectory(p, from, d, to) ==
  /\ Step(p, from, to)
  /\ disk' = disk \cup {n \in Present : Parent(n) = d}
  /\ UNCHANGED <<world, kind, files, loose, apart, locks, journal, history>>

SyncSource(p) == SyncDirectory(p, "sync_source", "source", "sync_index")

\* Mutant: the index is not flushed.
SyncIndexSkipped(p) == Step(p, "sync_index", "sync_attempt") /\ Unchanged

SyncIndex(p) == SyncDirectory(p, "sync_index", "index", "sync_attempt")
SyncAttempt(p) == SyncDirectory(p, "sync_attempt", "attempt", "sync_store")

SyncStore(p) ==
  /\ pc[p] = "sync_store"
  /\ Close(p)
  /\ disk' = disk \cup {n \in Present : Parent(n) = "store"}
  /\ status' = "confirmed"
  /\ confirmed' = Present
  /\ UNCHANGED <<world, kind, files, loose, apart, returned, named, undone>>

\* Mutant: the failure is not told.
SyncFailsSilently(p) ==
  /\ "stop" \in world
  /\ pc[p] \in {"sync_source", "sync_index", "sync_attempt", "sync_store"}
  /\ Close(p)
  /\ status' = "confirmed"
  /\ UNCHANGED <<world, kind, storage, returned, named, history>>

\* fsync fails, and the engine is told so.
SyncFails(p) ==
  /\ "stop" \in world
  /\ pc[p] \in {"sync_source", "sync_index", "sync_attempt", "sync_store"}
  /\ Close(p)
  /\ status' = "unconfirmed"
  /\ UNCHANGED <<world, kind, storage, returned, named, history>>

-----------------------------------------------------------------------------
\* A call fails and the operation throws, or the process dies.
Stop(p) ==
  /\ "stop" \in world /\ pc[p] # "idle"
  /\ Close(p)
  /\ returned' \in {returned, returned \ {p}}
  /\ UNCHANGED <<world, kind, storage, journal, history>>

\* Power is lost: names that are not flushed may be kept or lost, and with a
\* directory all that is in it.
PowerLoss ==
  /\ "power" \in world /\ Present # {}
  /\ \E kept \in SUBSET Present :
       /\ disk \subseteq kept
       /\ disk' = {n \in kept : Above(n) \subseteq kept}
  /\ files' = [n \in Name |-> IF n \notin disk' THEN Absent
                              ELSE IF n \in loose THEN Empty ELSE files[n]]
  /\ loose' = {}
  /\ apart' = {n \in apart : {n, Indexed(n)} \subseteq disk'}
  /\ writer' = NoProcess /\ readers' = {}
  /\ pc' = [p \in Process |-> "idle"]
  /\ call' = [p \in Process |-> NoCall]
  /\ returned' = {}
  /\ undone' = (undone \/ (status # "confirmed" /\ disk' # Present))
  /\ UNCHANGED <<world, kind, journal, confirmed>>

RunRejected(p) ==
  \/ Start(p) \/ MakeAttempt(p) \/ OpenAttempt(p) \/ PublishBinding(p) \/ TakeLock(p)
  \/ MakeSource(p) \/ LookAtRecord(p) \/ CopyPayload(p) \/ LinkPayload(p)
  \/ LinkRecord(p) \/ MakeIndex(p) \/ LinkIndexPayload(p) \/ LinkIndexRecord(p)
  \/ Identify(p) \/ Verify(p)
  \/ SyncSource(p) \/ SyncIndex(p) \/ SyncAttempt(p) \/ SyncStore(p) \/ SyncFails(p)
=============================================================================
