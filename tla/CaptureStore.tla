---------------------------- MODULE CaptureStore ----------------------------
(***************************************************************************)
(* The captures of one attempt (capture_store.cpp): before an application  *)
(* changes a path, the object that was admitted there is copied into the   *)
(* attempt's private directory, where restarts find it again. Processes    *)
(* run capture, load and synchronize by their system calls while others    *)
(* change the target (TargetObserver).                                     *)
(*                                                                         *)
(* The directory holds the binding to the attempt, a payload for a regular *)
(* file and the record. Each is written to a temporary file of its own and *)
(* linked to its name; temporary files have unique names and nobody reads  *)
(* another's, so that the ones a death leaves are left out. The record     *)
(* stands for its encoding; the attempt, the path and the observation in   *)
(* it are the only ones there are.                                         *)
(***************************************************************************)
EXTENDS TargetObserver, FiniteSets

CONSTANTS
  Process,
  Purpose,      \* what a capture is for (rejected object, recovery)
  NoProcess,
  Absent,       \* no such file
  Empty,        \* a file whose bytes were lost
  Bound,        \* the binding to the attempt
  Worlds        \* the combinations of what may happen in a behaviour:
                \* "stop" a call fails or a process dies, "power" is lost,
                \* "overlap" two processes are at the attempt at once

WorldKind == {"stop", "power", "overlap"}

ASSUME CaptureStoreAssumption ==
  /\ Cardinality({Absent, Empty, Bound, Torn}) = 4
  /\ {Absent, Empty, Bound} \cap (Content \cup {NoContent}) = {}
  /\ NoProcess \notin Process
  /\ Worlds \subseteq SUBSET WorldKind

Name == {"binding", "payload", "record"}
Record == [purpose : Purpose, exact : BOOLEAN]

ASSUME CaptureStoreValues == {Absent, Empty} \cap Record = {}

Files == {f \in [Name -> Content \cup {Absent, Empty, Bound} \cup Record] :
            /\ f["binding"] \in {Absent, Empty, Bound}
            /\ f["payload"] \in Content \cup {Absent, Empty}
            /\ f["record"] \in {Absent, Empty} \cup Record}
NoFiles == [n \in Name |-> Absent]

VARIABLES
  world,
  dir,        \* the attempt's directory exists
  dirDisk,    \* and its name is flushed
  files,      \* its files as processes see them
  disk,       \* its names as a power loss finds them
  loose,      \* the files whose bytes are not flushed
  writer,     \* who has the attempt's lock to write
  readers,    \* and who to read
  pc,
  call,       \* what each process runs, and what it has seen of the target
  returned,   \* the processes whose capture or load returned a result (captures_)
  answers,    \* history: whether exact recovery is possible, as reported
  confirmed,  \* history: the record when synchronize last returned
  lost        \* history: power was lost

storage == <<dir, dirDisk, files, disk, loose>>
locks == <<writer, readers>>
history == <<answers, confirmed, lost>>
working == <<pc, call, returned>>
vars == <<observing, world, storage, locks, working, history>>

Operation == {"none", "capture", "load", "synchronize"}
Copying == {"stat", "open", "copy", "copy_rest", "read_link", "restat", "sync_payload"}
Point == {"idle", "mkdir", "open_dir", "bind", "lock", "look", "link_payload",
          "link_record", "sync_attempt", "sync_store"} \cup Copying

Calling(operation, purpose) ==
  [operation |-> operation, purpose |-> purpose, before |-> NoObject,
   copied |-> NoContent, exact |-> TRUE, shared |-> FALSE, flushed |-> FALSE]

NoCall == Calling("none", Absent)

CaptureInit ==
  /\ ObserverInit
  /\ world \in Worlds
  /\ dir = FALSE /\ dirDisk = FALSE
  /\ files = NoFiles /\ disk = NoFiles /\ loose = {}
  /\ writer = NoProcess /\ readers = {}
  /\ pc = [p \in Process |-> "idle"]
  /\ call = [p \in Process |-> NoCall]
  /\ returned = {}
  /\ answers = {} /\ confirmed = Absent /\ lost = FALSE

-----------------------------------------------------------------------------
Goto(p, point) == pc' = [pc EXCEPT ![p] = point]

Step(p, from, to) ==
  /\ pc[p] = from
  /\ Goto(p, to)
  /\ UNCHANGED <<call, returned>>

Unchanged == UNCHANGED <<observing, world, storage, locks, history>>

\* The call ends: descriptors and the lock are closed, the temporary file is
\* unlinked.
Close(p) ==
  /\ Goto(p, "idle")
  /\ call' = [call EXCEPT ![p] = NoCall]
  /\ writer' = IF writer = p THEN NoProcess ELSE writer
  /\ readers' = readers \ {p}

Throw(p) ==
  /\ Close(p)
  /\ UNCHANGED <<observing, world, storage, returned, history>>

\* A result without a capture: nothing captured, or no record to load.
Return(p) ==
  /\ Close(p)
  /\ returned' = IF call[p].operation = "capture" THEN returned \cup {p} ELSE returned
  /\ UNCHANGED <<observing, world, history>>

Report(p, record) ==
  /\ Close(p)
  /\ returned' = returned \cup {p}
  /\ answers' = answers \cup {record.exact}
  /\ UNCHANGED <<observing, world, confirmed, lost>>

\* linkat of a temporary file.
Link(n, content, flushed) ==
  /\ files' = [files EXCEPT ![n] = content]
  /\ loose' = IF flushed THEN loose \ {n} ELSE loose \cup {n}
  /\ UNCHANGED <<dir, dirDisk, disk>>

\* open_verified_payload_object
PayloadVerifies ==
  observation.kind = "regular" => files["payload"] = observation.content

-----------------------------------------------------------------------------
\* open_attempt_directory and lock_attempt, of every operation.

Alone(p) == "overlap" \in world \/ \A q \in Process \ {p} : pc[q] = "idle"

Start(p) ==
  /\ pc[p] = "idle" /\ Alone(p)
  /\ observation \in Facts
  /\ \/ \E operation \in {"capture", "load"}, purpose \in Purpose :
          /\ call' = [call EXCEPT ![p] = Calling(operation, purpose)]
          /\ Goto(p, IF operation = "capture" THEN "mkdir" ELSE "open_dir")
     \/ /\ p \in returned
        /\ call' = [call EXCEPT ![p] = Calling("synchronize", Absent)]
        /\ Goto(p, "open_dir")
  /\ UNCHANGED returned
  /\ Unchanged

MakeDirectory(p) ==
  /\ Step(p, "mkdir", "open_dir")
  /\ dir' = TRUE
  /\ UNCHANGED <<observing, world, dirDisk, files, disk, loose, locks, history>>

\* An empty binding is taken for none. Without a directory or a binding,
\* there is nothing to load, and synchronize throws.
OpenDirectory(p) ==
  LET unbound == ~dir \/ files["binding"] \in {Absent, Empty}
      capturing == call[p].operation = "capture"
  IN /\ pc[p] = "open_dir"
     /\ IF unbound /\ ~capturing
          THEN Throw(p)
          ELSE Step(p, "open_dir", IF unbound THEN "bind" ELSE "lock") /\ Unchanged

\* publish_immutable_bytes: what is there already must be the same.
PublishBinding(p) ==
  \/ /\ files["binding"] = Absent
     /\ Step(p, "bind", "lock")
     /\ Link("binding", Bound, TRUE)
     /\ UNCHANGED <<observing, world, locks, history>>
  \/ /\ files["binding"] # Absent /\ pc[p] = "bind"
     /\ IF files["binding"] = Bound THEN Step(p, "bind", "lock") /\ Unchanged
        ELSE Throw(p)

\* F_OFD_SETLK does not wait.
TakeLock(p) ==
  LET writing == call[p].operation = "capture"
      free == writer = NoProcess /\ (writing => readers = {})
  IN \/ /\ free
        /\ Step(p, "lock", IF call[p].operation = "synchronize"
                             THEN "sync_attempt" ELSE "look")
        /\ writer' = IF writing THEN p ELSE writer
        /\ readers' = IF writing THEN readers ELSE readers \cup {p}
        /\ UNCHANGED <<observing, world, storage, history>>
     \/ ~free /\ pc[p] = "lock" /\ Throw(p)

\* Mutant: the flag is not taken from the record.
LookAtRecordForgets(p) ==
  LET record == files["record"]
  IN /\ pc[p] = "look"
     /\ \/ /\ record \in {Absent, Empty} /\ call[p].operation = "load"
           /\ Return(p) /\ UNCHANGED storage
        \/ /\ record \in {Absent, Empty} /\ call[p].operation = "capture"
           /\ Step(p, "look", "stat")
           /\ Unchanged
        \/ /\ record \in Record
           /\ IF record.purpose = call[p].purpose /\ PayloadVerifies
                THEN Report(p, [record EXCEPT !.exact = TRUE]) /\ UNCHANGED storage
                ELSE Throw(p)

\* The record under the lock: the capture is made, or is yet to be made.
LookAtRecord(p) ==
  LET record == files["record"]
  IN /\ pc[p] = "look"
     /\ \/ /\ record \in {Absent, Empty} /\ call[p].operation = "load"
           /\ Return(p) /\ UNCHANGED storage
        \/ /\ record \in {Absent, Empty} /\ call[p].operation = "capture"
           /\ Step(p, "look", "stat")
           /\ Unchanged
        \/ /\ record \in Record
           /\ IF record.purpose = call[p].purpose /\ PayloadVerifies
                THEN Report(p, record) /\ UNCHANGED storage
                ELSE Throw(p)

-----------------------------------------------------------------------------
\* capture_source

Saw(p, point, seenCall) ==
  /\ call' = [call EXCEPT ![p] = seenCall]
  /\ Goto(p, point)
  /\ UNCHANGED returned
  /\ Unchanged

\* failed or indeterminate: the observation is reported as unknown.
NotCaptured(p) == Return(p) /\ UNCHANGED storage

MetadataMatches ==
  /\ object # NoObject
  /\ object.kind = observation.kind
  /\ object.meta = observation.meta

StatSource(p) ==
  /\ pc[p] = "stat"
  /\ IF MetadataMatches /\ object.kind # "socket"
       THEN Saw(p, CASE object.kind = "regular" -> "open"
                     [] object.kind = "symlink" -> "read_link"
                     [] OTHER -> "restat",
                [call[p] EXCEPT !.before = Stat(object)])
       ELSE NotCaptured(p)

OpenSource(p) ==
  /\ pc[p] = "open"
  /\ IF Same(call[p].before) THEN Saw(p, "copy", call[p])
     ELSE IF object # NoObject /\ object.kind = "symlink" THEN Throw(p)
     ELSE NotCaptured(p)

CopySource(p) ==
  /\ pc[p] = "copy"
  /\ Saw(p, "copy_rest", [call[p] EXCEPT !.copied = ReadSome(call[p].before)])

CopyRest(p) ==
  /\ pc[p] = "copy_rest"
  /\ Saw(p, "restat",
         [call[p] EXCEPT !.copied = ReadRest(call[p].before, call[p].copied)])

ReadLink(p) ==
  /\ pc[p] = "read_link"
  /\ IF object = NoObject THEN NotCaptured(p)
     ELSE IF object.kind = "symlink"
       THEN Saw(p, "restat", [call[p] EXCEPT !.copied = object.content])
       ELSE Throw(p)

Accept(p, before) ==
  IF before.kind = "regular"
    THEN Saw(p, "sync_payload", [call[p] EXCEPT !.shared = object.shared])
    ELSE Saw(p, "link_record",
             [call[p] EXCEPT !.before = NoObject, !.copied = NoContent])

\* Mutant: what was copied is not compared with the observation.
RestatUnchecked(p) ==
  LET before == call[p].before
  IN /\ pc[p] = "restat"
     /\ IF Same(before) THEN Accept(p, before) ELSE NotCaptured(p)

\* The numbers of a device are those of the second stat.
Restat(p) ==
  LET before == call[p].before
      copied == IF before.kind \in {"regular", "symlink"} THEN call[p].copied
                ELSE object.content
  IN /\ pc[p] = "restat"
     /\ IF Same(before) /\ copied = observation.content
          THEN Accept(p, before)
          ELSE NotCaptured(p)

Synced(p, flushed, exact) ==
  /\ pc[p] = "sync_payload"
  /\ IF observation.hardlink /\ ~call[p].shared
       THEN NotCaptured(p)
       ELSE Saw(p, "link_payload",
                [call[p] EXCEPT !.flushed = flushed, !.exact = exact,
                                !.before = NoObject, !.shared = FALSE])

\* verify_hardlink, of a file with several links.
LinkProven(p) ==
  call[p].shared => observation.hardlink /\ anchor = call[p].before.id

\* Mutant: the copy is not flushed before it is linked.
SyncPayloadSkipped(p) == Synced(p, FALSE, LinkProven(p))

\* Mutant: further links are not looked for.
SyncPayloadExact(p) == Synced(p, TRUE, TRUE)

\* The copy is flushed; a file with several links can be recovered exactly
\* only as the link to its anchor that the observation says it is.
SyncPayload(p) == Synced(p, TRUE, LinkProven(p))

-----------------------------------------------------------------------------
\* publish_payload, the record, synchronize

PublishPayload(p) ==
  \/ /\ files["payload"] = Absent
     /\ Step(p, "link_payload", "link_record")
     /\ Link("payload", call[p].copied, call[p].flushed)
     /\ UNCHANGED <<observing, world, locks, history>>
  \/ /\ files["payload"] # Absent
     /\ IF PayloadVerifies
          THEN Step(p, "link_payload", "link_record") /\ Unchanged
          ELSE pc[p] = "link_payload" /\ Throw(p)

\* The lock keeps others from linking a record since LookAtRecord; an empty
\* record is not the same.
PublishRecord(p) ==
  LET record == [purpose |-> call[p].purpose, exact |-> call[p].exact]
  IN /\ pc[p] = "link_record"
     /\ IF files["record"] \in {Absent, record}
          THEN /\ Link("record", record, TRUE)
               /\ Report(p, record)
          ELSE Throw(p)

\* Mutant: only the directory above is flushed.
SyncAttemptSkipped(p) ==
  /\ Step(p, "sync_attempt", "sync_store")
  /\ Unchanged

SyncAttempt(p) ==
  /\ Step(p, "sync_attempt", "sync_store")
  /\ disk' = files
  /\ UNCHANGED <<observing, world, dir, dirDisk, files, loose, locks, history>>

SyncStore(p) ==
  /\ pc[p] = "sync_store"
  /\ dirDisk' = TRUE
  /\ confirmed' = files["record"]
  /\ Close(p)
  /\ UNCHANGED <<observing, world, dir, files, disk, loose, returned, answers, lost>>

-----------------------------------------------------------------------------
\* A call fails and the operation throws, or the process dies. A process that
\* restarts reopens the captures it had; one that goes on keeps them.
Stop(p) ==
  /\ "stop" \in world /\ pc[p] # "idle"
  /\ Close(p)
  /\ returned' \in {returned, returned \ {p}}
  /\ UNCHANGED <<observing, world, storage, history>>

\* Power is lost: names that are not flushed may be kept or lost.
PowerLoss ==
  /\ "power" \in world /\ dir
  /\ dir' \in {TRUE, dirDisk}
  /\ dirDisk' = dir'
  /\ \E kept \in SUBSET Name :
       files' = [n \in Name |->
                   IF ~dir' THEN Absent
                   ELSE IF n \notin kept THEN disk[n]
                   ELSE IF n \in loose THEN Empty ELSE files[n]]
  /\ disk' = files' /\ loose' = {}
  /\ writer' = NoProcess /\ readers' = {}
  /\ pc' = [p \in Process |-> "idle"]
  /\ call' = [p \in Process |-> NoCall]
  /\ returned' = {}
  /\ lost' = TRUE
  /\ answers' = IF confirmed = Absent THEN {} ELSE answers
  /\ UNCHANGED <<observing, world, confirmed>>

Run(p) ==
  \/ Start(p) \/ MakeDirectory(p) \/ OpenDirectory(p) \/ PublishBinding(p)
  \/ TakeLock(p) \/ LookAtRecord(p)
  \/ StatSource(p) \/ OpenSource(p) \/ CopySource(p) \/ CopyRest(p) \/ ReadLink(p)
  \/ Restat(p) \/ SyncPayload(p)
  \/ PublishPayload(p) \/ PublishRecord(p) \/ SyncAttempt(p) \/ SyncStore(p)
  \/ Stop(p)

Others == Observe \/ Change

CaptureNext ==
  \/ Others /\ UNCHANGED <<world, storage, locks, working, history>>
  \/ \E p \in Process : Run(p)
  \/ PowerLoss

CaptureSpec == CaptureInit /\ [][CaptureNext]_vars

-----------------------------------------------------------------------------
Recorded == files["record"] \in Record

\* No load and no capture throws on the record that it finds.
HasPayload == Recorded => PayloadVerifies

\* A record never comes to be without its payload with the admitted bytes, and
\* never loses it, whatever changed the target while it was copied, wherever a
\* process died or a call failed and however two captures interleave (payload
\* before record, stat before and after, digest); only a power loss before any
\* synchronize returned takes the payload and keeps the record. While a process
\* retains the result of a capture or a load, the record has its payload, after
\* such a loss also.
RecordHasPayload ==
  /\ [](returned # {} => HasPayload)
  /\ [][HasPayload => HasPayload' \/ (PowerLoss /\ confirmed = Absent)]_vars

\* What a death or a power loss leaves under a final name is whole, so that a
\* later capture of the attempt can take it over: its bytes were flushed
\* before it was linked, and nothing but the admitted bytes is linked.
NoDebris ==
  /\ files["binding"] # Empty /\ files["record"] # Empty
  /\ files["payload"] # Absent => files["payload"] = observation.content

\* All captures and loads of an attempt, in whatever process and after
\* whatever failure, report the same possibility of exact recovery, although
\* the links of the target that it was derived from come and go; a power loss
\* may undo an answer only if it was not synchronized.
OneAnswer == answers # {TRUE, FALSE}

\* What a synchronize that returned found recorded, every later process finds,
\* whatever deaths and power losses come between, with its payload.
SynchronizedSurvives ==
  confirmed # Absent => dir /\ files["record"] = confirmed /\ PayloadVerifies

\* A record that claims exact recovery of a file that is not known to be a
\* link is of a file that had, at one moment, these bytes, this metadata and
\* no other link: recovery will not separate names that shared an object.
ExactIsSingle ==
  Recorded /\ files["record"].exact /\ observation.kind = "regular"
    /\ ~observation.hardlink
    => \E s \in seen : Agrees(s, observation) /\ ~s.shared
=============================================================================
