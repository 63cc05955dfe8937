# Models and proofs of libpkgapply-posix

libpkgapply-posix supplies the POSIX mechanisms for libpkgapply: it keeps the
journal, holds the mutation lease, stages payloads, captures old objects,
changes the target tree, keeps rejected objects and publishes completed
evidence. The semantic engine (which command comes next, what a restart does)
is the library libpkgapply, outside this repository. These modules model the
mechanisms; of the engine they model only the order of its commands and what it
keeps durably, as the tests of this repository drive it.

## Inventory

| Part | State | Operations | Hard behaviour | What makes it correct |
|---|---|---|---|---|
| Journal store (`src/journal_store.cpp`) | directories and files under exact names: declaration, steps, cursor per declaration; one locator per request; the record lock on `cursor.lock` | publish_declaration, publish_step, compare_and_publish_cursor, loads | several processes, crashes and power loss between system calls, retries | immutable names stay; compare and publish is one step; the locator resolves; what is acknowledged survives |
| Active namespace and workspace (`src/active_namespace.cpp`, `src/active_workspace.cpp`) | target tree with a prepared and a displaced name beside each leaf; attempted and completed effects; dirty filesystems | publish_incoming, remove, recover, discard_recovery, synchronize, retain_completed_effect | a crash or failing call between two renames, mtimes of directories that entries move, nested displaced objects, restart | old objects are kept until the attempt ends; completed recoveries and completed attempts are exact; confirmed means flushed |
| Mutation lease (`src/mutation_lease.cpp`) | lock file and flock | acquire, held, release | the lock file is replaced between open and flock, or later | two leases never both hold |
| Payload stage (`src/payload_stage.cpp`) | stage directory per attempt | begin, write, seal, abandon, load, synchronize | crash between mkdir and binding; retry | a sealed stage is complete and bound to its attempt |
| Capture store (`src/capture_store.cpp`) | capture directory per attempt and path | capture, load, synchronize | source changes while it is copied; crash and retry | a loaded capture is the admitted object |
| Rejected store (`src/rejected_store.cpp`) | payload, record and identity link per rejected path | publish, load, load_identified, synchronize | crash between payload, record and link | an identified record is complete |
| Completed evidence store (`src/completed_evidence_store.cpp`) | one immutable file per evidence identity | publish, load, synchronize | racing publishers | evidence never changes |
| Backend (`src/backend.cpp`) | results of the stages, restart view, durability facts | begin, observe, stage, capture, reject, execute, recover, synchronize, evidence, resume | order of stages, repeated commands, restart | a repeated command returns the retained result; no stage runs on authority it lacks |
| Target observer (`src/target_observer.cpp`) | none | observe | others change a path while it is read | an observation was true at one moment |

The backend calls every other part. Parts share no memory; they meet in the
file system: the capture store reads what the active namespace later displaces,
the active namespace copies out of the payload and capture stores, and the
lease, checked before every command, keeps other applications off the target.
`hazards` in `PROJECT.json` lists what is hard to test, line by line.

## Plan

1. `JournalStore` with `JournalSpec`, the promise it implements - done.
2. `ActiveNamespace` with `ActiveAttempt`, its engine - done, without hard links.
3. `MutationLease`: the lock file as an inode under a name - done.
4. `PayloadStage`: the stage of one attempt, call by call - done.
5. `TargetObserver` and `CaptureStore`, which uses its observations; `RejectedStore`,
   `EvidenceStore` on top of it, and `IdentitySpec`, what they promise - done.
6. `Backend`: the commands of a transaction over abstract stores and
   `ActiveAttempt`, load_restart, durability facts; `AttemptSpec`, what an attempt
   promises of the target - done.

Proved: every invariant and action property that a passing run checks, some under the
hypotheses named in "Proofs"; in the journal also the refinement of `JournalSpec` while the
machine stays up, in the evidence the refinement of `IdentitySpec`, and of a whole attempt
the refinement of `AttemptSpec`.

Left: hard links of the target; several paths in one capture or rejected store.

## Modules

### Journal

`JournalTypes` names the files and the calls. `JournalStore` runs each operation
one system call at a time per caller: `pc` is the next call, `cache` what every
process sees under a name, `disk` what a power loss would leave. fsync of a
directory copies its names from `cache` to `disk`; `WriteBack` lets the kernel do
so at any time; `PowerLoss` keeps what is on disk and reachable. Temporary files
have unique names nobody reads, so writing one is part of the `Link` or `Rename`
that publishes it. `lock` is the record lock of a process on `cursor.lock`: it
does not exclude the process's own callers, and closing the file drops it.
`JournalSpec` is the promise: names take a value once, the locator follows a
retained declaration, a cursor swaps in one step, each result is true when it is
returned. `JournalStore` implements it with `retained` as the visible contents
(`ImplementsSpine`).

Not modelled: encodings (a value equals itself), `publication_visible`, loads
that are a single read.

### Active namespace

`ActiveNamespace` has one action per system call that changes the tree. `fs`
gives each path its leaf, prepared and displaced object; an object is its kind,
whether it is the old, the new or (a directory between two metadata calls) a
mixed one, and whether the mtime of a directory has moved. `effects` and `dirty`
are `effects_` and `dirty_filesystems_`. `ActiveAttempt` issues the commands as
`backend.cpp` passes them on, keeps intents and results durably, and restarts: a
restarted process forgets `effects` and `dirty`, and hands every completed
result to retain_completed_effect (`Established`), which refuses one it cannot see.

Assumed of the engine, from the tests of this repository: each path is executed
once; publications come before removals, directories before their contents when
published and after them when removed; recovery goes back in reverse; what was
displaced is discarded, if at all, in reverse after success (only tests call
discard_recovery). A call that throws is a death: the engine gives up the
transaction and resumes the attempt in a new one. `Worlds` lists what may happen
in a behaviour, and Init picks one of its members as `faults`: "io" a failing call, "fd" a
descriptor that cannot be duplicated, "loss" another program deleting a displaced
object while the attempt recovers, "crash" a death; `Backend` adds "store" and "power".

Not modelled: hard links, mount points below the root, other programs writing
below the root, the contents of the capture and payload stores (a copy is
exact), and the second emptiness check of publish_prepared.

### Mutation lease

`MutationLease` tells the lock file (`named`, an inode) from the files that exist
(`linked`) and from the file each process has open (`file`), and keeps the kernel's
lock of each file (`holder`). acquire() is the actions `CreateFile`/`OpenFile`
(openat), `Inspect` (fstat), `Lock` (flock) and `Verify` (fstatat, nonce), every
failure of which closes the file; `Held` is held(). `StartCommand` is
ensure_live_lease at the head of a backend command, `FinishCommand` its return.
Between any two of these, `Others` may unlink or replace the lock file
("replace") or move it away and back ("move"); a file that is open keeps its
inode number, a file that nobody has open or linked does not. Symbolic links
under the name fail in openat and change nothing. Errors of fstat and flock other
than lock_busy are the same as a refusal. Leases of different domains have
different names and do not meet.

### Payload stage

`PayloadStage` has the stage directory of one attempt: `dir` and `files` are what
processes see, `dirDisk`, `disk` and `bound` what is flushed of the directory's name,
of its files and of the bytes of the binding record. A selection of entries
stands for the binding record and for the sealed marker, which has the same bytes.
begin is `Start` to `LookSealed`, in the order of its system calls; a begin that
throws goes through `Refuse`, which gives up the lock before it removes anything,
as the unwinding does. A stage object replays entries (`BeginEntry` to
`EndEntry`, or `VerifyEntry` on a sealed stage), seals (`Seal` to `SyncSeal`) and is
dropped (`Drop`, then the unlinks of abandon). `inside` and `locking` are the
processes whose descriptors are of the present directory and the present lock
file, which abandon removes; a removed directory shows no files and takes none.
load() changes nothing and is the operator `Loadable`.

`Worlds` lists what may happen in a behaviour; Init picks one. In the run it is either
one process at a time (as under the mutation lease) with failing calls, deaths
and power losses, or two at once with deaths. Two at once with failing calls is
left out: there begin's removal without the lock takes another process' stage
apart (hazard at payload_stage.cpp:1207). A power loss keeps any part of what is
not flushed; a directory that was removed without a flush may come back, unless
another was made in its place. Bytes of a payload are right or not written;
replays that differ from the image end in `Drop`.

### Observation and capture

`TargetObserver` is observe_one on one path: `object` is what is at the path,
`anchor` the object at the path it may be a hard link to, `watch` the observer's
place and what it has read. Others rewrite, touch, link, unlink, remove and
replace the object (`Change`) between any two of its calls. A file is read in two
steps. `Stat` is what same_object compares; it holds a change time that moves with
every change, so two changes within one tick of the file system's clock are left
out.

`CaptureStore` extends it with the attempt's capture directory: `files` is what
processes see, `disk` and `dirDisk` which names are flushed, `loose` which files'
bytes are not. open_attempt_directory is `MakeDirectory` to `PublishBinding`,
before the lock is taken; `TakeLock` does not wait. Under the lock `LookAtRecord`
returns what is recorded; otherwise capture_source is `StatSource` to
`SyncPayload`, and `PublishPayload` and `PublishRecord` link the two files. load and
synchronize share the first part; synchronize is called by a process that has
a result (`captures_`), as the backend does. `Stop` is both a call that throws and a
death: they differ only in the temporary file they leave, which nobody reads. The
record stands for its encoding. One path: several share only directory,
binding and lock.

### Rejected objects and evidence

`RejectedStore` is the rejected object of one path: `files` holds the attempt's
directory, binding, payload and record, and the two names of the index of all
attempts (`by-id-v1`), a second link to payload and record; `apart` are the files
whose two names have come to be of different inodes, which publish_identity_link
refuses. publish is `MakeAttempt` to `LinkIndexRecord`, load is its first part under
a shared lock, synchronize `SyncSource` to `SyncStore`, and load_identified
(`Identify`, `Verify`) reads the index without a lock. `returned` are the processes
that retain the effect (`rejected_effects_`); `named` and `status` are what the
engine's journal keeps of it. As in the capture store, `Stop` is a call that throws
or a death.

`EvidenceStore` adds the evidence that names the rejected object by its identity.
The evidence says how durable the rejected store was reported to be, and differs in that: `Fact`
is its identity. publish is `ReadEvidence` to `RereadEvidence`, synchronize one
fsync. `IdentitySpec` is the promise to whoever holds an identity: it begins to
lead to the whole object in one step, and once synchronized leads there for ever;
`EvidenceStore` implements it (`KeepsIdentity`).

### Backend

`Backend` is the transaction over `ActiveAttempt`. A store is what it promises:
an object is absent, visible or durable, and a repeated command finds it. `result`
and `facts` are the results and the durability facts the engine has recorded, `reply` a result it has
not; `sealed`, `held`, `active` and `bound` are the transaction's authority:
`sealed_payloads_`, `captured_objects_`, and whether `active_namespace_` is bound and
with which captures. `LoadRestart` is load_restart: every completed result is found
again in its store, completed effects on the target are validated, and the
authority is rebuilt, or the restart is refused. `LosePower` takes names from the
stores only: what it does to the target is `ConfirmedIsDurable`'s question.

`AttemptSpec` is the promise to whoever reads the results: an attempt that is open
works on the paths of its plan; it ends once, "applied", "partly" (all but
directories that were not empty), "restored" or "uncertain", and the first three are true of
the whole tree at that moment; afterwards only discards touch the tree. `Backend`
implements it (`KeepsPromise`) with `tree` as the leaves, `extra` as the paths that
are not clear and `verdict` as what the recorded results amount to.

The engine's order is assumed: payloads, captures, rejected objects, target,
evidence, each domain synchronized before the next. A synchronization that fails
("unconfirmed") also stands for an engine that does not ask for it. A repeated
command within one process only returns the retained result and is not issued.
Not modelled: observe, and the comparisons of identities at the head of begin,
resume and each request.

## Runs

| Run | Asks |
|---|---|
| `JournalRace` | two processes, every operation, one declaration, failing calls and crashes: types, immutable names, atomic cursor, refinement of `JournalSpec` |
| `JournalFails` | one publisher of two declarations, two processes that move their cursors, power loss: what was acknowledged survives, the locator resolves, and under fairness every call returns |
| `JournalDirectoryUnsynced` | finding: a surviving locator that names nothing |
| `JournalCursorUnsynced` | finding: an acknowledged cursor that does not survive |
| `AttemptCrash` | whole attempts through the backend, every plan over a directory and a path in it: old objects are kept, completed means exact, no stage lacks its authority, what is confirmed can be restarted; without faults only the planned tree is left; what is confirmed before any death is flushed, failed publications and recoveries included once an effect has retained the filesystem; refinement of `AttemptSpec` |
| `ActiveRestartRefused` | finding: a restart that can never succeed |
| `ActiveRestartUnsynced` | finding: a confirmation without a flush |
| `LeaseRace` | three processes, and others who unlink, replace and move the lock file: at most one lease holds, no lock is left behind, a command starts alone |
| `StageCrash` | two processes, two selections of one entry: one writer, what loads is exact, a reported seal survives, an abandoned stage leaves nothing |
| `CaptureCrash` | one path, two processes, others changing the path: an observation was true at one moment, what is recorded is what was admitted, a record loses its payload by a power loss before any synchronize only, and a synchronized record stays |
| `EvidenceCrash` | one rejected object and its evidence, two processes: payload, record, index and answer come in that order, only a power loss of what was not synchronized leaves a store that a publication refuses, what was synchronized stays; refinement of `IdentitySpec` |
| `RejectedKeyLost` | finding: durable evidence that names an identity which leads nowhere |

Bounds. Two callers are enough for every race of the journal: operations meet
only in one name, one lock or one locator, and each takes a name at most once.
Two values of a step and of a cursor tell agreeing callers from conflicting ones
and are interchangeable (`SYMMETRY`, in `JournalRace`). In `JournalFails` only
one caller publishes (`OnePublisher`): of two that race, one may acknowledge what the
other has not flushed yet, which the hazards at journal_store.cpp:345 and 409 say.
There a step and a cursor have one value each; what two values do to each
other is `JournalRace`'s question. A directory and one path in it give the
active namespace every combination of kinds (95 plans), nesting of displaced
objects and a directory whose mtime moves; deeper trees repeat the same step.
`AttemptCrash` takes these plans through five worlds (`AttemptWorlds`): no faults;
"io" and "loss"; these and "fd"; these and "crash"; "store", "crash" and "power". The two
without a death are there for `ConfirmedIsFlushed`, which a death makes void. Failing calls on the
target and failing stores meet only in the phase they lead to, "recover".
`RejectsDF` fixes which side of a path is rejected, so that both sides occur.
Two processes, at once or one after the other, are enough for a takeover in the
stage and the stores; the two cases are worlds of one run. Two
selections of one entry each give a foreign binding; more entries repeat
`BeginEntry` to `EndEntry`, each of which ends with its own flush. One change
of the target by others already comes between any two calls of the observer or of
a capture, before or after admission, and each mutant of the run is caught with
it; with `MaxChanges = 2` and one purpose the run also passes but takes longer
than is kept here. `turn` counts to the number of paths.

`CHECK_DEADLOCK FALSE` stands where the system stops: in the runs of an attempt
(`AttemptCrash`, `ActiveRestartRefused`, `ActiveRestartUnsynced`), which end when it
has concluded or its restart is refused; in `CaptureCrash`, when there is nothing
at the path to capture; and in `EvidenceCrash` and `RejectedKeyLost`, when what is left
of a power loss is refused by every operation. The journal's callers never stop.

Fairness (`FairSpec` in `JournalFails`): a caller inside a call keeps running (weak
fairness of its system calls), and one that waits for `cursor.lock` gets it if it
is free again and again (strong fairness: the kernel wakes every waiter on
release). Nothing makes a caller begin a call.

## Findings

- A directory that a dead process made and did not synchronize is used without
  synchronizing its parent (journal_store.cpp:415).
- A cursor that is already visible is acknowledged without synchronizing
  (journal_store.cpp:692). The same early return acknowledges an immutable
  value whose fsync failed, or the value another process is still publishing
  (journal_store.cpp:345, 365; with the fault "sync", or with a second caller,
  `AckedSurvive` is violated too).
- A crash after recover has put an old object back makes every restart refuse
  the attempt (backend.cpp:789, active_namespace.cpp:1667).
- What has to be flushed is remembered in memory only, so a restarted attempt
  confirms without a flush (active_namespace.cpp:2084). With "io" or "fd" two more
  ways to confirm too much appear; they are listed as hazards.
- A restart takes the record in the attempt's directory for the whole
  publication of a rejected object (backend.cpp:873, rejected_store.cpp:2119), so that
  a power loss which took the index (`by-id-v1`) and kept the record is not
  repaired; evidence is then published that calls the store durable and names an
  identity that load_identified does not find.

## Proofs

`JournalStoreProofs` proves, for every set of processes, callers, declarations,
steps, cursors and faults:

- `TypeCorrect`. The inductive invariant `Typed` adds to `TypeOK` which contents a
  name may have (a declaration file holds its declaration, a locator a
  declaration of that request) and which call belongs to which program counter.
- `ImmutableForever`. A name of a declaration or step only changes in `Link`, whose
  guard is that it is absent, and `disk` holds nothing under such a name that
  `cache` does not.
- `CursorCompareAndSwap`, under the named assumption that callers are in different
  processes (`DistinctProcesses`). The invariant says that whoever is between `compare` and
  `sync_rename` holds the lock of that declaration, so there is at most one, and
  that at `rename` the cursor is still the one that was compared.
- `CursorsAreDurable`, under `DistinctProcesses` and `NoneLeft`, that no caller dies
  and no fsync fails. `CursorsSettled`: a cursor that is visible and not on the disk is in
  the section of the call that renamed it.
- `AcknowledgedSurvive`, under `NoneLeft` and `SinglePublisher`, that one caller
  publishes declarations and steps, with any number of power losses. `LastingSettled`:
  a directory, declaration, step or locator that is visible and not on the disk was
  made by the call whose next step is to flush it. So whatever a publication finds already
  there is on the disk, and it may return without a flush of its own.
- `LocatorsSurvive`, under the same hypotheses: `LocatorResolves`, and the same of what a
  power loss would leave (`DurableLocatorResolves`). `LocatorsStored`: a declaration is on
  the disk from the moment its locator is renamed, and nothing removes it. It
  needs `DurableInv`, the invariant of `AcknowledgedSurvive`, for that moment: the one
  publisher is past its flush, so nothing of its declaration is left to flush.

Neither hypothesis of the last three can be dropped: the runs `JournalCursorUnsynced`
and `JournalDirectoryUnsynced` violate the properties with a death, the exact retry at
journal_store.cpp:345 with a failing fsync or with a second publisher.

Two more theorems assume `StaysUp`, that power is not lost, and nothing of faults or deaths:

- `LocatorAlwaysResolves`. `Backed` says what each call has found or made at each of
  its points (the directories, then the declaration, before it reaches the
  locator) and that a file lies in a directory that is there. As names then only
  come, it is inductive.
- `StoreImplementsSpec`, which also assumes `DistinctProcesses`: each system call is
  mapped to a step of `JournalSpec` or to none. What a result says is true when it
  is returned by `Backed`; a rename is the cursor's one step by the invariant of
  `CursorCompareAndSwap`.

`MutationLeaseProofs` proves, for any number of processes and files and under all
interference, `LeaseTypeCorrect` (of `TypeOK`, which no run repeats), `LocksHaveOwners`, `LeaseIsExclusive` and
`CommandsStartAlone`. held() looks only at names; that two leases cannot both see
their own file under the name follows from `EngagedOwns`, the part of the
inductive invariant that held() never tests: whoever is past flock still has the
lock of the file it opened. With it, two holders of the file under the name would
both be the one `holder` of that file.

`BackendProofs`, `ActiveProofs` and `RecoveryProofs` are about `Backend` for every finite tree of paths, every set of
plans and every choice of worlds.

- `AlwaysHasAuthority`, `AlwaysAcceptedIsStored`. `BackendInv`: a result or an answer on its way
  belongs to a command of the plan (`ResultsAsked`, `ReplyAwaited`); nothing begins on the target
  before the stores are done (`StoresFirst`); a living process holds exactly what
  it executed or what load_restart reopened (`SealedKnown`, `HeldKnown`), is bound to
  all captures of the plan or to none (`BoundKnown`), and what it got is stored (`GotStored`).
- `NeverAllThreeNames`, `OldObjectsStay`, `BackendTypesHold`. None of the properties is inductive:
  whether a rename may take a name depends on what the operation has seen
  several calls before. `ActiveInv` adds `Placed`, what the operation under way has
  found or made at each of its points; `Issued`, which operation the phase and the
  intents allow; `Ordered`, that directories come before what is in them and are
  recovered after it, so that an operation on a directory meets no operation
  on its contents; `Sound`, that what is displaced is the old object and what was
  published has its kind; and `Exclusive`, that stores and target take turns.
  `OldObjectsStay` then follows step by step: the calls that
  may take an object away unlink it or rename another over it (`Activate`, `Take`,
  `Clean`, `Unpublish`, `Withdraw`, `Vacate`, `Install`, and of a discard `Drop` and
  `DropBelow`), and in each of them the object taken is not the old one, or the old one is at
  another name, or the plan keeps no capture of it.
- `AppliedIsPlanned`. The results say what the tree should hold: `Want` is the planned
  object of a path that completed and the admitted one of any other. `TreeInv` says
  that the tree holds it (`Exact`; `Near`, but for the mtimes of directories, once
  discards have begun), apart from the one effect that is open (`OneOpen`: the
  latest, and the operation under way if the process lives) and the directories above
  it; that effects_ are the results (`Known`); that a completed path is still reached
  through directories, or gone with them (`Reached`); and what the operation under
  way has done so far (`Working`). The mtimes are the hard part: each
  operation ends by setting those of all directories above it, and what it sets
  is what their own effects, which come earlier or later in the order, want of them.
- `RestartsAreConfirmed`. By `TreeInv` retain_completed_effect recognizes every
  completed effect of an attempt that goes forward, so a refusal there comes from a
  store; by `FactsInv` a confirmed domain has all its results durably stored.
- `ConfirmationsAreFlushed`, where no process dies: only a death makes an engine forget
  what it retained and synchronize all the same (`ActiveRestartUnsynced`). Where no call
  fails either, every operation retains the filesystem of what it changed before it returns
  (`Settled`, apart from the steps between the change and the retaining). Where calls
  fail or descriptors cannot be duplicated, `Marked`: an effect that completes retains the
  filesystem first or makes the authority incomplete. Two cases of this are excepted because
  the code does not do so: an object other than a directory whose directory's descriptor could not be
  duplicated, and an update that found nothing to change. A process also
  ends without a fault, by the exception of an operation whose parent directory is gone;
  `StuckAt` says that the engine then comes back to the same path for ever, and never to
  synchronize.
  It needs that turns are distinct and that recovery takes the latest first.
- `RecoveriesAreExact`. `KeptInv` says of every path, in every phase, what its names may
  hold: a path without an effect keeps only its leaf, only a directory's mtime moves, and an object is
  displaced for a capture or a change of kind only (`Displaceable`). `UndoneInv`
  says that while all recoveries have succeeded, a path with nothing left to recover
  is as it was admitted, apart from the mtimes of the directories above one that is
  still to be recovered (`ToUndo`). Each recovery refreshes those directories last, so the last one
  leaves no exception.
- `RecoveriesFindTheirParents`. `RootInv`: a path still to be recovered hangs on
  directories, on paths whose recovery comes before its own, or on one given up as
  indeterminate. To begin with this holds because effects go forward only past results that allow it
  (`EndsInv`) and because what is there is reached through directories while
  the attempt goes forward (`Standing`). This is where the plan has to be a tree (`PlansAreTrees`).
- `DiscardsLeaveNothing`. `HouseInv`: each name of a path lies in one directory, which is at
  the parent under its own or its displaced name, so that what a discard takes
  below a displaced directory was displaced there by removals of this attempt, and moves
  no mtime that can be seen. `TidyInv`: an effect that ends well leaves no prepared
  name. `DropInv`: a discard that said "completed" left its path clear, also one that was
  cut short and repeated. `PreciseInv`, without faults: all mtimes are as planned but
  for those above the discard under way, until it has refreshed them.

- `AttemptKeepsPromise`. A step of an operation maps to `Work` or `Discard`, the engine's
  last one to how the attempt ended. That every completed effect is on the tree
  (`TreeInv`), that every path is back after good recoveries (`UndoneInv`) and how effects end
  (`EndsInv`) make the verdict true; `PromiseInv` adds that a path without an effect is as
  it was but for mtimes in every phase, and that only a directory is retained. In particular a
  restart in the middle of a recovery or of a discard does nothing the verdict does not allow.

`EvidenceProofs` is about `EvidenceStore` with the `RejectedStore` it extends, for any number of
processes, at once or not, and any failing calls, deaths and power losses
(`EvidenceTypeCorrect`, `OrderIsKept`, `RepublicationIsPossible`, `SynchronizedStays`,
`StoreKeepsIdentity`). `IInv` says that a final name has all its bytes and is in
its directories (`Sound`); that until something is lost a name comes after what it leads to
(`Ordered`); what each call has found, made or flushed at its point (`Reached`);
and that a writer is alone (`Held`, `Locked`). What is `confirmed` is closed under
directories and on the disk, so that it survives what `Ordered` does not. The
refinement maps the index to `IdentitySpec` step by step. `RepublicationIsPossible` is about
what a publication or a load would throw on (`Refused`, `Torn`): no system call of any process
leaves such a store, and a power loss does only if it takes a name that was not `confirmed`;
of a store torn that way nothing is claimed, for the code does refuse it.

`CaptureProofs` is about `CaptureStore` with `TargetObserver`, for any contents, metadata and
purposes, any number of changes by others, processes and faults (`ObservedOnce`,
`RecordsHavePayload`, `LeavesNoDebris`, `AnswersAgree`, `SynchronizedStays`,
`ExactRecordsAreProven`). The idea of `Seen`, `Watched` and `Copied`: no later change
bears a stamp that a stat has already shown, so the same object at the second stat
means that nothing was changed since the first, and what was read between them,
in however many steps, was there at one moment. `Making` and `Trusted` carry from there that a record
is made by the one writer after its payload, `Answered` that no two
answers differ. `RecordsHavePayload` says when a record may lack its payload: after a power
loss that came before any confirmed synchronize, and then no process retains a result.

`PayloadStageProofs` proves of `PayloadStage`, for any processes, entries, selections and worlds,
`StageTypeCorrect`, `OneWriterOnly`, `LoadsExactly`, `SealIsDurable`, `LeavesNothing` and
`PublishedIsKept`, if no call fails in a world where several processes use the stage at once
(`NoFailureWhileShared`). With such a world TLC finds the properties violated:
it is the hazard at payload_stage.cpp:1207, where begin gives up the lock and then removes, and so takes apart
the stage of another. `Custody` says whose the stage is: who made the directory, works in
it or clears it. `One`, `Owned` and `Waiting` say that there is one such process and why: it
has the lock of the present lock file, or nobody else can get past `bind`,
because the binding is gone. `Marked` keeps a sealed marker's payloads on the disk,
`Anchored` says who will flush a stage that is not flushed yet.

Each inductive invariant was first checked by TLC as an invariant: those of
`ActiveProofs` and `RecoveryProofs` with the bounds of `AttemptCrash` (`FlushInv` in all its worlds, 757,339 states; the others
without the two that have no death, 684,772), `EvidenceProofs` with
those of `EvidenceCrash` and every fault (2,978,015), `CaptureProofs` with those of
`CaptureCrash` and every fault (2,592,826), `PayloadStageProofs` with those of
`StageCrash`, one world or pair of faults at a time (at most 310,096), and
`JournalStoreProofs` with those of `JournalFails` (285,521; `LocatorsStored`
253,192).

The constants' assumptions are those of the code. A path is not above itself;
what is captured is there and was admitted as old; what the plan names is
as planned, so that only a later change can have moved an mtime; and a rejected
old side has a capture (`ActiveNamespaceAssumption`, `BackendAssumption`). What is there
before, and what is planned, is a tree (`PlansAreTrees`): active_namespace.cpp throws a
logic error of anything else (lines 1498 and 1563), and active_workspace.cpp opens no
path below what is not a directory. The markers of
the models are not among the values they stand beside (`TargetObserverValues`,
`CaptureStoreValues`).

Left to TLC: liveness under fairness (`EveryCallReturns`), which the prover cannot
reach. Neither proved nor checked: the refinement of `JournalSpec` through a power
loss, and the stage whose calls fail while it is shared, of which the properties
do not hold.

Some hazards in `PROJECT.json` name no property. They are cases in which the code does what
it should not, which the properties therefore except and the notes name: a power loss
before synchronize that leaves a capture or a rejected object refused, a discard
repeated after a crash that leaves an mtime, a recovery below one that was indeterminate, and
three of the stage (a begin cut short, a taken-over stage that is never flushed, a
failing begin beside another process).

## Not modelled

- Threads of one process: a record lock belongs to the process, so another thread
  of the holder passes F_SETLKW and closing the file drops the lock
  (journal_store.cpp:503). The documentation claims exclusion between processes only; the
  runs keep callers in different processes.
- discard_recovery is called by tests only; it is modelled, at the end of an
  attempt that succeeded.
- Hard links and mount points of the target; several paths in one capture or
  rejected store, which share only directory, binding and lock; encodings and
  digests, which are values; the version; tests, build and packaging.
