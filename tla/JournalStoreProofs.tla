-------------------------- MODULE JournalStoreProofs --------------------------
(***************************************************************************)
(* Theorems about JournalStore for every set of callers, processes,        *)
(* declarations, steps and cursors.                                        *)
(***************************************************************************)
EXTENDS JournalStore, TLAPS

USE JournalTypesAssumption, JournalStoreAssumption

-----------------------------------------------------------------------------
(* The inductive invariant, in named parts. *)

\* Each system call belongs to the operations that make it.
Fits(j, point) ==
  /\ j = NoJob <=> point = "idle"
  /\ point \in {"mkdir_journal", "sync_mkdir_journal", "mkdir_steps",
                "sync_mkdir_steps"} => j \in DeclarationJob
  /\ point = "require" => j \in StepJob \cup CursorJob
  /\ point \in {"read", "link", "sync_link", "sync_cleanup"} =>
       j \in DeclarationJob \cup StepJob
  /\ point \in {"lock", "compare"} => j \in CursorJob
  /\ point \in {"rename", "sync_rename"} => j \in DeclarationJob \cup CursorJob
  /\ point \in {"read_ref", "read_declaration"} => j \in ActiveJob

CallShape(c) ==
  /\ Fits(job[c], pc[c])
  /\ pc[c] = "read_declaration" => seen[c] \in Declaration

CallsShaped == \A c \in Caller : CallShape(c)

\* A declaration name holds that declaration, a locator one of its request.
ContentTyped(content) ==
  /\ \A d \in Declaration : content[DeclarationFile(d)] \in {d, Absent}
  /\ \A r \in Request :
       content[ActiveRef(r)] # Absent =>
         /\ content[ActiveRef(r)] \in Declaration
         /\ RequestOf[content[ActiveRef(r)]] = r

JobFacts(j) ==
  /\ j \in DeclarationJob => /\ j.op = "declaration" /\ j.of \in Declaration
                             /\ j.bytes = j.of /\ j.name = DeclarationFile(j.of)
  /\ j \in StepJob => /\ j.op = "step" /\ j.of \in Declaration
                      /\ j.bytes \in StepValue
                      /\ \E s \in Sequence : j.name = StepFile(j.of, s)
  /\ j \in CursorJob => /\ j.op = "cursor" /\ j.of \in Declaration
                        /\ j.bytes \in Cursor /\ j.expected \in Cursor \cup {Absent}
                        /\ j.name = CursorFile(j.of)
  /\ j \in ActiveJob => /\ j.op = "active" /\ j.of = Absent
                        /\ \E r \in Request : j.name = ActiveRef(r)
  /\ j = NoJob => j.op = "none"

LEMMA JobShapes == \A j : JobFacts(j)
BY DEF JobFacts, DeclarationJob, StepJob, CursorJob, ActiveJob, NoJob

LEMMA NamesAreNames ==
  /\ \A d \in Declaration : /\ JournalDir(d) \in Name
                            /\ StepsDir(d) \in Name
                            /\ DeclarationFile(d) \in Name
                            /\ DeclarationFile(d) \in Immutable
                            /\ CursorFile(d) \in Name
  /\ \A d \in Declaration, s \in Sequence : /\ StepFile(d, s) \in Name
                                            /\ StepFile(d, s) \in Immutable
  /\ \A r \in Request : ActiveRef(r) \in Name
BY DEF Name, Immutable

\* A step of one caller leaves the others' calls alone.
LEMMA GotoCall ==
  ASSUME NEW c \in Caller, NEW point \in PC, TypeOK, Goto(c, point)
  PROVE  /\ UNCHANGED <<job, ret, seen, lock, acked>>
         /\ pc' \in [Caller -> PC]
         /\ pc'[c] = point
         /\ \A b \in Caller \ {c} : pc'[b] = pc[b]
BY DEF Goto, TypeOK

LEMMA ReturnCall ==
  ASSUME NEW c \in Caller, NEW code \in Code, TypeOK, Return(c, code)
  PROVE  /\ pc' \in [Caller -> PC]
         /\ job' \in [Caller -> Job]
         /\ ret' \in [Caller -> Code]
         /\ seen' \in [Caller -> Declaration \cup {Absent}]
         /\ pc'[c] = "idle" /\ job'[c] = NoJob /\ ret'[c] = code /\ seen'[c] = Absent
         /\ \A b \in Caller \ {c} : /\ pc'[b] = pc[b]
                                    /\ job'[b] = job[b]
                                    /\ ret'[b] = ret[b]
                                    /\ seen'[b] = seen[b]
         /\ lock' = LockAfterClose(c)
BY DEF Return, TypeOK, PC, Job

LEMMA JobNames ==
  ASSUME NEW j \in Job, j # NoJob
  PROVE  /\ j.name \in Name
         /\ j.op \in {"declaration", "step", "cursor"} =>
              j.bytes \in Bytes /\ j.of \in Declaration /\ j.bytes # Absent
         /\ j.op \in {"declaration", "cursor"} => Replaced(j) \in Name
BY JobShapes, NamesAreNames DEF Job, JobFacts, Bytes, Replaced

LEMMA SyncKeepsType ==
  ASSUME TypeOK, NEW directory, SyncDirectory(directory)
  PROVE  disk' \in [Name -> Bytes \cup {Absent}]
BY DEF TypeOK, SyncDirectory

LEMMA CloseKeepsType ==
  ASSUME TypeOK, NEW c \in Caller
  PROVE  LockAfterClose(c) \in [Declaration -> Process \cup {NoProcess}]
BY DEF TypeOK, LockAfterClose

\* Ending a call keeps every type, whatever the code.
LEMMA ReturnKeepsType ==
  ASSUME TypeOK, NEW c \in Caller, NEW code \in Code, job[c] # NoJob, Return(c, code)
  PROVE  /\ lock' \in [Declaration -> Process \cup {NoProcess}]
         /\ pc' \in [Caller -> PC]
         /\ job' \in [Caller -> Job]
         /\ ret' \in [Caller -> Code]
         /\ seen' \in [Caller -> Declaration \cup {Absent}]
         /\ acked' \subseteq Name \X Bytes
<1>1. job[c] \in Job
  BY DEF TypeOK
<1>2. acked' \subseteq Name \X Bytes
  BY <1>1, JobNames DEF Return, TypeOK
<1>. QED
  BY <1>2, ReturnCall, CloseKeepsType

-----------------------------------------------------------------------------
(* Every variable keeps its type and every call the shape of its operation. *)

Typed == TypeOK /\ CallsShaped /\ ContentTyped(cache) /\ ContentTyped(disk)

LEMMA InitTyped == Init => Typed
BY NamesAreNames DEF Init, Typed, TypeOK, CallsShaped, CallShape, Fits, ContentTyped, PC, Code, Job

LEMMA TypeStep ==
  ASSUME Typed, [Next]_vars
  PROVE  TypeOK'
<1>. USE DEF Typed
<1>1. ASSUME NEW c \in Caller, NEW jobs \in SUBSET Job, NEW first \in PC,
             Enter(c, jobs, first)
      PROVE  TypeOK'
  BY <1>1 DEF Enter, TypeOK, store, Code
<1>2. ASSUME NEW c \in Caller, Begin(c)
      PROVE  TypeOK'
  BY <1>1, <1>2 DEF Begin, PublishDeclaration, PublishStep, CompareAndPublishCursor,
       LoadActiveDeclaration, Job, PC
<1>3. ASSUME NEW c \in Caller, NEW point \in PC, Goto(c, point), UNCHANGED <<cache, disk>>
      PROVE  TypeOK'
  BY <1>3, GotoCall DEF TypeOK
<1>4. ASSUME NEW c \in Caller, NEW code \in Code, job[c] # NoJob, Return(c, code),
             UNCHANGED <<cache, disk>>
      PROVE  TypeOK'
  BY <1>4, ReturnKeepsType DEF TypeOK
<1>5. ASSUME NEW c \in Caller, StoreCall(c)
      PROVE  TypeOK'
  <2>. DEFINE j == job[c]
  <2>0. /\ j \in Job /\ j # NoJob
        /\ j.name \in Name
        /\ JobFacts(j)
        /\ CallShape(c)
    BY <1>5, JobShapes, JobNames DEF TypeOK, CallsShaped, CallShape, Fits, StoreCall, EnsureJournal,
         EnsureSteps, SyncNewDirectory, Require, ReadExisting, Link, SyncLink,
         SyncCleanup, LockCursor, CompareCursor, Rename, SyncRename, ReadRef,
         ReadDeclaration
  <2>1. CASE EnsureJournal(c)
    BY <2>0, <2>1, GotoCall, NamesAreNames
       DEF EnsureJournal, MakeDirectory, TypeOK, CallShape, Fits, JobFacts, PC, Bytes
  <2>2. CASE EnsureSteps(c)
    BY <2>0, <2>2, GotoCall, NamesAreNames
       DEF EnsureSteps, MakeDirectory, TypeOK, CallShape, Fits, JobFacts, PC, Bytes
  <2>3. CASE SyncNewDirectory(c)
    BY <2>3, SyncKeepsType, GotoCall DEF SyncNewDirectory, TypeOK, PC
  <2>4. CASE Require(c)
    BY <2>0, <2>4, <1>3, <1>4 DEF Require, store, PC, Code
  <2>5. CASE ReadExisting(c)
    BY <2>0, <2>5, <1>3, <1>4 DEF ReadExisting, ImmutablePublished, store, PC, Code
  <2>6. CASE Link(c)
    <3>1. CASE cache[j.name] = Absent
      BY <2>0, <2>6, <3>1, GotoCall DEF Link, TypeOK, PC, CallShape, Fits, JobFacts, Bytes
    <3>2. CASE cache[j.name] # Absent
      BY <2>0, <2>6, <3>2, <1>3, <1>4 DEF Link, ImmutablePublished, PC, Code
    <3>. QED  BY <3>1, <3>2
  <2>7. CASE SyncLink(c)
    BY <2>7, SyncKeepsType, GotoCall DEF SyncLink, TypeOK, PC
  <2>8. CASE SyncCleanup(c)
    BY <2>0, <2>8, SyncKeepsType, GotoCall, ReturnKeepsType
       DEF SyncCleanup, ImmutablePublished, TypeOK, PC, Code
  <2>9. CASE LockCursor(c)
    BY <2>0, <2>9 DEF LockCursor, TypeOK, PC, store
  <2>10. CASE CompareCursor(c)
    BY <2>0, <2>10, <1>3, <1>4 DEF CompareCursor, store, PC, Code
  <2>11. CASE Rename(c)
    <3>1. Replaced(j) \in Name /\ j.bytes \in Bytes
      BY <2>0, <2>11, JobNames DEF Rename, CallShape, Fits, JobFacts
    <3>. QED  BY <2>11, <3>1, GotoCall DEF Rename, TypeOK, PC
  <2>12. CASE SyncRename(c)
    BY <2>0, <2>12, SyncKeepsType, ReturnKeepsType DEF SyncRename, TypeOK, Code
  <2>13. CASE ReadRef(c)
    <3>1. CASE cache[j.name] = Absent
      BY <2>0, <2>13, <3>1, <1>4 DEF ReadRef, store, Code
    <3>2. CASE cache[j.name] # Absent
      <4>1. cache[j.name] \in Declaration
        BY <2>0, <2>13, <3>2 DEF ReadRef, CallShape, Fits, JobFacts, ContentTyped
      <4>. QED  BY <2>0, <2>13, <3>2, <4>1 DEF ReadRef, TypeOK, store, PC
    <3>. QED  BY <3>1, <3>2
  <2>14. CASE ReadDeclaration(c)
    BY <2>0, <2>14, <1>4 DEF ReadDeclaration, store, Code
  <2>. QED
    BY <1>5, <2>1, <2>2, <2>3, <2>4, <2>5, <2>6, <2>7, <2>8, <2>9, <2>10, <2>11,
       <2>12, <2>13, <2>14 DEF StoreCall
<1>6. ASSUME NEW c \in Caller, IoError(c) \/ SyncError(c)
      PROVE  TypeOK'
  BY <1>4, <1>6 DEF IoError, SyncError, SyncPoint, CallsShaped, CallShape, Fits, store, Code
<1>7. ASSUME NEW p \in Process, Crash(p)
      PROVE  TypeOK'
  BY <1>7 DEF Crash, TypeOK, store, PC, Code, Job
<1>8. ASSUME NEW n \in Name, WriteBack(n)
      PROVE  TypeOK'
  BY <1>8 DEF WriteBack, TypeOK
<1>9. CASE PowerLoss
  BY <1>9 DEF PowerLoss, Survivor, TypeOK, PC, Code, Job
<1>10. CASE UNCHANGED vars
  BY <1>10 DEF vars, TypeOK
<1>. QED
  BY <1>2, <1>5, <1>6, <1>7, <1>8, <1>9, <1>10 DEF Next, Fault

LEMMA ContentStep ==
  ASSUME Typed, [Next]_vars
  PROVE  ContentTyped(cache)' /\ ContentTyped(disk)'
<1>. USE DEF Typed
<1>1. ASSUME UNCHANGED <<cache, disk>>
      PROVE  ContentTyped(cache)' /\ ContentTyped(disk)'
  BY <1>1 DEF ContentTyped
<1>2. ASSUME NEW directory, SyncDirectory(directory), UNCHANGED cache
      PROVE  ContentTyped(cache)' /\ ContentTyped(disk)'
  BY <1>2, NamesAreNames DEF ContentTyped, SyncDirectory
<1>3. ASSUME NEW n \in Name, NEW bytes,
             cache' = [cache EXCEPT ![n] = bytes], UNCHANGED disk,
             \A d \in Declaration : n = DeclarationFile(d) => bytes = d,
             \A r \in Request : n = ActiveRef(r) => /\ bytes \in Declaration
                                                   /\ RequestOf[bytes] = r
      PROVE  ContentTyped(cache)' /\ ContentTyped(disk)'
  BY <1>3, NamesAreNames DEF ContentTyped, TypeOK
<1>4. ASSUME NEW c \in Caller, StoreCall(c)
      PROVE  ContentTyped(cache)' /\ ContentTyped(disk)'
  <2>. DEFINE j == job[c]
  <2>0. /\ j \in Job /\ j # NoJob
        /\ j.name \in Name
        /\ JobFacts(j)
        /\ CallShape(c)
    BY <1>4, JobShapes, JobNames DEF TypeOK, CallsShaped, CallShape, Fits, StoreCall, EnsureJournal,
         EnsureSteps, SyncNewDirectory, Require, ReadExisting, Link, SyncLink,
         SyncCleanup, LockCursor, CompareCursor, Rename, SyncRename, ReadRef,
         ReadDeclaration
  <2>1. CASE EnsureJournal(c)
    <3>1. JournalDir(j.of) \in Name
      BY <2>0, <2>1, NamesAreNames DEF EnsureJournal, CallShape, Fits, JobFacts
    <3>. QED
      BY <2>1, <3>1, <1>1, <1>3
         DEF EnsureJournal, MakeDirectory, JournalDir, DeclarationFile, ActiveRef
  <2>2. CASE EnsureSteps(c)
    <3>1. StepsDir(j.of) \in Name
      BY <2>0, <2>2, NamesAreNames DEF EnsureSteps, CallShape, Fits, JobFacts
    <3>. QED
      BY <2>2, <3>1, <1>1, <1>3
         DEF EnsureSteps, MakeDirectory, StepsDir, DeclarationFile, ActiveRef
  <2>3. CASE SyncNewDirectory(c)
    BY <2>3, <1>2 DEF SyncNewDirectory
  <2>4. CASE Link(c)
    <3>1. \A d \in Declaration : j.name = DeclarationFile(d) => j.bytes = d
      BY <2>0, <2>4 DEF Link, CallShape, Fits, JobFacts, DeclarationFile, StepFile
    <3>2. \A r \in Request : j.name # ActiveRef(r)
      BY <2>0, <2>4 DEF Link, CallShape, Fits, JobFacts, DeclarationFile, StepFile, ActiveRef
    <3>. QED  BY <2>0, <2>4, <3>1, <3>2, <1>1, <1>3 DEF Link
  <2>5. CASE SyncLink(c) \/ SyncCleanup(c) \/ SyncRename(c)
    BY <2>5, <1>2 DEF SyncLink, SyncCleanup, SyncRename
  <2>6. CASE Rename(c)
    <3>1. Replaced(j) \in Name
      BY <2>0, <2>6, JobNames DEF Rename, CallShape, Fits, JobFacts
    <3>2. \A d \in Declaration : Replaced(j) # DeclarationFile(d)
      BY <2>0, <2>6
         DEF Rename, CallShape, Fits, JobFacts, Replaced, DeclarationFile, ActiveRef, CursorFile
    <3>3. \A r \in Request : Replaced(j) = ActiveRef(r) => /\ j.bytes \in Declaration
                                                          /\ RequestOf[j.bytes] = r
      BY <2>0, <2>6
         DEF Rename, CallShape, Fits, JobFacts, Replaced, ActiveRef, CursorFile
    <3>. QED  BY <2>6, <3>1, <3>2, <3>3, <1>3 DEF Rename
  <2>7. CASE Require(c) \/ ReadExisting(c) \/ LockCursor(c) \/ CompareCursor(c)
               \/ ReadRef(c) \/ ReadDeclaration(c)
    BY <2>7, <1>1 DEF Require, ReadExisting, LockCursor, CompareCursor, ReadRef,
         ReadDeclaration, store
  <2>. QED
    BY <1>4, <2>1, <2>2, <2>3, <2>4, <2>5, <2>6, <2>7 DEF StoreCall
<1>5. ASSUME NEW n \in Name, WriteBack(n)
      PROVE  ContentTyped(cache)' /\ ContentTyped(disk)'
  BY <1>5, NamesAreNames DEF WriteBack, ContentTyped, TypeOK
<1>6. CASE PowerLoss
  BY <1>6, NamesAreNames DEF PowerLoss, Survivor, ContentTyped
<1>7. ASSUME NEW c \in Caller, Begin(c) \/ IoError(c) \/ SyncError(c)
      PROVE  UNCHANGED <<cache, disk>>
  BY <1>7 DEF Begin, PublishDeclaration, PublishStep, CompareAndPublishCursor,
       LoadActiveDeclaration, Enter, IoError, SyncError, store
<1>. QED
  BY <1>1, <1>4, <1>5, <1>6, <1>7 DEF Next, Fault, Crash, vars, store

LEMMA ShapeStep ==
  ASSUME Typed, [Next]_vars
  PROVE  CallsShaped'
<1>. USE DEF Typed
\* Only the caller that moves has to be looked at again.
<1>1. ASSUME NEW c \in Caller, CallShape(c)',
             \A b \in Caller \ {c} : /\ pc'[b] = pc[b]
                                     /\ job'[b] = job[b]
                                     /\ seen'[b] = seen[b]
      PROVE  CallsShaped'
  BY <1>1 DEF CallsShaped, CallShape, Fits
<1>2. ASSUME NEW c \in Caller, NEW code \in Code, job[c] # NoJob, Return(c, code)
      PROVE  CallsShaped'
  BY <1>1, <1>2, ReturnCall DEF CallShape, Fits
<1>3. ASSUME NEW c \in Caller, NEW jobs, NEW first \in PC, jobs \subseteq Job,
             Enter(c, jobs, first),
             \/ first = "mkdir_journal" /\ jobs = DeclarationJob
             \/ first = "require" /\ jobs \in {StepJob, CursorJob}
             \/ first = "read_ref" /\ jobs = ActiveJob
      PROVE  CallsShaped'
  <2>1. /\ pc'[c] = first /\ job'[c] \in jobs
        /\ \A b \in Caller \ {c} : /\ pc'[b] = pc[b]
                                    /\ job'[b] = job[b]
                                    /\ seen'[b] = seen[b]
    BY <1>3 DEF Enter, TypeOK
  <2>2. job'[c] # NoJob
    BY <1>3, <2>1, JobShapes DEF JobFacts
  <2>3. CallShape(c)'
    BY <1>3, <2>1, <2>2 DEF CallShape, Fits
  <2>. QED  BY <1>1, <2>1, <2>3
<1>4. ASSUME NEW c \in Caller, Begin(c)
      PROVE  CallsShaped'
  <2>1. CASE PublishDeclaration(c)
    BY <1>3, <2>1 DEF PublishDeclaration, Job, PC
  <2>2. CASE PublishStep(c)
    BY <1>3, <2>2 DEF PublishStep, Job, PC
  <2>3. CASE CompareAndPublishCursor(c)
    BY <1>3, <2>3 DEF CompareAndPublishCursor, Job, PC
  <2>4. CASE LoadActiveDeclaration(c)
    BY <1>3, <2>4 DEF LoadActiveDeclaration, Job, PC
  <2>. QED  BY <1>4, <2>1, <2>2, <2>3, <2>4 DEF Begin
\* A call that moves on keeps its job.
<1>5. ASSUME NEW c \in Caller, NEW point \in PC, Goto(c, point), point # "idle",
             job[c] # NoJob, CallShape(c)'
      PROVE  CallsShaped'
  BY <1>1, <1>5, GotoCall
<1>6. ASSUME NEW c \in Caller, StoreCall(c)
      PROVE  CallsShaped'
  <2>. DEFINE j == job[c]
  <2>0. /\ j \in Job /\ j # NoJob
        /\ JobFacts(j)
        /\ CallShape(c)
    BY <1>6, JobShapes DEF TypeOK, CallsShaped, CallShape, Fits, StoreCall, EnsureJournal,
         EnsureSteps, SyncNewDirectory, Require, ReadExisting, Link, SyncLink,
         SyncCleanup, LockCursor, CompareCursor, Rename, SyncRename, ReadRef,
         ReadDeclaration
  <2>a. ASSUME NEW point \in PC \ {"read_declaration"}, Goto(c, point), Fits(j, point)
        PROVE  CallsShaped'
    <3>1. pc'[c] = point /\ job'[c] = j
      BY <2>a, GotoCall
    <3>2. CallShape(c)'
      BY <2>a, <3>1 DEF CallShape, Fits
    <3>. QED  BY <2>0, <2>a, <3>2, <1>5 DEF Fits
  <2>1. CASE EnsureJournal(c)
    BY <2>0, <2>1, <2>a DEF EnsureJournal, MakeDirectory, CallShape, Fits, PC
  <2>2. CASE EnsureSteps(c)
    BY <2>0, <2>2, <2>a DEF EnsureSteps, MakeDirectory, CallShape, Fits, PC
  <2>3. CASE SyncNewDirectory(c)
    BY <2>0, <2>3, <2>a DEF SyncNewDirectory, CallShape, Fits, PC
  <2>4. CASE Require(c)
    BY <2>0, <2>4, <2>a, <1>2 DEF Require, CallShape, Fits, JobFacts, PC, Code
  <2>5. CASE ReadExisting(c)
    BY <2>0, <2>5, <2>a, <1>2 DEF ReadExisting, ImmutablePublished, CallShape, Fits, JobFacts, PC, Code
  <2>6. CASE Link(c)
    BY <2>0, <2>6, <2>a, <1>2 DEF Link, ImmutablePublished, CallShape, Fits, JobFacts, PC, Code
  <2>7. CASE SyncLink(c)
    BY <2>0, <2>7, <2>a DEF SyncLink, CallShape, Fits, PC
  <2>8. CASE SyncCleanup(c)
    BY <2>0, <2>8, <2>a, <1>2 DEF SyncCleanup, ImmutablePublished, CallShape, Fits, JobFacts, PC, Code
  <2>9. CASE LockCursor(c)
    <3>1. /\ pc'[c] = "compare" /\ job' = job
          /\ \A b \in Caller \ {c} : /\ pc'[b] = pc[b]
                                      /\ job'[b] = job[b]
                                      /\ seen'[b] = seen[b]
      BY <2>9 DEF LockCursor, TypeOK
    <3>. QED  BY <2>0, <2>9, <3>1, <1>1 DEF LockCursor, CallShape, Fits
  <2>10. CASE CompareCursor(c)
    BY <2>0, <2>10, <2>a, <1>2 DEF CompareCursor, CallShape, Fits, PC, Code
  <2>11. CASE Rename(c)
    BY <2>0, <2>11, <2>a DEF Rename, CallShape, Fits, PC
  <2>12. CASE SyncRename(c)
    BY <2>0, <2>12, <1>2 DEF SyncRename, Code
  <2>13. CASE ReadRef(c)
    <3>1. CASE cache[j.name] = Absent
      BY <2>0, <2>13, <3>1, <1>2 DEF ReadRef, Code
    <3>2. CASE cache[j.name] # Absent
      <4>1. cache[j.name] \in Declaration
        BY <2>0, <2>13, <3>2 DEF ReadRef, CallShape, Fits, JobFacts, ContentTyped
      <4>2. /\ pc'[c] = "read_declaration" /\ job' = job /\ seen'[c] \in Declaration
            /\ \A b \in Caller \ {c} : /\ pc'[b] = pc[b]
                                        /\ job'[b] = job[b]
                                        /\ seen'[b] = seen[b]
        BY <2>13, <3>2, <4>1 DEF ReadRef, TypeOK
      <4>. QED  BY <2>0, <2>13, <4>2, <1>1 DEF ReadRef, CallShape, Fits
    <3>. QED  BY <3>1, <3>2
  <2>14. CASE ReadDeclaration(c)
    BY <2>0, <2>14, <1>2 DEF ReadDeclaration, Code
  <2>. QED
    BY <1>6, <2>1, <2>2, <2>3, <2>4, <2>5, <2>6, <2>7, <2>8, <2>9, <2>10, <2>11,
       <2>12, <2>13, <2>14 DEF StoreCall
<1>7. ASSUME NEW c \in Caller, IoError(c) \/ SyncError(c)
      PROVE  CallsShaped'
  BY <1>2, <1>7 DEF IoError, SyncError, SyncPoint, CallsShaped, CallShape, Fits, Code
<1>8. ASSUME NEW p \in Process, Crash(p)
      PROVE  CallsShaped'
  BY <1>8 DEF Crash, CallsShaped, CallShape, Fits
<1>9. CASE PowerLoss
  BY <1>9 DEF PowerLoss, CallsShaped, CallShape, Fits
<1>10. CASE UNCHANGED <<pc, job, seen>>
  BY <1>10 DEF CallsShaped, CallShape, Fits
<1>. QED
  BY <1>4, <1>6, <1>7, <1>8, <1>9, <1>10 DEF Next, Fault, WriteBack, vars

LEMMA TypedStep == Typed /\ [Next]_vars => Typed'
BY TypeStep, ContentStep, ShapeStep DEF Typed

\* Type correctness of the store, under any faults and any number of callers:
\* no interleaving of calls, errors, crashes and power losses leaves a name or
\* a call in a shape journal_store.cpp does not know.
THEOREM TypeCorrect == Spec => []TypeOK
<1>1. Typed => TypeOK
  BY DEF Typed
<1>. QED
  BY <1>1, InitTyped, TypedStep, PTL DEF Spec

THEOREM AlwaysTyped == Spec => []Typed
BY InitTyped, TypedStep, PTL DEF Spec

-----------------------------------------------------------------------------
(* What one step may do to the visible names. *)

CacheEffect(n, bytes) == cache' = [cache EXCEPT ![n] = bytes]

\* The names that are created and never replaced.
Lasting == Immutable \cup {JournalDir(d) : d \in Declaration}
                     \cup {StepsDir(d) : d \in Declaration}

\* A step other than a power loss changes at most one name: a directory or an
\* immutable name that was absent, or the target of a caller's rename.
LEMMA OneName ==
  ASSUME Typed, [Next]_vars
  PROVE  \/ PowerLoss
         \/ UNCHANGED cache
         \/ \E n \in Lasting, bytes \in Bytes : cache[n] = Absent /\ CacheEffect(n, bytes)
         \/ \E c \in Caller : /\ pc[c] = "rename"
                            /\ CacheEffect(Replaced(job[c]), job[c].bytes)
                            /\ pc'[c] = "sync_rename" /\ job' = job
<1>. DEFINE Effect == \/ UNCHANGED cache
                      \/ \E n \in Lasting, bytes \in Bytes :
                           cache[n] = Absent /\ CacheEffect(n, bytes)
                      \/ \E c \in Caller : /\ pc[c] = "rename"
                                         /\ CacheEffect(Replaced(job[c]), job[c].bytes)
                                         /\ pc'[c] = "sync_rename" /\ job' = job
<1>. USE DEF Typed
<1>1. ASSUME NEW c \in Caller, StoreCall(c)
      PROVE  Effect
  <2>0. /\ job[c] \in Job /\ job[c] # NoJob
        /\ JobFacts(job[c])
        /\ CallShape(c)
    BY <1>1, JobShapes DEF TypeOK, CallsShaped, CallShape, Fits, StoreCall, EnsureJournal,
         EnsureSteps, SyncNewDirectory, Require, ReadExisting, Link, SyncLink,
         SyncCleanup, LockCursor, CompareCursor, Rename, SyncRename, ReadRef,
         ReadDeclaration
  <2>1. CASE EnsureJournal(c)
    BY <2>0, <2>1, NamesAreNames
       DEF EnsureJournal, MakeDirectory, CacheEffect, CallShape, Fits, JobFacts, Bytes, Lasting
  <2>2. CASE EnsureSteps(c)
    BY <2>0, <2>2, NamesAreNames
       DEF EnsureSteps, MakeDirectory, CacheEffect, CallShape, Fits, JobFacts, Bytes, Lasting
  <2>3. CASE Link(c)
    <3>1. job[c].name \in Lasting /\ job[c].bytes \in Bytes
      BY <2>0, <2>3, JobNames, NamesAreNames DEF Link, CallShape, Fits, JobFacts, Lasting
    <3>. QED  BY <2>3, <3>1 DEF Link, CacheEffect
  <2>4. CASE Rename(c)
    BY <2>4, GotoCall DEF Rename, CacheEffect, PC
  <2>5. CASE \/ SyncNewDirectory(c) \/ Require(c) \/ ReadExisting(c) \/ SyncLink(c)
             \/ SyncCleanup(c) \/ LockCursor(c) \/ CompareCursor(c) \/ SyncRename(c)
             \/ ReadRef(c) \/ ReadDeclaration(c)
    BY <2>5 DEF SyncNewDirectory, Require, ReadExisting, SyncLink, SyncCleanup, LockCursor,
         CompareCursor, SyncRename, ReadRef, ReadDeclaration, store
  <2>. QED  BY <1>1, <2>1, <2>2, <2>3, <2>4, <2>5 DEF StoreCall
<1>2. ASSUME NEW c \in Caller, Begin(c) \/ IoError(c) \/ SyncError(c)
      PROVE  UNCHANGED cache
  BY <1>2 DEF Begin, PublishDeclaration, PublishStep, CompareAndPublishCursor,
       LoadActiveDeclaration, Enter, IoError, SyncError, store
<1>. QED
  BY <1>1, <1>2 DEF Next, Fault, Crash, WriteBack, vars, store

\* The target of a rename is a locator or a cursor, never an immutable name.
LEMMA RenameTarget ==
  ASSUME Typed, NEW c \in Caller, pc[c] = "rename"
  PROVE  \/ /\ job[c] \in DeclarationJob
            /\ Replaced(job[c]) = ActiveRef(RequestOf[job[c].of])
            /\ job[c].bytes = job[c].of /\ job[c].of \in Declaration
         \/ /\ job[c] \in CursorJob
            /\ Replaced(job[c]) = CursorFile(job[c].of)
            /\ job[c].bytes \in Cursor /\ job[c].of \in Declaration
<1>1. /\ job[c] \in DeclarationJob \cup CursorJob
      /\ JobFacts(job[c])
  BY JobShapes DEF Typed, CallsShaped, CallShape, Fits
<1>. QED  BY <1>1 DEF JobFacts, Replaced

LEMMA NamesDiffer ==
  /\ \A n \in Lasting, d \in Declaration : n # CursorFile(d)
  /\ \A n \in Lasting, r \in Request : n # ActiveRef(r)
  /\ Immutable \subseteq Lasting /\ Lasting \subseteq Name
  /\ \A d \in Declaration, r \in Request : CursorFile(d) # ActiveRef(r)
  /\ \A d, e \in Declaration : CursorFile(d) = CursorFile(e) => d = e
  /\ \A d, e \in Declaration : DeclarationFile(d) = DeclarationFile(e) => d = e
  /\ \A r, q \in Request : ActiveRef(r) = ActiveRef(q) => r = q
<1>1. Immutable \subseteq Lasting /\ Lasting \subseteq Name
  BY DEF Lasting, Name
<1>. QED
  BY <1>1 DEF Immutable, Lasting, DeclarationFile, StepFile, CursorFile, ActiveRef,
       JournalDir, StepsDir

LEMMA ImmutableStep ==
  ASSUME Typed, [Next]_vars, NEW n \in Immutable, cache[n] # Absent
  PROVE  PowerLoss \/ cache'[n] = cache[n]
<1>1. n \in Name /\ DOMAIN cache = Name
  BY DEF Name, Typed, TypeOK
<1>2. ASSUME NEW c \in Caller, pc[c] = "rename",
             CacheEffect(Replaced(job[c]), job[c].bytes)
      PROVE  cache'[n] = cache[n]
  BY <1>1, <1>2, RenameTarget, NamesDiffer DEF CacheEffect, Typed, TypeOK
<1>. QED  BY <1>1, <1>2, OneName DEF CacheEffect, Typed, TypeOK

-----------------------------------------------------------------------------
(* Immutable names stay. *)

\* Stable storage is never ahead of what is visible under an immutable name.
DiskBehind == \A n \in Immutable : disk[n] \in {cache[n], Absent}

LEMMA DiskBehindStep ==
  ASSUME Typed, DiskBehind, [Next]_vars
  PROVE  DiskBehind'
<1>1. Immutable \subseteq Name
  BY DEF Name
<1>2. \/ PowerLoss
      \/ \A n \in Immutable : disk'[n] \in {disk[n], cache[n]}
  <2>1. ASSUME NEW directory, SyncDirectory(directory)
        PROVE  \A n \in Immutable : disk'[n] \in {disk[n], cache[n]}
    BY <1>1, <2>1 DEF SyncDirectory
  <2>2. ASSUME NEW n \in Name, WriteBack(n)
        PROVE  \A m \in Immutable : disk'[m] \in {disk[m], cache[m]}
    BY <1>1, <2>2 DEF WriteBack, Typed, TypeOK
  <2>3. ASSUME NEW c \in Caller, StoreCall(c)
        PROVE  UNCHANGED disk \/ \E directory : SyncDirectory(directory)
    BY <2>3 DEF StoreCall, EnsureJournal, EnsureSteps, MakeDirectory,
         SyncNewDirectory, Require, ReadExisting, Link, SyncLink,
         SyncCleanup, LockCursor, CompareCursor, Rename, SyncRename, ReadRef,
         ReadDeclaration, store
  <2>4. ASSUME NEW c \in Caller, Begin(c) \/ IoError(c) \/ SyncError(c)
        PROVE  UNCHANGED disk
    BY <2>4 DEF Begin, PublishDeclaration, PublishStep, CompareAndPublishCursor,
         LoadActiveDeclaration, Enter, IoError, SyncError, store
  <2>. QED
    BY <2>1, <2>2, <2>3, <2>4 DEF Next, Fault, Crash, vars, store
<1>3. CASE PowerLoss
  BY <1>1, <1>3 DEF PowerLoss, DiskBehind
<1>4. CASE \A n \in Immutable : disk'[n] \in {disk[n], cache[n]}
  <2>1. \A n \in Immutable : cache[n] = Absent \/ cache'[n] = cache[n] \/ PowerLoss
    BY ImmutableStep
  <2>. QED  BY <1>3, <1>4, <2>1 DEF DiskBehind
<1>. QED  BY <1>2, <1>3, <1>4

\* A declaration or step, once visible, keeps its bytes for good: no race of
\* publishers, retry, error or crash replaces it, and a power loss can only
\* take it away (publish_immutable).
THEOREM ImmutableForever == Spec => ImmutableNamesStay
<1>1. Init => DiskBehind
  BY DEF Init, DiskBehind, Name
<1>2. ASSUME Typed, DiskBehind, [Next]_vars, NEW n \in Immutable, cache[n] # Absent
      PROVE  cache'[n] = cache[n] \/ (PowerLoss /\ cache'[n] = Absent)
  <2>1. CASE PowerLoss
    BY <1>2, <2>1 DEF PowerLoss, Survivor, DiskBehind, Name
  <2>. QED  BY <1>2, <2>1, ImmutableStep
<1>3. Typed /\ DiskBehind /\ [Next]_vars =>
        [\A n \in Immutable :
           cache[n] # Absent =>
             \/ cache'[n] = cache[n]
             \/ PowerLoss /\ cache'[n] = Absent]_vars
  BY <1>2
<1>. QED
  BY <1>1, <1>3, AlwaysTyped, DiskBehindStep, PTL DEF Spec, ImmutableNamesStay

-----------------------------------------------------------------------------
(* Compare and publish is one step, for callers in distinct processes. *)

DistinctProcesses ==
  \A b, c \in Caller : ProcessOf[b] = ProcessOf[c] => b = c

\* From the grant of the record lock to its return, a cursor call's process
\* holds the lock; past the comparison the cursor is the one it expected, past
\* the rename the one it desired.
InSection(c) ==
  job[c] \in CursorJob /\ pc[c] \in {"compare", "rename", "sync_rename"}

Section(c) ==
  InSection(c) =>
    /\ lock[job[c].of] = ProcessOf[c]
    /\ pc[c] = "rename" => cache[job[c].name] = job[c].expected
    /\ pc[c] = "sync_rename" => cache[job[c].name] = job[c].bytes

Sections == \A c \in Caller : Section(c)

LEMMA OneInSection ==
  ASSUME DistinctProcesses, Sections, NEW b \in Caller, NEW c \in Caller,
         InSection(b), InSection(c), job[b].of = job[c].of
  PROVE  b = c
BY DEF DistinctProcesses, Sections, Section

\* No step of another caller touches the lock or the cursor of a section.
LEMMA SectionUndisturbed ==
  ASSUME Typed, Sections, DistinctProcesses, NEW b \in Caller, InSection(b),
         NEW c \in Caller, c # b,
         Begin(c) \/ StoreCall(c) \/ IoError(c) \/ SyncError(c)
  PROVE  lock'[job[b].of] = lock[job[b].of]
<1>. USE DEF Typed
<1>1. ASSUME lock' = LockAfterClose(c)
      PROVE  lock'[job[b].of] = lock[job[b].of]
  BY <1>1 DEF LockAfterClose, Sections, Section, DistinctProcesses, TypeOK
<1>2. CASE LockCursor(c)
  <2>1. lock[job[b].of] = ProcessOf[b] /\ ProcessOf[b] # ProcessOf[c]
        /\ ProcessOf[b] # NoProcess
    BY DEF Sections, Section, DistinctProcesses
  <2>. QED  BY <1>2, <2>1 DEF LockCursor, TypeOK
<1>3. \/ UNCHANGED lock
      \/ lock' = LockAfterClose(c)
      \/ LockCursor(c)
  BY DEF Begin, PublishDeclaration, PublishStep, CompareAndPublishCursor,
       LoadActiveDeclaration, Enter, IoError, SyncError, StoreCall, EnsureJournal,
       EnsureSteps, MakeDirectory, SyncNewDirectory, Require, ReadExisting, Link,
       SyncLink, SyncCleanup, ImmutablePublished, CompareCursor, Rename, SyncRename, ReadRef,
       ReadDeclaration, Goto, Return
<1>. QED  BY <1>1, <1>2, <1>3

\* The calls of the others do not move when c takes a step.
LEMMA OthersStay ==
  ASSUME Typed, NEW c \in Caller, NEW b \in Caller \ {c},
         Begin(c) \/ StoreCall(c) \/ IoError(c) \/ SyncError(c)
  PROVE  pc'[b] = pc[b] /\ job'[b] = job[b] /\ seen'[b] = seen[b]
BY DEF Typed, TypeOK, Begin, PublishDeclaration, PublishStep, CompareAndPublishCursor,
     LoadActiveDeclaration, Enter, IoError, SyncError, StoreCall, EnsureJournal,
     EnsureSteps, MakeDirectory, SyncNewDirectory, Require, ReadExisting, Link,
     SyncLink, SyncCleanup, ImmutablePublished, LockCursor, CompareCursor, Rename,
     SyncRename, ReadRef, ReadDeclaration, Goto, Return

\* A cursor changes only by the rename of a call in its section.
LEMMA CursorStep ==
  ASSUME Typed, [Next]_vars, NEW d \in Declaration,
         cache'[CursorFile(d)] # cache[CursorFile(d)]
  PROVE  \/ PowerLoss
         \/ \E c \in Caller : /\ InSection(c) /\ pc[c] = "rename" /\ job[c].of = d
                            /\ cache'[CursorFile(d)] = job[c].bytes
                            /\ pc'[c] = "sync_rename" /\ job' = job
<1>1. CursorFile(d) \in Name /\ cache \in [Name -> Bytes \cup {Absent}]
  BY NamesAreNames DEF Typed, TypeOK
<1>2. ASSUME NEW n \in Lasting, NEW bytes, CacheEffect(n, bytes)
      PROVE  FALSE
  BY <1>1, <1>2, NamesDiffer DEF CacheEffect
<1>3. ASSUME NEW c \in Caller, pc[c] = "rename",
             CacheEffect(Replaced(job[c]), job[c].bytes)
      PROVE  /\ InSection(c) /\ job[c].of = d
             /\ cache'[CursorFile(d)] = job[c].bytes
  <2>1. \/ /\ Replaced(job[c]) = ActiveRef(RequestOf[job[c].of])
           /\ RequestOf[job[c].of] \in Request
        \/ /\ job[c] \in CursorJob
           /\ Replaced(job[c]) = CursorFile(job[c].of)
           /\ job[c].of \in Declaration
    BY <1>3, RenameTarget
  <2>. QED  BY <1>1, <1>3, <2>1, NamesDiffer DEF CacheEffect, InSection
<1>. QED  BY <1>2, <1>3, OneName

LEMMA SectionsStep ==
  ASSUME Typed, Sections, DistinctProcesses, [Next]_vars
  PROVE  Sections'
<1>. USE DEF Typed
<1>1. CASE PowerLoss
  BY <1>1 DEF PowerLoss, Sections, Section, InSection
<1>. SUFFICES ASSUME ~PowerLoss
              PROVE  Sections'
  BY <1>1
\* The cursor of a section changes only by its own rename.
<1>2. ASSUME NEW b \in Caller, InSection(b)
      PROVE  \/ cache'[job[b].name] = cache[job[b].name]
             \/ /\ pc[b] = "rename" /\ pc'[b] = "sync_rename" /\ job' = job
                /\ cache'[job[b].name] = job[b].bytes
  <2>1. job[b].name = CursorFile(job[b].of) /\ job[b].of \in Declaration
    BY <1>2, JobShapes DEF InSection, JobFacts
  <2>. QED  BY <1>2, <2>1, CursorStep, OneInSection
<1>3. ASSUME NEW b \in Caller, pc'[b] = pc[b], job'[b] = job[b],
             InSection(b) => lock'[job[b].of] = lock[job[b].of]
      PROVE  Section(b)'
  BY <1>2, <1>3 DEF Sections, Section, InSection
<1>4. ASSUME NEW c \in Caller, Begin(c) \/ StoreCall(c) \/ IoError(c) \/ SyncError(c),
             NEW b \in Caller \ {c}
      PROVE  Section(b)'
  BY <1>3, <1>4, OthersStay, SectionUndisturbed
<1>5. ASSUME NEW c \in Caller, pc'[c] \notin {"compare", "rename", "sync_rename"}
      PROVE  Section(c)'
  BY <1>5 DEF Section, InSection
<1>6. ASSUME NEW c \in Caller, job'[c] \notin CursorJob
      PROVE  Section(c)'
  BY <1>6 DEF Section, InSection
<1>7. ASSUME NEW c \in Caller, Begin(c) \/ IoError(c) \/ SyncError(c)
      PROVE  Section(c)'
  BY <1>5, <1>7 DEF Begin, PublishDeclaration, PublishStep, CompareAndPublishCursor,
       LoadActiveDeclaration, Enter, IoError, SyncError, Return, TypeOK
<1>8. ASSUME NEW c \in Caller, StoreCall(c)
      PROVE  Section(c)'
  <2>0. /\ JobFacts(job[c])
        /\ CallShape(c)
    BY JobShapes DEF CallsShaped
  <2>1. CASE LockCursor(c)
    BY <2>0, <2>1 DEF LockCursor, Section, InSection, TypeOK, CallShape, Fits, JobFacts
  <2>2. CASE CompareCursor(c)
    <3>1. CASE pc'[c] = "idle"
      BY <1>5, <3>1
    <3>2. CASE Goto(c, "rename") /\ cache[job[c].name] = job[c].expected
      BY <2>0, <2>2, <3>2 DEF CompareCursor, Section, Sections, InSection, TypeOK, Goto,
           store, CallShape, Fits
    <3>. QED  BY <2>2, <3>1, <3>2 DEF CompareCursor, Return, TypeOK
  <2>3. CASE Rename(c)
    <3>1. CASE job[c] \in DeclarationJob
      <4>1. job'[c] = job[c] /\ job[c] \notin CursorJob
        BY <2>0, <2>3, <3>1, JobShapes DEF Rename, Goto, JobFacts
      <4>. QED  BY <1>6, <4>1
    <3>2. CASE job[c] \in CursorJob
      <4>1. InSection(c) /\ lock[job[c].of] = ProcessOf[c]
        BY <2>3, <3>2 DEF Rename, InSection, Sections, Section
      <4>2. job[c].name \in Name /\ Replaced(job[c]) = job[c].name
        BY <2>0, <3>2, NamesAreNames DEF JobFacts, Replaced
      <4>3. cache'[job[c].name] = job[c].bytes /\ lock' = lock /\ job' = job
            /\ pc'[c] = "sync_rename"
        BY <2>3, <4>2 DEF Rename, Goto, TypeOK
      <4>. QED  BY <4>1, <4>3 DEF Section
    <3>. QED  BY <2>0, <2>3, <3>1, <3>2 DEF Rename, CallShape, Fits
  <2>4. CASE SyncRename(c) \/ ReadDeclaration(c) \/ Require(c) \/ SyncLink(c)
               \/ EnsureJournal(c) \/ EnsureSteps(c) \/ SyncNewDirectory(c) \/ ReadRef(c)
    BY <1>5, <2>4 DEF SyncRename, ReadDeclaration, Require, SyncLink, EnsureJournal,
         EnsureSteps, MakeDirectory, SyncNewDirectory, ReadRef, Return, Goto, TypeOK
  <2>5. CASE ReadExisting(c) \/ Link(c) \/ SyncCleanup(c)
    <3>1. job[c] \in DeclarationJob \cup StepJob
      BY <2>0, <2>5 DEF ReadExisting, Link, SyncCleanup, CallShape, Fits
    <3>2. job[c] \notin CursorJob /\ NoJob \notin CursorJob
      BY <2>0, <3>1, JobShapes DEF JobFacts
    <3>3. job'[c] \in {job[c], NoJob}
      BY <2>5 DEF ReadExisting, Link, SyncCleanup, ImmutablePublished, Goto, Return, TypeOK
    <3>. QED  BY <1>6, <3>2, <3>3
  <2>. QED  BY <1>8, <2>1, <2>2, <2>3, <2>4, <2>5 DEF StoreCall
<1>9. ASSUME NEW p \in Process, Crash(p), NEW b \in Caller
      PROVE  Section(b)'
  <2>1. CASE ProcessOf[b] = p
    BY <1>5, <1>9, <2>1 DEF Crash
  <2>2. CASE ProcessOf[b] # p
    <3>1. InSection(b) => lock[job[b].of] = ProcessOf[b] /\ job[b].of \in Declaration
      BY JobShapes DEF Sections, Section, InSection, JobFacts
    <3>. QED  BY <1>3, <1>9, <2>2, <3>1 DEF Crash
  <2>. QED  BY <2>1, <2>2
<1>10. ASSUME UNCHANGED <<pc, job, lock>>, NEW b \in Caller
       PROVE  Section(b)'
  BY <1>3, <1>10
<1>. QED
  <2>1. ASSUME NEW c \in Caller, Begin(c) \/ StoreCall(c) \/ IoError(c) \/ SyncError(c)
        PROVE  Sections'
    BY <1>4, <1>7, <1>8, <2>1 DEF Sections
  <2>. QED  BY <1>9, <1>10, <2>1 DEF Next, Fault, WriteBack, vars, Sections

\* With each caller in a process of its own, every change of a cursor is one
\* compare-and-publish: no update is lost although comparing and renaming are
\* separate system calls and any call may fail or die in between.
THEOREM CursorCompareAndSwap ==
  ASSUME DistinctProcesses
  PROVE  Spec => CursorSwapsAtomically
<1>1. Init => Sections
  BY JobShapes DEF Init, Sections, Section, InSection
<1>2. ASSUME Typed, Sections, [Next]_vars, NEW d \in Declaration,
             cache'[CursorFile(d)] # cache[CursorFile(d)]
      PROVE  \/ PowerLoss
             \/ \E c \in Caller :
                  /\ job[c].op = "cursor"
                  /\ job[c].of = d
                  /\ cache[CursorFile(d)] = job[c].expected
                  /\ cache'[CursorFile(d)] = job[c].bytes
  BY <1>2, CursorStep, JobShapes DEF Sections, Section, InSection, JobFacts
<1>3. Typed /\ Sections /\ [Next]_vars =>
        [\A d \in Declaration :
           cache'[CursorFile(d)] # cache[CursorFile(d)] =>
             \/ PowerLoss
             \/ \E c \in Caller :
                  /\ job[c].op = "cursor"
                  /\ job[c].of = d
                  /\ cache[CursorFile(d)] = job[c].expected
                  /\ cache'[CursorFile(d)] = job[c].bytes]_vars
  BY <1>2
<1>4. Typed /\ Sections /\ [Next]_vars => Sections'
  BY SectionsStep
<1>. QED
  BY <1>1, <1>3, <1>4, AlwaysTyped, PTL DEF Spec, CursorSwapsAtomically

-----------------------------------------------------------------------------
(* What a call has reported done is on stable storage, as long as no call   *)
(* dies or fails between a change of a directory and its synchronization.   *)

NoneLeft == Faults \cap {"crash", "sync"} = {}

\* A cursor that is not synchronized is in the section of the call that renamed it.
CursorPending(d) ==
  \E c \in Caller : job[c] \in CursorJob /\ job[c].of = d /\ pc[c] = "sync_rename"

CursorsSettled ==
  \A d \in Declaration :
    cache[CursorFile(d)] # disk[CursorFile(d)] => CursorPending(d)

\* One caller publishes declarations and steps.
SinglePublisher ==
  \A b, c \in Caller :
    /\ Ops[b] \cap {"declaration", "step"} # {}
    /\ Ops[c] \cap {"declaration", "step"} # {}
    => b = c

Publishing(c) == job[c] \in DeclarationJob \cup StepJob

Allowed == \A c \in Caller : job[c] # NoJob => job[c].op \in Ops[c]

\* The name a call has made and not synchronized.
Syncing(c, n) ==
  \/ pc[c] = "sync_mkdir_journal" /\ n = JournalDir(job[c].of)
  \/ pc[c] = "sync_mkdir_steps" /\ n = StepsDir(job[c].of)
  \/ pc[c] = "sync_link" /\ n = job[c].name

LastingSettled ==
  \A n \in Lasting : cache[n] = disk[n] \/ \E c \in Caller : Syncing(c, n)

LastingBehind == \A n \in Lasting : disk[n] \in {cache[n], Absent}

\* What a publication has found or made on its way.
Standing(c) ==
  Publishing(c) =>
    /\ pc[c] \notin {"mkdir_journal", "require"} => cache[JournalDir(job[c].of)] # Absent
    /\ pc[c] \notin {"mkdir_journal", "require", "sync_mkdir_journal", "mkdir_steps"} =>
         cache[StepsDir(job[c].of)] # Absent
    /\ pc[c] \in {"sync_link", "sync_cleanup", "rename", "sync_rename"} =>
         cache[job[c].name] = job[c].bytes

AckedImmutable == \A a \in acked : a[1] \in Immutable

DurableInv ==
  /\ Allowed /\ LastingSettled /\ LastingBehind /\ AckedImmutable /\ AckedSurvive
  /\ \A c \in Caller : Standing(c)

\* A step puts a name as it is visible on the disk, or leaves it.
LEMMA DiskStep ==
  ASSUME Typed, [Next]_vars, ~PowerLoss
  PROVE  \A n \in Name : disk'[n] \in {disk[n], cache[n]}
<1>1. ASSUME NEW directory, SyncDirectory(directory)
      PROVE  \A n \in Name : disk'[n] \in {disk[n], cache[n]}
  BY <1>1 DEF SyncDirectory
<1>2. ASSUME NEW n \in Name, WriteBack(n)
      PROVE  \A m \in Name : disk'[m] \in {disk[m], cache[m]}
  BY <1>2 DEF WriteBack, Typed, TypeOK
<1>3. ASSUME NEW c \in Caller, StoreCall(c)
      PROVE  UNCHANGED disk \/ \E directory : SyncDirectory(directory)
  BY <1>3 DEF StoreCall, EnsureJournal, EnsureSteps, MakeDirectory,
       SyncNewDirectory, Require, ReadExisting, Link, SyncLink,
       SyncCleanup, LockCursor, CompareCursor, Rename, SyncRename, ReadRef,
       ReadDeclaration, store
<1>4. ASSUME NEW c \in Caller, Begin(c) \/ IoError(c) \/ SyncError(c)
      PROVE  UNCHANGED disk
  BY <1>4 DEF Begin, PublishDeclaration, PublishStep, CompareAndPublishCursor,
       LoadActiveDeclaration, Enter, IoError, SyncError, store
<1>. QED
  BY <1>1, <1>2, <1>3, <1>4 DEF Next, Fault, Crash, vars, store

\* Of the actions of a call that is about to synchronize, only that one moves it,
\* where no call fails.
LEMMA SyncsOnly ==
  ASSUME Typed, NoneLeft, NEW c \in Caller, pc[c] \in SyncPoint,
         Begin(c) \/ StoreCall(c) \/ IoError(c) \/ SyncError(c)
  PROVE  \/ SyncNewDirectory(c) /\ pc[c] \in {"sync_mkdir_journal", "sync_mkdir_steps"}
         \/ SyncLink(c) /\ pc[c] = "sync_link"
         \/ SyncCleanup(c) /\ pc[c] = "sync_cleanup"
         \/ SyncRename(c) /\ pc[c] = "sync_rename"
BY DEF NoneLeft, SyncPoint, Begin, PublishDeclaration, PublishStep,
     CompareAndPublishCursor, LoadActiveDeclaration, Enter, IoError, SyncError,
     StoreCall, EnsureJournal, EnsureSteps, SyncNewDirectory, Require, ReadExisting,
     Link, SyncLink, SyncCleanup, LockCursor, CompareCursor, Rename, SyncRename,
     ReadRef, ReadDeclaration

LEMMA CursorsSettledStep ==
  ASSUME Typed, CursorsSettled, NoneLeft, [Next]_vars
  PROVE  CursorsSettled'
<1>1. CASE PowerLoss
  BY <1>1 DEF PowerLoss, CursorsSettled
<1>2. CASE ~PowerLoss
  <2>. SUFFICES ASSUME NEW d \in Declaration,
                       cache'[CursorFile(d)] # disk'[CursorFile(d)]
                PROVE  CursorPending(d)'
    BY DEF CursorsSettled
  <2>0. CursorFile(d) \in Name
    BY NamesAreNames
  <2>1. CASE cache'[CursorFile(d)] # cache[CursorFile(d)]
    BY <1>2, <2>1, CursorStep DEF CursorPending, InSection
  <2>2. CASE cache'[CursorFile(d)] = cache[CursorFile(d)]
    <3>1. disk'[CursorFile(d)] = disk[CursorFile(d)]
      BY <1>2, <2>0, <2>2, DiskStep
    <3>2. PICK c \in Caller :
            job[c] \in CursorJob /\ job[c].of = d /\ pc[c] = "sync_rename"
      BY <2>2, <3>1 DEF CursorsSettled, CursorPending
    <3>3. Replaced(job[c]) = CursorFile(d)
      BY <3>2, JobShapes DEF JobFacts, Replaced
    <3>4. ASSUME pc'[c] = pc[c], job'[c] = job[c]
          PROVE  CursorPending(d)'
      BY <3>2, <3>4 DEF CursorPending
    <3>5. ASSUME Begin(c) \/ StoreCall(c) \/ IoError(c) \/ SyncError(c)
          PROVE  FALSE
      <4>1. SyncRename(c)
        BY <3>2, <3>5, SyncsOnly DEF SyncPoint
      <4>2. disk'[CursorFile(d)] = cache[CursorFile(d)]
        BY <2>0, <3>3, <4>1 DEF SyncRename, SyncDirectory
      <4>. QED  BY <2>2, <4>2
    <3>6. ASSUME NEW b \in Caller \ {c},
                 Begin(b) \/ StoreCall(b) \/ IoError(b) \/ SyncError(b)
          PROVE  CursorPending(d)'
      BY <3>4, <3>6, OthersStay
    <3>7. ASSUME UNCHANGED <<pc, job>>
          PROVE  CursorPending(d)'
      BY <3>4, <3>7
    <3>. QED
      BY <1>2, <3>5, <3>6, <3>7 DEF Next, Fault, Crash, WriteBack, NoneLeft, vars
  <2>. QED  BY <2>1, <2>2
<1>. QED  BY <1>1, <1>2

\* A compare-and-publish that reports success has its cursor on the disk, also
\* when it found the value already visible, if each caller is a process of its own
\* and none dies or fails to synchronize (compare_and_publish_cursor).
THEOREM CursorsAreDurable ==
  ASSUME DistinctProcesses, NoneLeft
  PROVE  Spec => CursorAckDurable
<1>1. Init => Sections /\ CursorsSettled
  BY JobShapes, NamesAreNames DEF Init, Sections, Section, InSection, CursorsSettled
<1>2. ASSUME Typed, Sections, CursorsSettled, [Next]_vars, NEW c \in Caller,
             job[c].op = "cursor", job'[c] = NoJob, ret'[c] = "ok"
      PROVE  disk'[job[c].name] = job[c].bytes
  <2>1. job[c] \in CursorJob /\ job[c] # NoJob /\ JobFacts(job[c]) /\ CallShape(c)
    BY <1>2, JobShapes DEF Typed, TypeOK, Job, JobFacts, CallsShaped
  <2>2. job[c].name = CursorFile(job[c].of) /\ job[c].of \in Declaration
        /\ job[c].name \in Name /\ Replaced(job[c]) = job[c].name
    BY <2>1, NamesAreNames DEF JobFacts, Replaced
  <2>3. Begin(c) \/ StoreCall(c) \/ IoError(c) \/ SyncError(c)
    <3>1. job' # job /\ ~PowerLoss
      BY <1>2, <2>1 DEF PowerLoss
    <3>2. ASSUME NEW b \in Caller \ {c},
                 Begin(b) \/ StoreCall(b) \/ IoError(b) \/ SyncError(b)
          PROVE  FALSE
      BY <1>2, <2>1, <3>2, OthersStay
    <3>3. ASSUME NEW p \in Process, Crash(p)
          PROVE  FALSE
      BY <3>3 DEF Crash, NoneLeft
    <3>. QED  BY <1>2, <3>1, <3>2, <3>3 DEF Next, Fault, WriteBack, vars
  <2>4. CASE CompareCursor(c)
    <3>1. cache[job[c].name] = job[c].bytes /\ disk' = disk /\ pc[c] = "compare"
      BY <1>2, <2>1, <2>4 DEF CompareCursor, Return, Goto, store, Typed, TypeOK
    <3>2. ~CursorPending(job[c].of)
      BY <1>2, <2>1, <3>1, OneInSection DEF CursorPending, InSection
    <3>. QED  BY <1>2, <2>2, <3>1, <3>2 DEF CursorsSettled
  <2>5. CASE SyncRename(c)
    <3>1. disk'[job[c].name] = cache[job[c].name] /\ pc[c] = "sync_rename"
      BY <2>2, <2>5 DEF SyncRename, SyncDirectory
    <3>. QED  BY <1>2, <2>1, <3>1 DEF Sections, Section, InSection
  <2>6. CASE ~CompareCursor(c) /\ ~SyncRename(c)
    <3>1. pc[c] \in {"require", "lock", "compare", "rename", "sync_rename"}
      <4>1. job[c] \notin DeclarationJob \cup StepJob \cup ActiveJob /\ pc[c] \in PC
        BY <1>2, <2>1 DEF JobFacts, Typed, TypeOK
      <4>. QED  BY <2>1, <4>1 DEF CallShape, Fits, PC
    <3>. QED
      BY <1>2, <2>1, <2>3, <2>6, <3>1
         DEF Begin, PublishDeclaration, PublishStep, CompareAndPublishCursor,
             LoadActiveDeclaration, Enter, IoError, SyncError, StoreCall, EnsureJournal,
             EnsureSteps, SyncNewDirectory, Require, ReadExisting, Link, SyncLink,
             SyncCleanup, LockCursor, Rename, ReadRef, ReadDeclaration, Return, Goto,
             Typed, TypeOK
  <2>. QED  BY <2>4, <2>5, <2>6
<1>3. Typed /\ Sections /\ CursorsSettled /\ [Next]_vars =>
        [\A c \in Caller :
           (job[c].op = "cursor" /\ job'[c] = NoJob /\ ret'[c] = "ok") =>
             disk'[job[c].name] = job[c].bytes]_vars
  BY <1>2
<1>4. Typed /\ Sections /\ CursorsSettled /\ [Next]_vars => Sections' /\ CursorsSettled'
  BY SectionsStep, CursorsSettledStep
<1>. QED
  BY <1>1, <1>3, <1>4, AlwaysTyped, PTL DEF Spec, CursorAckDurable

-----------------------------------------------------------------------------
(* Acknowledged declarations and steps survive a power loss.                *)

LEMMA Places ==
  /\ \A d \in Declaration :
       /\ Parent(JournalDir(d)) = Root
       /\ Parent(StepsDir(d)) = JournalDir(d)
       /\ Containing(JournalDir(d)) = {}
       /\ Containing(StepsDir(d)) = {JournalDir(d)}
       /\ Containing(DeclarationFile(d)) = {JournalDir(d)}
       /\ JournalDir(d) \in Lasting /\ StepsDir(d) \in Lasting
       /\ DeclarationFile(d) \in Lasting
  /\ \A d \in Declaration, s \in Sequence :
       /\ Containing(StepFile(d, s)) = {JournalDir(d), StepsDir(d)}
       /\ StepFile(d, s) \in Lasting
<1>1. \A d \in Declaration :
        /\ Parent(JournalDir(d)) = Root /\ Parent(StepsDir(d)) = JournalDir(d)
        /\ Containing(JournalDir(d)) = {}
        /\ Containing(StepsDir(d)) = {JournalDir(d)}
        /\ Containing(DeclarationFile(d)) = {JournalDir(d)}
  BY DEF Parent, Containing, JournalDir, StepsDir, DeclarationFile
<1>2. \A d \in Declaration, s \in Sequence :
        Containing(StepFile(d, s)) = {JournalDir(d), StepsDir(d)}
  BY DEF Containing, StepFile, JournalDir, StepsDir
<1>3. /\ \A d \in Declaration : /\ JournalDir(d) \in Lasting /\ StepsDir(d) \in Lasting
                                /\ DeclarationFile(d) \in Lasting
      /\ \A d \in Declaration, s \in Sequence : StepFile(d, s) \in Lasting
  BY NamesAreNames DEF Lasting
<1>. QED  BY <1>1, <1>2, <1>3

\* What a publication publishes.
LEMMA Publication ==
  ASSUME Typed, NEW c \in Caller, Publishing(c)
  PROVE  /\ job[c].of \in Declaration /\ job[c].bytes # Absent /\ job[c] # NoJob
         /\ job[c].name \in Lasting \cap Immutable /\ job[c].bytes \in Bytes
         /\ Containing(job[c].name) \subseteq {JournalDir(job[c].of), StepsDir(job[c].of)}
         /\ job[c].op \in {"declaration", "step"}
         /\ job[c] \notin CursorJob \cup ActiveJob
         /\ JournalDir(job[c].of) \in Lasting /\ StepsDir(job[c].of) \in Lasting
<1>1. JobFacts(job[c]) /\ JobFacts(NoJob) /\ job[c] \in DeclarationJob \cup StepJob
  BY JobShapes DEF Publishing
<1>2. /\ job[c].of \in Declaration /\ job[c].op \in {"declaration", "step"}
      /\ job[c].bytes \in Declaration \cup StepValue
      /\ job[c].name \in Lasting \cap Immutable
      /\ Containing(job[c].name) \subseteq {JournalDir(job[c].of), StepsDir(job[c].of)}
  BY <1>1, Places, NamesAreNames DEF JobFacts
<1>. QED  BY <1>1, <1>2, Places DEF JobFacts, Bytes

\* Names that last stay until power is lost.
LEMMA LastingStep ==
  ASSUME Typed, [Next]_vars, ~PowerLoss, NEW n \in Lasting, cache[n] # Absent
  PROVE  cache'[n] = cache[n]
<1>1. n \in Name /\ DOMAIN cache = Name
  BY NamesDiffer DEF Typed, TypeOK
<1>2. ASSUME NEW c \in Caller, pc[c] = "rename",
             CacheEffect(Replaced(job[c]), job[c].bytes)
      PROVE  cache'[n] = cache[n]
  BY <1>1, <1>2, RenameTarget, NamesDiffer DEF CacheEffect, Typed, TypeOK
<1>. QED  BY <1>1, <1>2, OneName DEF CacheEffect, Typed, TypeOK

\* Who runs: one call, or nobody's call changes.
LEMMA WhoRuns ==
  ASSUME [Next]_vars, ~PowerLoss, NoneLeft
  PROVE  \/ \E c \in Caller : Begin(c) \/ StoreCall(c) \/ IoError(c) \/ SyncError(c)
         \/ UNCHANGED <<cache, lock, pc, job, ret, seen, acked>>
BY DEF Next, Fault, Crash, WriteBack, NoneLeft, vars

LEMMA AllowedStep ==
  ASSUME Typed, Allowed, [Next]_vars
  PROVE  Allowed'
<1>1. ASSUME NEW c \in Caller, job'[c] \in {job[c], NoJob}
      PROVE  job'[c] # NoJob => job'[c].op \in Ops[c]
  BY <1>1 DEF Allowed
<1>2. ASSUME NEW c \in Caller, Begin(c) \/ StoreCall(c) \/ IoError(c) \/ SyncError(c)
      PROVE  job'[c] # NoJob => job'[c].op \in Ops[c]
  <2>1. CASE Begin(c)
    BY <2>1 DEF Begin, PublishDeclaration, PublishStep, CompareAndPublishCursor,
         LoadActiveDeclaration, Enter, Typed, TypeOK
  <2>2. CASE StoreCall(c) \/ IoError(c) \/ SyncError(c)
    <3>1. job'[c] \in {job[c], NoJob}
      BY <2>2 DEF StoreCall, IoError, SyncError, EnsureJournal, EnsureSteps,
           MakeDirectory, SyncNewDirectory, Require, ReadExisting, Link, SyncLink,
           SyncCleanup, ImmutablePublished, LockCursor, CompareCursor, Rename,
           SyncRename, ReadRef, ReadDeclaration, Goto, Return, Typed, TypeOK
    <3>. QED  BY <1>1, <3>1
  <2>. QED  BY <1>2, <2>1, <2>2
<1>3. ASSUME NEW c \in Caller, Begin(c) \/ StoreCall(c) \/ IoError(c) \/ SyncError(c),
             NEW b \in Caller
      PROVE  job'[b] # NoJob => job'[b].op \in Ops[b]
  BY <1>1, <1>2, <1>3, OthersStay
<1>4. ASSUME NEW p \in Process, Crash(p), NEW b \in Caller
      PROVE  job'[b] \in {job[b], NoJob}
  BY <1>4 DEF Crash
<1>5. ASSUME PowerLoss, NEW b \in Caller
      PROVE  job'[b] \in {job[b], NoJob}
  BY <1>5 DEF PowerLoss
<1>6. ASSUME UNCHANGED job, NEW b \in Caller
      PROVE  job'[b] \in {job[b], NoJob}
  BY <1>6
<1>. QED
  BY <1>1, <1>3, <1>4, <1>5, <1>6 DEF Allowed, Next, Fault, WriteBack, vars

LEMMA LastingBehindStep ==
  ASSUME Typed, LastingBehind, [Next]_vars
  PROVE  LastingBehind'
<1>1. Lasting \subseteq Name
  BY NamesDiffer
<1>2. CASE PowerLoss
  BY <1>2 DEF PowerLoss, LastingBehind
<1>3. CASE ~PowerLoss
  BY <1>1, <1>3, DiskStep, LastingStep DEF LastingBehind
<1>. QED  BY <1>2, <1>3

\* Who changes a name that lasts is about to synchronize it.
LEMMA MakersSync ==
  ASSUME Typed, NEW c \in Caller, StoreCall(c), NEW n \in Lasting, cache'[n] # cache[n]
  PROVE  Syncing(c, n)'
<1>0. /\ JobFacts(job[c]) /\ CallShape(c) /\ n \in Name
      /\ cache \in [Name -> Bytes \cup {Absent}]
  BY JobShapes, NamesDiffer DEF Typed, TypeOK, CallsShaped
<1>1. CASE EnsureJournal(c)
  <2>1. n = JournalDir(job[c].of) /\ Goto(c, "sync_mkdir_journal")
    BY <1>0, <1>1 DEF EnsureJournal, MakeDirectory
  <2>. QED  BY <2>1, GotoCall DEF Typed, PC, Syncing
<1>2. CASE EnsureSteps(c)
  <2>1. n = StepsDir(job[c].of) /\ Goto(c, "sync_mkdir_steps")
    BY <1>0, <1>2 DEF EnsureSteps, MakeDirectory
  <2>. QED  BY <2>1, GotoCall DEF Typed, PC, Syncing
<1>3. CASE Link(c)
  <2>1. n = job[c].name /\ Goto(c, "sync_link")
    BY <1>0, <1>3 DEF Link
  <2>. QED  BY <2>1, GotoCall DEF Typed, PC, Syncing
<1>4. CASE Rename(c)
  <2>1. pc[c] = "rename" /\ CacheEffect(Replaced(job[c]), job[c].bytes)
    BY <1>4 DEF Rename, CacheEffect
  <2>. QED  BY <1>0, <2>1, RenameTarget, NamesDiffer DEF CacheEffect
<1>5. CASE ~(EnsureJournal(c) \/ EnsureSteps(c) \/ Link(c) \/ Rename(c))
  BY <1>5 DEF StoreCall, SyncNewDirectory, Require, ReadExisting, SyncLink, SyncCleanup,
     LockCursor, CompareCursor, SyncRename, ReadRef, ReadDeclaration, store
<1>. QED  BY <1>1, <1>2, <1>3, <1>4, <1>5

LEMMA LastingSettledStep ==
  ASSUME Typed, LastingSettled, NoneLeft, [Next]_vars
  PROVE  LastingSettled'
<1>1. CASE PowerLoss
  BY <1>1 DEF PowerLoss, LastingSettled
<1>2. CASE ~PowerLoss
  <2>. SUFFICES ASSUME NEW n \in Lasting, cache'[n] # disk'[n]
                PROVE  \E c \in Caller : Syncing(c, n)'
    BY DEF LastingSettled
  <2>0. n \in Name
    BY NamesDiffer
  <2>1. CASE cache'[n] # cache[n]
    <3>1. PICK c \in Caller : Begin(c) \/ StoreCall(c) \/ IoError(c) \/ SyncError(c)
      BY <1>2, <2>1, WhoRuns
    <3>2. StoreCall(c)
      BY <2>1, <3>1 DEF Begin, PublishDeclaration, PublishStep, CompareAndPublishCursor,
         LoadActiveDeclaration, Enter, IoError, SyncError, store
    <3>. QED  BY <2>1, <3>2, MakersSync
  <2>2. CASE cache'[n] = cache[n]
    <3>1. disk'[n] = disk[n] /\ cache[n] # disk[n]
      BY <1>2, <2>0, <2>2, DiskStep
    <3>2. PICK c \in Caller : Syncing(c, n)
      BY <3>1 DEF LastingSettled
    <3>3. ASSUME pc'[c] = pc[c], job'[c] = job[c]
          PROVE  Syncing(c, n)'
      BY <3>2, <3>3 DEF Syncing
    <3>4. ASSUME Begin(c) \/ StoreCall(c) \/ IoError(c) \/ SyncError(c)
          PROVE  FALSE
      <4>1. CallShape(c) /\ JobFacts(job[c])
        BY JobShapes DEF Typed, CallsShaped
      <4>2. \/ /\ pc[c] = "sync_mkdir_journal" /\ SyncNewDirectory(c)
               /\ n = JournalDir(job[c].of) /\ job[c].of \in Declaration
            \/ /\ pc[c] = "sync_mkdir_steps" /\ SyncNewDirectory(c)
               /\ n = StepsDir(job[c].of) /\ job[c].of \in Declaration
            \/ pc[c] = "sync_link" /\ SyncLink(c) /\ n = job[c].name
        BY <3>2, <3>4, <4>1, SyncsOnly DEF Syncing, SyncPoint, CallShape, Fits, JobFacts
      <4>3. SyncDirectory(Parent(n))
        BY <4>2, Places DEF SyncNewDirectory, SyncLink
      <4>4. disk'[n] = cache[n]
        BY <2>0, <4>3 DEF SyncDirectory
      <4>. QED  BY <3>1, <4>4
    <3>5. ASSUME NEW b \in Caller \ {c},
                 Begin(b) \/ StoreCall(b) \/ IoError(b) \/ SyncError(b)
          PROVE  Syncing(c, n)'
      BY <3>3, <3>5, OthersStay
    <3>. QED  BY <1>2, <3>3, <3>4, <3>5, WhoRuns
  <2>. QED  BY <2>1, <2>2
<1>. QED  BY <1>1, <1>2

\* What is standing for a publication that has gone to `point` with the names it
\* found or made.
LEMMA StandingThere ==
  ASSUME NEW c \in Caller, job' = job,
         \/ pc'[c] \in {"mkdir_journal", "require"}
         \/ /\ pc'[c] \in {"sync_mkdir_journal", "mkdir_steps"}
            /\ cache'[JournalDir(job[c].of)] # Absent
         \/ /\ pc'[c] \in {"sync_mkdir_steps", "read", "link"}
            /\ cache'[JournalDir(job[c].of)] # Absent
            /\ cache'[StepsDir(job[c].of)] # Absent
         \/ /\ cache'[JournalDir(job[c].of)] # Absent
            /\ cache'[StepsDir(job[c].of)] # Absent
            /\ cache'[job[c].name] = job[c].bytes
  PROVE  Standing(c)'
BY DEF Standing

LEMMA StandingOwn ==
  ASSUME Typed, NEW c \in Caller, Standing(c), StoreCall(c)
  PROVE  Standing(c)'
<1>0. CallShape(c) /\ [Next]_vars
  BY DEF Typed, CallsShaped, Next
<1>1. CASE job'[c] \notin DeclarationJob \cup StepJob
  BY <1>1 DEF Standing, Publishing
<1>2. CASE job'[c] \in DeclarationJob \cup StepJob
  <2>1. NoJob \notin DeclarationJob \cup StepJob
    BY JobShapes DEF JobFacts
  <2>2. ASSUME NEW code, Return(c, code)
        PROVE  FALSE
    BY <1>2, <2>1, <2>2 DEF Return, Typed, TypeOK
  <2>3. job' = job /\ Publishing(c)
    BY <1>2, <2>2 DEF Publishing, StoreCall, EnsureJournal, EnsureSteps, MakeDirectory,
       SyncNewDirectory, Require, ReadExisting, Link, SyncLink, SyncCleanup,
       ImmutablePublished, LockCursor, CompareCursor, Rename, SyncRename, ReadRef,
       ReadDeclaration, Goto
  <2>4. /\ job[c].of \in Declaration /\ job[c].bytes # Absent
        /\ job[c].name \in Lasting /\ job[c].name \in Name
        /\ JournalDir(job[c].of) \in Lasting /\ StepsDir(job[c].of) \in Lasting
        /\ JournalDir(job[c].of) \in Name /\ StepsDir(job[c].of) \in Name
        /\ job[c] \notin CursorJob \cup ActiveJob
    BY <2>3, Publication, NamesDiffer
  <2>5. \A n \in Lasting : cache[n] # Absent /\ ~PowerLoss => cache'[n] = cache[n]
    BY <1>0, LastingStep
  <2>6. ~PowerLoss
    BY <1>2, <2>1 DEF PowerLoss
  <2>7. cache \in [Name -> Bytes \cup {Absent}]
    BY DEF Typed, TypeOK
  <2>8. CASE EnsureJournal(c)
    <3>1. cache'[JournalDir(job[c].of)] # Absent
      BY <2>4, <2>7, <2>8 DEF EnsureJournal, MakeDirectory
    <3>2. pc'[c] \in {"sync_mkdir_journal", "mkdir_steps"}
      BY <2>8 DEF EnsureJournal, MakeDirectory, Goto, Typed, TypeOK
    <3>. QED  BY <2>3, <3>1, <3>2, StandingThere
  <2>9. CASE EnsureSteps(c)
    <3>1. cache'[StepsDir(job[c].of)] # Absent
      BY <2>4, <2>7, <2>9 DEF EnsureSteps, MakeDirectory
    <3>2. pc[c] = "mkdir_steps" /\ pc'[c] \in {"sync_mkdir_steps", "read"}
      BY <2>9 DEF EnsureSteps, MakeDirectory, Goto, Typed, TypeOK
    <3>3. cache'[JournalDir(job[c].of)] # Absent
      BY <2>3, <2>4, <2>5, <2>6, <3>2 DEF Standing
    <3>. QED  BY <2>3, <3>1, <3>2, <3>3, StandingThere
  <2>10. CASE SyncNewDirectory(c)
    <3>1. cache' = cache /\ \/ pc[c] = "sync_mkdir_journal" /\ pc'[c] = "mkdir_steps"
                            \/ pc[c] = "sync_mkdir_steps" /\ pc'[c] = "read"
      BY <2>10 DEF SyncNewDirectory, Goto, Typed, TypeOK
    <3>. QED  BY <2>3, <3>1, StandingThere DEF Standing
  <2>11. CASE Require(c)
    <3>1. /\ job[c].op = "step"
      BY <1>0, <2>3, <2>4, <2>11, JobShapes
         DEF Require, CallShape, Fits, JobFacts, Publishing
    <3>2. /\ cache' = cache /\ pc'[c] = "read"
          /\ cache[JournalDir(job[c].of)] # Absent /\ cache[StepsDir(job[c].of)] # Absent
      BY <2>2, <2>11, <3>1 DEF Require, Goto, Typed, TypeOK, store
    <3>. QED  BY <2>3, <3>2, StandingThere
  <2>12. CASE ReadExisting(c)
    <3>1. /\ cache' = cache /\ pc[c] = "read"
          /\ \/ pc'[c] = "link"
             \/ pc'[c] = "rename" /\ cache[job[c].name] = job[c].bytes
      BY <2>2, <2>12 DEF ReadExisting, ImmutablePublished, Goto, Typed, TypeOK, store
    <3>. QED  BY <2>3, <3>1, StandingThere DEF Standing
  <2>13. CASE Link(c)
    <3>1. pc[c] = "link" /\ cache'[job[c].name] = job[c].bytes
      BY <2>2, <2>4, <2>7, <2>13 DEF Link
    <3>2. cache'[JournalDir(job[c].of)] # Absent /\ cache'[StepsDir(job[c].of)] # Absent
      BY <2>3, <2>4, <2>5, <2>6, <3>1 DEF Standing
    <3>. QED  BY <2>3, <3>1, <3>2, StandingThere
  <2>14. CASE SyncLink(c) \/ SyncCleanup(c)
    <3>1. cache' = cache /\ pc[c] \in {"sync_link", "sync_cleanup"}
      BY <2>14 DEF SyncLink, SyncCleanup
    <3>. QED  BY <2>3, <3>1, StandingThere DEF Standing
  <2>15. CASE Rename(c)
    <3>1. pc[c] = "rename"
      BY <2>15 DEF Rename
    <3>2. /\ cache[JournalDir(job[c].of)] # Absent /\ cache[StepsDir(job[c].of)] # Absent
          /\ cache[job[c].name] = job[c].bytes
      BY <2>3, <3>1 DEF Standing
    <3>. QED  BY <2>3, <2>4, <2>5, <2>6, <3>2, StandingThere
  <2>16. CASE \/ SyncRename(c) \/ LockCursor(c) \/ CompareCursor(c) \/ ReadRef(c)
              \/ ReadDeclaration(c)
    BY <1>0, <2>2, <2>4, <2>16 DEF SyncRename, LockCursor, CompareCursor, ReadRef,
       ReadDeclaration, CallShape, Fits
  <2>. QED  BY <2>8, <2>9, <2>10, <2>11, <2>12, <2>13, <2>14, <2>15, <2>16 DEF StoreCall
<1>. QED  BY <1>1, <1>2

LEMMA StandingStep ==
  ASSUME Typed, \A c \in Caller : Standing(c), NoneLeft, [Next]_vars, NEW b \in Caller
  PROVE  Standing(b)'
<1>1. NoJob \notin DeclarationJob \cup StepJob
  BY JobShapes DEF JobFacts
<1>2. CASE PowerLoss
  BY <1>1, <1>2 DEF PowerLoss, Standing, Publishing
<1>3. CASE ~PowerLoss
  <2>1. ASSUME pc'[b] = pc[b], job'[b] = job[b]
        PROVE  Standing(b)'
    <3>1. CASE Publishing(b)
      <4>1. /\ JournalDir(job[b].of) \in Lasting /\ StepsDir(job[b].of) \in Lasting
            /\ job[b].name \in Lasting /\ job[b].bytes # Absent
        BY <3>1, Publication
      <4>2. \A n \in Lasting : cache[n] # Absent => cache'[n] = cache[n]
        BY <1>3, LastingStep
      <4>. QED  BY <2>1, <3>1, <4>1, <4>2 DEF Standing
    <3>2. CASE ~Publishing(b)
      BY <2>1, <3>2 DEF Standing, Publishing
    <3>. QED  BY <3>1, <3>2
  <2>2. CASE Begin(b)
    <3>1. \/ pc'[b] \in {"mkdir_journal", "require"}
          \/ job'[b] \in ActiveJob
      BY <2>2 DEF Begin, PublishDeclaration, PublishStep, CompareAndPublishCursor,
         LoadActiveDeclaration, Enter, Typed, TypeOK
    <3>. QED  BY <3>1, JobShapes DEF Standing, Publishing, JobFacts
  <2>3. CASE IoError(b) \/ SyncError(b)
    BY <1>1, <2>3 DEF IoError, SyncError, Return, Standing, Publishing, Typed, TypeOK
  <2>4. CASE StoreCall(b)
    BY <2>4, StandingOwn
  <2>5. ASSUME NEW c \in Caller \ {b},
               Begin(c) \/ StoreCall(c) \/ IoError(c) \/ SyncError(c)
        PROVE  Standing(b)'
    BY <2>1, <2>5, OthersStay
  <2>. QED  BY <1>3, <2>1, <2>2, <2>3, <2>4, <2>5, WhoRuns
<1>. QED  BY <1>2, <1>3

\* A name survives a power loss when it and its directories are on the disk.
LEMMA Survives ==
  ASSUME NEW n \in Immutable, NEW bytes, bytes # Absent
  PROVE  (Survivor[n] = bytes) <=>
           (disk[n] = bytes /\ \A a \in Containing(n) : disk[a] # Absent)
BY NamesDiffer DEF Survivor

LEMMA Directories ==
  ASSUME NEW n \in Immutable
  PROVE  /\ n \in Lasting /\ n \in Name
         /\ \A a \in Containing(n) : /\ a \in Lasting /\ a \in Name
                                     /\ Containing(a) \subseteq Containing(n)
<1>1. n \in Lasting /\ n \in Name
  BY NamesDiffer
<1>2. \/ \E d \in Declaration : n = DeclarationFile(d)
      \/ \E d \in Declaration, s \in Sequence : n = StepFile(d, s)
  BY DEF Immutable
<1>3. \A a \in Containing(n) :
        a \in Lasting /\ Containing(a) \subseteq Containing(n)
  BY <1>2, Places
<1>. QED  BY <1>1, <1>3, NamesDiffer

\* What is on the disk under a name that lasts stays there, and a power loss keeps
\* it when the directories of the name are there too.
LEMMA DiskStays ==
  ASSUME Typed, LastingBehind, [Next]_vars, NEW n \in Lasting, disk[n] # Absent,
         \A a \in Containing(n) : disk[a] # Absent
  PROVE  disk'[n] = disk[n]
<1>1. n \in Name
  BY NamesDiffer
<1>2. CASE PowerLoss
  BY <1>1, <1>2 DEF PowerLoss, Survivor
<1>3. CASE ~PowerLoss
  BY <1>1, <1>3, DiskStep DEF LastingBehind
<1>. QED  BY <1>2, <1>3

LEMMA AckedStay ==
  ASSUME Typed, LastingBehind, AckedImmutable, AckedSurvive, [Next]_vars, NEW a \in acked
  PROVE  Survivor'[a[1]] = a[2]
<1>1. a[1] \in Immutable /\ a[2] \in Bytes /\ a[2] # Absent
  BY DEF AckedImmutable, Typed, TypeOK, Bytes
<1>2. disk[a[1]] = a[2] /\ \A e \in Containing(a[1]) : disk[e] # Absent
  BY <1>1, Survives DEF AckedSurvive
<1>3. disk'[a[1]] = a[2]
  BY <1>1, <1>2, Directories, DiskStays
<1>4. \A e \in Containing(a[1]) : disk'[e] # Absent
  BY <1>1, <1>2, Directories, DiskStays
<1>. QED  BY <1>1, <1>3, <1>4, Directories DEF Survivor

\* While one caller publishes, no other has a directory to synchronize.
LEMMA OnlySyncer ==
  ASSUME Typed, DurableInv, SinglePublisher, NEW c \in Caller, Publishing(c),
         NEW b \in Caller, NEW n, Syncing(b, n)
  PROVE  b = c
<1>1. Publishing(b)
  BY DEF Syncing, Publishing, Typed, CallsShaped, CallShape, Fits
<1>. QED  BY <1>1, Publication DEF DurableInv, Allowed, SinglePublisher

\* The one publisher returns success with what it published, and the directories it
\* is reached through, on the disk.
LEMMA AckIsThere ==
  ASSUME Typed, DurableInv, SinglePublisher, NoneLeft, NEW c \in Caller,
         Publishing(c), StoreCall(c), Return(c, "ok")
  PROVE  /\ disk'[job[c].name] = job[c].bytes
         /\ disk'[JournalDir(job[c].of)] # Absent
         /\ disk'[StepsDir(job[c].of)] # Absent
<1>0. /\ [Next]_vars /\ CallShape(c) /\ Standing(c)
      /\ job'[c] = NoJob /\ pc'[c] = "idle" /\ ret'[c] = "ok"
  BY DEF Typed, TypeOK, CallsShaped, DurableInv, Next, Return
<1>1. ~PowerLoss
  BY <1>0 DEF PowerLoss, Typed, TypeOK
<1>2. /\ job[c].name \in Lasting /\ JournalDir(job[c].of) \in Lasting
      /\ StepsDir(job[c].of) \in Lasting /\ job[c].bytes # Absent
      /\ job[c] # NoJob /\ job[c].op \in {"declaration", "step"}
      /\ job[c] \notin CursorJob \cup ActiveJob
  BY Publication
<1>3. ASSUME NEW b \in Caller, NEW n, Syncing(b, n)
      PROVE  b = c
  BY <1>3, OnlySyncer
<1>4. /\ pc[c] \in {"read", "link", "sync_cleanup", "sync_rename"}
      /\ cache' = cache
      /\ cache[job[c].name] = job[c].bytes
      /\ cache[JournalDir(job[c].of)] # Absent /\ cache[StepsDir(job[c].of)] # Absent
  <2>1. /\ pc[c] \in {"read", "link", "sync_cleanup", "sync_rename"}
        /\ cache' = cache
        /\ pc[c] \in {"read", "link"} => cache[job[c].name] = job[c].bytes
    <3>1. pc[c] # "idle" /\ pc[c] \notin {"lock", "compare", "read_ref", "read_declaration"}
      BY <1>0, <1>2 DEF CallShape, Fits
    <3>2. ASSUME NEW point \in PC \ {"idle"}, Goto(c, point)
          PROVE  FALSE
      BY <1>0, <3>2 DEF Goto, Typed, TypeOK
    <3>3. CASE ReadExisting(c) \/ Link(c)
      <4>1. /\ pc[c] \in {"read", "link"}
            /\ \/ cache' = cache /\ cache[job[c].name] = job[c].bytes
               \/ Goto(c, "link") \/ Goto(c, "sync_link")
               \/ Return(c, "immutable_conflict")
        BY <3>3 DEF ReadExisting, Link, store
      <4>. QED  BY <1>0, <3>2, <4>1 DEF PC, Return, Typed, TypeOK
    <3>4. CASE SyncCleanup(c) \/ SyncRename(c)
      BY <3>4 DEF SyncCleanup, SyncRename
    <3>5. CASE EnsureJournal(c) \/ EnsureSteps(c) \/ SyncNewDirectory(c) \/ SyncLink(c)
               \/ Rename(c)
      <4>1. \E point \in PC \ {"idle"} : Goto(c, point)
        BY <3>5 DEF EnsureJournal, EnsureSteps, MakeDirectory, SyncNewDirectory, SyncLink,
           Rename, PC
      <4>. QED  BY <3>2, <4>1
    <3>6. CASE Require(c)
      <4>1. \/ Goto(c, "read") \/ Goto(c, "lock")
            \/ Return(c, "namespace_open_failed") \/ Return(c, "value_corrupt")
        BY <3>6 DEF Require
      <4>. QED  BY <1>0, <3>2, <4>1 DEF PC, Return, Typed, TypeOK
    <3>7. CASE \/ LockCursor(c) \/ CompareCursor(c) \/ ReadRef(c) \/ ReadDeclaration(c)
      BY <3>1, <3>7 DEF LockCursor, CompareCursor, ReadRef, ReadDeclaration
    <3>. QED  BY <3>3, <3>4, <3>5, <3>6, <3>7 DEF StoreCall
  <2>. QED  BY <1>0, <2>1 DEF Standing
<1>5. \A n \in Lasting : cache[n] = disk[n]
  <2>1. \A n : ~Syncing(c, n)
    BY <1>4 DEF Syncing
  <2>. QED  BY <1>3, <2>1 DEF DurableInv, LastingSettled
<1>. QED
  BY <1>0, <1>1, <1>2, <1>4, <1>5, DiskStep, NamesDiffer

LEMMA AckStep ==
  ASSUME Typed, DurableInv, SinglePublisher, NoneLeft, [Next]_vars
  PROVE  AckedImmutable' /\ AckedSurvive'
<1>. SUFFICES ASSUME NEW a \in acked'
              PROVE  a[1] \in Immutable /\ Survivor'[a[1]] = a[2]
  BY DEF AckedImmutable, AckedSurvive
<1>1. CASE a \in acked
  BY <1>1, AckedStay DEF DurableInv, AckedImmutable
<1>2. CASE a \notin acked
  <2>1. PICK c \in Caller : /\ StoreCall(c) /\ Return(c, "ok") /\ Publishing(c)
                            /\ a = <<job[c].name, job[c].bytes>>
    <3>1. ASSUME NEW c \in Caller, NEW code, Return(c, code)
          PROVE  /\ code = "ok" /\ Publishing(c)
                 /\ a = <<job[c].name, job[c].bytes>>
      <4>1. /\ code = "ok" /\ job[c].op \in {"declaration", "step"}
            /\ a = <<job[c].name, job[c].bytes>>
        BY <1>2, <3>1 DEF Return
      <4>2. job[c] \in Job /\ JobFacts(job[c])
        BY JobShapes DEF Typed, TypeOK
      <4>. QED  BY <4>1, <4>2 DEF Job, JobFacts, Publishing
    <3>2. ASSUME NEW c \in Caller, StoreCall(c)
          PROVE  \E code : Return(c, code)
      BY <1>2, <3>2 DEF StoreCall, EnsureJournal, EnsureSteps, MakeDirectory,
         SyncNewDirectory, Require, ReadExisting, Link, SyncLink, SyncCleanup,
         ImmutablePublished, LockCursor, CompareCursor, Rename, SyncRename, ReadRef,
         ReadDeclaration, Goto
    <3>3. ASSUME NEW c \in Caller, IoError(c) \/ SyncError(c)
          PROVE  FALSE
      <4>1. Return(c, "io_error") \/ Return(c, "directory_sync_failed")
        BY <3>3 DEF IoError, SyncError
      <4>. QED  BY <3>1, <4>1
    <3>4. ASSUME NEW c \in Caller, Begin(c)
          PROVE  FALSE
      BY <1>2, <3>4 DEF Begin, PublishDeclaration, PublishStep, CompareAndPublishCursor,
         LoadActiveDeclaration, Enter
    <3>5. PICK c \in Caller : StoreCall(c)
      BY <1>2, <3>3, <3>4 DEF Next, Fault, Crash, WriteBack, PowerLoss, vars
    <3>. QED  BY <3>1, <3>2, <3>5
  <2>2. /\ disk'[job[c].name] = job[c].bytes
        /\ disk'[JournalDir(job[c].of)] # Absent
        /\ disk'[StepsDir(job[c].of)] # Absent
    BY <2>1, AckIsThere
  <2>3. /\ job[c].name \in Immutable
        /\ Containing(job[c].name) \subseteq {JournalDir(job[c].of), StepsDir(job[c].of)}
    BY <2>1, Publication
  <2>4. Survivor'[job[c].name] = job[c].bytes
    BY <2>2, <2>3, Directories DEF Survivor
  <2>. QED  BY <2>1, <2>3, <2>4
<1>. QED  BY <1>1, <1>2

\* What is visible and what is on the disk agree as far as one publisher, which no
\* fault stops, has come.
LEMMA DurableInvHolds ==
  ASSUME SinglePublisher, NoneLeft
  PROVE  Spec => []DurableInv
<1>1. Init => DurableInv
  <2>1. NoJob \notin DeclarationJob \cup StepJob
    BY JobShapes DEF JobFacts
  <2>. QED
    BY <2>1, NamesDiffer DEF Init, DurableInv, Allowed, LastingSettled, LastingBehind,
       AckedImmutable, AckedSurvive, Standing, Publishing
<1>2. Typed /\ DurableInv /\ [Next]_vars => DurableInv'
  <2>. SUFFICES ASSUME Typed, DurableInv, [Next]_vars
                PROVE  DurableInv'
    OBVIOUS
  <2>1. Allowed' /\ LastingSettled' /\ LastingBehind'
    BY AllowedStep, LastingSettledStep, LastingBehindStep DEF DurableInv
  <2>2. AckedImmutable' /\ AckedSurvive'
    BY AckStep
  <2>3. \A c \in Caller : Standing(c)'
    BY StandingStep DEF DurableInv
  <2>. QED  BY <2>1, <2>2, <2>3 DEF DurableInv
<1>. QED  BY <1>1, <1>2, AlwaysTyped, PTL DEF Spec

\* A declaration or step whose publication reported success survives a power loss,
\* with the directories it is reached through, if one caller publishes them and none
\* dies or fails to synchronize (publish_immutable, ensure_child_directory).
THEOREM AcknowledgedSurvive ==
  ASSUME SinglePublisher, NoneLeft
  PROVE  Spec => []AckedSurvive
<1>1. DurableInv => AckedSurvive
  BY DEF DurableInv
<1>2. Spec => []DurableInv
  BY DurableInvHolds
<1>. QED  BY <1>1, <1>2, PTL

-----------------------------------------------------------------------------
(* Locators and power loss. *)

Stored(d) == disk[DeclarationFile(d)] # Absent /\ disk[JournalDir(d)] # Absent

\* A locator, visible or on the disk, names a declaration that is on the disk.
LocatorsStored ==
  \A r \in Request, content \in {cache, disk} :
    content[ActiveRef(r)] # Absent => Stored(content[ActiveRef(r)])

LEMMA StoredStays ==
  ASSUME Typed, LastingBehind, [Next]_vars, NEW d \in Declaration, Stored(d)
  PROVE  Stored(d)'
<1>1. /\ disk'[JournalDir(d)] = disk[JournalDir(d)]
      /\ disk'[DeclarationFile(d)] = disk[DeclarationFile(d)]
  BY Places, DiskStays DEF Stored
<1>. QED  BY <1>1 DEF Stored

\* A declaration is on the disk when its locator is renamed.
LEMMA RenamedIsStored ==
  ASSUME Typed, DurableInv, SinglePublisher, NEW c \in Caller, pc[c] = "rename",
         job[c] \in DeclarationJob
  PROVE  Stored(job[c].of)
<1>1. Publishing(c) /\ Standing(c)
  BY DEF Publishing, DurableInv
<1>2. /\ job[c].name = DeclarationFile(job[c].of) /\ job[c].bytes # Absent
      /\ job[c].name \in Lasting /\ JournalDir(job[c].of) \in Lasting
  BY <1>1, JobShapes, Publication DEF JobFacts
<1>3. cache[JournalDir(job[c].of)] # Absent /\ cache[job[c].name] = job[c].bytes
  BY <1>1 DEF Standing
<1>4. \A n \in Lasting : cache[n] = disk[n]
  <2>1. \A n : ~Syncing(c, n)
    BY DEF Syncing
  <2>. QED  BY <1>1, <2>1, OnlySyncer DEF DurableInv, LastingSettled
<1>. QED  BY <1>2, <1>3, <1>4 DEF Stored

LEMMA LocatorsStoredStep ==
  ASSUME Typed, DurableInv, SinglePublisher, LocatorsStored, [Next]_vars
  PROVE  LocatorsStored'
<1>. SUFFICES ASSUME NEW r \in Request, NEW content \in {cache', disk'},
                     content[ActiveRef(r)] # Absent
              PROVE  Stored(content[ActiveRef(r)])'
  BY DEF LocatorsStored
<1>. DEFINE n == ActiveRef(r)
            d == content[n]
<1>1. d \in Declaration
  BY TypedStep DEF Typed, ContentTyped
<1>2. n \in Name
  BY NamesAreNames
<1>3. CASE d \in {cache[n], disk[n]}
  <2>1. Stored(d)
    BY <1>3 DEF LocatorsStored
  <2>. QED  BY <1>1, <2>1, StoredStays DEF DurableInv
<1>4. CASE PowerLoss
  <2>1. content[n] = Survivor[n]
    BY <1>4 DEF PowerLoss
  <2>2. d = disk[n]
    BY <1>2, <2>1 DEF Survivor
  <2>. QED  BY <1>3, <2>2
<1>5. CASE content = disk' /\ ~PowerLoss
  BY <1>2, <1>3, <1>5, DiskStep
<1>6. CASE content = cache' /\ ~PowerLoss /\ cache'[n] # cache[n]
  <2>1. PICK c \in Caller : /\ pc[c] = "rename"
                            /\ CacheEffect(Replaced(job[c]), job[c].bytes)
    BY <1>2, <1>6, OneName, NamesDiffer DEF CacheEffect, Typed, TypeOK
  <2>2. /\ Replaced(job[c]) = n /\ cache'[n] = job[c].bytes
    BY <1>2, <1>6, <2>1 DEF CacheEffect, Typed, TypeOK
  <2>3. job[c] \in DeclarationJob /\ job[c].bytes = job[c].of
    BY <2>1, <2>2, RenameTarget, NamesDiffer
  <2>4. Stored(d)
    BY <1>6, <2>1, <2>2, <2>3, RenamedIsStored
  <2>. QED  BY <1>1, <2>4, StoredStays DEF DurableInv
<1>. QED  BY <1>3, <1>4, <1>5, <1>6

\* A locator names a declaration that is there, and one that a power loss leaves
\* names a declaration that it leaves too, if one caller publishes declarations and
\* none dies or fails to synchronize (publish_declaration renames the locator once the
\* declaration is synchronized).
THEOREM LocatorsSurvive ==
  ASSUME SinglePublisher, NoneLeft
  PROVE  Spec => [](LocatorResolves /\ DurableLocatorResolves)
<1>1. Init => LocatorsStored
  BY NamesAreNames DEF Init, LocatorsStored
<1>2. Typed /\ DurableInv /\ LocatorsStored /\ [Next]_vars => LocatorsStored'
  BY LocatorsStoredStep
<1>3. Typed /\ DurableInv /\ LocatorsStored => LocatorResolves /\ DurableLocatorResolves
  <2>. SUFFICES ASSUME Typed, DurableInv, LocatorsStored
                PROVE  LocatorResolves /\ DurableLocatorResolves
    OBVIOUS
  <2>1. \A d \in Declaration : Stored(d) => /\ cache[DeclarationFile(d)] = d
                                            /\ disk[DeclarationFile(d)] = d
    <3>. SUFFICES ASSUME NEW d \in Declaration, Stored(d)
                  PROVE  cache[DeclarationFile(d)] = d /\ disk[DeclarationFile(d)] = d
      OBVIOUS
    <3>1. /\ disk[DeclarationFile(d)] = d
          /\ cache[DeclarationFile(d)] \in {d, Absent}
      BY DEF Typed, ContentTyped, Stored
    <3>2. disk[DeclarationFile(d)] \in {cache[DeclarationFile(d)], Absent}
      BY Places DEF DurableInv, LastingBehind
    <3>. QED  BY <3>1, <3>2 DEF Stored
  <2>2. LocatorResolves
    BY <2>1 DEF LocatorsStored, LocatorResolves, Resolves, Typed, ContentTyped
  <2>3. \A r \in Request : Survivor[ActiveRef(r)] \in {disk[ActiveRef(r)], Absent}
    BY NamesAreNames DEF Survivor
  <2>4. ASSUME NEW d \in Declaration, Stored(d)
        PROVE  Survivor[DeclarationFile(d)] = d
    BY <2>1, <2>4, Places, NamesAreNames DEF Survivor, Stored
  <2>5. DurableLocatorResolves
    BY <2>3, <2>4 DEF LocatorsStored, DurableLocatorResolves, Resolves, Typed,
       ContentTyped
  <2>. QED  BY <2>2, <2>5
<1>4. Spec => []DurableInv
  BY DurableInvHolds
<1>. QED  BY <1>1, <1>2, <1>3, <1>4, AlwaysTyped, PTL DEF Spec

-----------------------------------------------------------------------------
(* While the machine stays up every locator resolves, and with callers in  *)
(* different processes the store implements JournalSpec.                   *)

StaysUp == "power" \notin Faults

-----------------------------------------------------------------------------
(* What a call that is under way has found or made, and what the names say *)
(* of each other.                                                          *)

Linked == {"sync_link", "sync_cleanup", "rename", "sync_rename"}

\* publish_declaration works below the directories it made or found, and goes on
\* to the locator with the declaration in place; a cursor call has found the
\* declaration, a reader of the locator what the locator led to.
Reached(c) ==
  /\ job[c] \in DeclarationJob =>
       /\ pc[c] # "mkdir_journal" => cache[JournalDir(job[c].of)] # Absent
       /\ pc[c] \notin {"mkdir_journal", "sync_mkdir_journal", "mkdir_steps"} =>
            cache[StepsDir(job[c].of)] # Absent
       /\ pc[c] \in Linked => cache[job[c].name] = job[c].bytes
  /\ job[c] \in StepJob /\ pc[c] \in Linked => cache[job[c].name] = job[c].bytes
  /\ job[c] \in CursorJob /\ pc[c] # "require" =>
       cache[DeclarationFile(job[c].of)] # Absent
  /\ pc[c] = "read_declaration" =>
       /\ cache[job[c].name] # Absent
       /\ cache[DeclarationFile(seen[c])] # Absent
       /\ job[c].name = ActiveRef(RequestOf[seen[c]])

\* A declaration is inside its directories, a locator names one that is there.
Inside(content) ==
  /\ \A d \in Declaration :
       content[DeclarationFile(d)] # Absent =>
         content[JournalDir(d)] # Absent /\ content[StepsDir(d)] # Absent
  /\ \A r \in Request :
       content[ActiveRef(r)] # Absent =>
         content[DeclarationFile(content[ActiveRef(r)])] # Absent

Backed == Inside(cache) /\ \A c \in Caller : Reached(c)

\* Nothing that is visible goes away while the machine stays up.
LEMMA Grows ==
  ASSUME StaysUp, Typed, [Next]_vars, NEW n \in Name, cache[n] # Absent
  PROVE  /\ cache'[n] # Absent
         /\ n \in Lasting => cache'[n] = cache[n]
<1>1. cache \in [Name -> Bytes \cup {Absent}] /\ Absent \notin Bytes
  BY DEF Typed, TypeOK, Bytes
<1>2. ~PowerLoss
  BY DEF StaysUp, PowerLoss
<1>3. ASSUME NEW c \in Caller, pc[c] = "rename",
             CacheEffect(Replaced(job[c]), job[c].bytes)
      PROVE  /\ cache'[n] # Absent
             /\ n \in Lasting => cache'[n] = cache[n]
  <2>1. job[c].bytes # Absent
    BY <1>3, RenameTarget, <1>1 DEF Bytes
  <2>2. n \in Lasting => n # Replaced(job[c])
    BY <1>3, RenameTarget, NamesDiffer
  <2> QED BY <1>1, <1>3, <2>1, <2>2 DEF CacheEffect
<1>4. ASSUME NEW m \in Lasting, NEW bytes, cache[m] = Absent, CacheEffect(m, bytes)
      PROVE  cache'[n] = cache[n]
  BY <1>1, <1>4 DEF CacheEffect
<1> QED BY <1>2, <1>3, <1>4, OneName

\* A call that does not move keeps what it reached.
LEMMA ReachedStays ==
  ASSUME StaysUp, Typed, Backed, [Next]_vars, NEW c \in Caller,
         pc'[c] = pc[c], job'[c] = job[c], seen'[c] = seen[c]
  PROVE  Reached(c)'
<1>1. CallShape(c) /\ Reached(c) /\ JobFacts(job[c])
  BY JobShapes DEF Typed, CallsShaped, Backed
<1>2. ASSUME job[c] \in DeclarationJob
      PROVE  /\ cache[JournalDir(job[c].of)] # Absent =>
                  cache'[JournalDir(job[c].of)] # Absent
             /\ cache[StepsDir(job[c].of)] # Absent =>
                  cache'[StepsDir(job[c].of)] # Absent
             /\ cache[job[c].name] = job[c].bytes => cache'[job[c].name] = job[c].bytes
  <2>1. /\ JournalDir(job[c].of) \in Name /\ StepsDir(job[c].of) \in Name
        /\ job[c].name \in Name /\ job[c].name \in Lasting
        /\ job[c].bytes # Absent
    BY <1>1, <1>2, NamesAreNames, NamesDiffer DEF JobFacts
  <2> QED BY <2>1, Grows
<1>3. ASSUME job[c] \in StepJob, cache[job[c].name] = job[c].bytes
      PROVE  cache'[job[c].name] = job[c].bytes
  <2>1. job[c].name \in Name /\ job[c].name \in Lasting /\ job[c].bytes # Absent
    BY <1>1, <1>3, NamesAreNames, NamesDiffer DEF JobFacts
  <2> QED BY <1>3, <2>1, Grows
<1>4. ASSUME job[c] \in CursorJob, cache[DeclarationFile(job[c].of)] # Absent
      PROVE  cache'[DeclarationFile(job[c].of)] # Absent
  BY <1>1, <1>4, NamesAreNames, Grows DEF JobFacts
<1>5. ASSUME pc[c] = "read_declaration"
      PROVE  cache'[job[c].name] # Absent /\ cache'[DeclarationFile(seen[c])] # Absent
  <2>1. job[c].name \in Name /\ DeclarationFile(seen[c]) \in Name
    BY <1>1, <1>5, NamesAreNames DEF CallShape, Fits, JobFacts
  <2> QED BY <1>1, <1>5, <2>1, Grows DEF Reached
<1> QED BY <1>1, <1>2, <1>3, <1>4, <1>5 DEF Reached

\* The names agree after a step if whatever it added to them does.
LEMMA InsideStays ==
  ASSUME StaysUp, Typed, Backed, [Next]_vars,
         \A d \in Declaration :
           cache[DeclarationFile(d)] = Absent /\ cache'[DeclarationFile(d)] # Absent =>
             cache[JournalDir(d)] # Absent /\ cache[StepsDir(d)] # Absent,
         \A r \in Request :
           cache'[ActiveRef(r)] # cache[ActiveRef(r)] =>
             /\ cache'[ActiveRef(r)] \in Declaration
             /\ cache[DeclarationFile(cache'[ActiveRef(r)])] # Absent
  PROVE  Inside(cache)'
<1>1. ASSUME NEW d \in Declaration, cache'[DeclarationFile(d)] # Absent
      PROVE  cache'[JournalDir(d)] # Absent /\ cache'[StepsDir(d)] # Absent
  <2>1. cache[JournalDir(d)] # Absent /\ cache[StepsDir(d)] # Absent
    BY <1>1 DEF Backed, Inside
  <2> QED BY <2>1, NamesAreNames, Grows
<1>2. ASSUME NEW r \in Request, cache'[ActiveRef(r)] # Absent
      PROVE  cache'[DeclarationFile(cache'[ActiveRef(r)])] # Absent
  <2>1. /\ cache'[ActiveRef(r)] \in Declaration
        /\ cache[DeclarationFile(cache'[ActiveRef(r)])] # Absent
    BY <1>2 DEF Backed, Inside, Typed, ContentTyped
  <2> QED BY <2>1, NamesAreNames, Grows
<1> QED BY <1>1, <1>2 DEF Inside

LEMMA InsideStep ==
  ASSUME StaysUp, Typed, Backed, [Next]_vars
  PROVE  Inside(cache)'
<1>1. cache \in [Name -> Bytes \cup {Absent}] /\ Absent \notin Bytes
  BY DEF Typed, TypeOK, Bytes
<1>2. CASE UNCHANGED cache
  BY <1>2, InsideStays
<1>3. ASSUME NEW c \in Caller, EnsureJournal(c) \/ EnsureSteps(c)
      PROVE  Inside(cache)'
  <2>1. /\ \A d, e \in Declaration : DeclarationFile(d) \notin {JournalDir(e), StepsDir(e)}
        /\ \A r \in Request, e \in Declaration :
             ActiveRef(r) \notin {JournalDir(e), StepsDir(e)}
    BY DEF DeclarationFile, JournalDir, StepsDir, ActiveRef
  <2>2. job[c].of \in Declaration
    BY <1>3, JobShapes
       DEF EnsureJournal, EnsureSteps, Typed, CallsShaped, CallShape, Fits, JobFacts
  <2>3. /\ \A d \in Declaration : cache'[DeclarationFile(d)] = cache[DeclarationFile(d)]
        /\ \A r \in Request : cache'[ActiveRef(r)] = cache[ActiveRef(r)]
    BY <1>1, <1>3, <2>1, <2>2, NamesAreNames DEF EnsureJournal, EnsureSteps, MakeDirectory
  <2> QED BY <2>3, InsideStays
<1>4. ASSUME NEW c \in Caller, Link(c)
      PROVE  Inside(cache)'
  <2>1. /\ job[c] \in DeclarationJob \cup StepJob
        /\ JobFacts(job[c]) /\ Reached(c) /\ pc[c] = "link"
    BY <1>4, JobShapes DEF Link, Backed, Typed, CallsShaped, CallShape, Fits
  <2>2. \A n \in Name : cache'[n] # cache[n] => n = job[c].name
    BY <1>1, <1>4 DEF Link
  <2>3. \A r \in Request : cache'[ActiveRef(r)] = cache[ActiveRef(r)]
    BY <2>1, <2>2, NamesAreNames, NamesDiffer DEF JobFacts
  <2>4. ASSUME NEW d \in Declaration,
               cache[DeclarationFile(d)] = Absent, cache'[DeclarationFile(d)] # Absent
        PROVE  cache[JournalDir(d)] # Absent /\ cache[StepsDir(d)] # Absent
    <3>1. DeclarationFile(d) = job[c].name
      BY <2>2, <2>4, NamesAreNames
    <3>2. job[c] \in DeclarationJob /\ d = job[c].of
      BY <2>1, <3>1, NamesDiffer DEF JobFacts, DeclarationFile, StepFile
    <3> QED BY <2>1, <3>2 DEF Reached
  <2> QED BY <2>3, <2>4, InsideStays
<1>5. ASSUME NEW c \in Caller, Rename(c)
      PROVE  Inside(cache)'
  <2>1. /\ pc[c] = "rename" /\ Reached(c) /\ JobFacts(job[c])
        /\ \A n \in Name : cache'[n] = IF n = Replaced(job[c]) THEN job[c].bytes ELSE cache[n]
    BY <1>1, <1>5, JobShapes DEF Rename, Backed
  <2>2. \A d \in Declaration : cache'[DeclarationFile(d)] = cache[DeclarationFile(d)]
    BY <2>1, RenameTarget, NamesAreNames, NamesDiffer
  <2>3. CASE job[c] \in CursorJob
    <3>1. \A r \in Request : cache'[ActiveRef(r)] = cache[ActiveRef(r)]
      BY <2>1, <2>3, NamesAreNames, NamesDiffer DEF JobFacts, Replaced
    <3> QED BY <2>2, <3>1, InsideStays
  <2>4. CASE job[c] \in DeclarationJob
    <3>1. /\ job[c].bytes \in Declaration
          /\ cache[DeclarationFile(job[c].bytes)] # Absent
      BY <2>1, <2>4 DEF Reached, Linked, JobFacts
    <3>2. \A r \in Request :
            cache'[ActiveRef(r)] # cache[ActiveRef(r)] => cache'[ActiveRef(r)] = job[c].bytes
      BY <2>1, NamesAreNames
    <3> QED BY <2>2, <3>1, <3>2, InsideStays
  <2> QED BY <2>1, <2>3, <2>4, RenameTarget DEF Typed
<1>6. ASSUME NEW c \in Caller, StoreCall(c)
      PROVE  UNCHANGED cache \/ EnsureJournal(c) \/ EnsureSteps(c) \/ Link(c) \/ Rename(c)
  BY <1>6 DEF StoreCall, SyncNewDirectory, Require, ReadExisting, SyncLink, SyncCleanup,
       LockCursor, CompareCursor, SyncRename, ReadRef, ReadDeclaration, store
<1>7. ASSUME NEW c \in Caller, Begin(c) \/ IoError(c) \/ SyncError(c)
      PROVE  UNCHANGED cache
  BY <1>7 DEF Begin, PublishDeclaration, PublishStep, CompareAndPublishCursor,
       LoadActiveDeclaration, Enter, IoError, SyncError, store
<1>8. ~PowerLoss
  BY DEF StaysUp, PowerLoss
<1> QED
  BY <1>2, <1>3, <1>4, <1>5, <1>6, <1>7, <1>8 DEF Next, Fault, Crash, WriteBack, vars, store

\* What the call that moves has reached.
LEMMA ReachedStep ==
  ASSUME StaysUp, Typed, Backed, [Next]_vars, NEW c \in Caller,
         Begin(c) \/ StoreCall(c) \/ IoError(c) \/ SyncError(c)
  PROVE  Reached(c)'
<1> USE DEF Typed
<1>1. /\ CallShape(c) /\ Reached(c) /\ JobFacts(job[c])
      /\ cache \in [Name -> Bytes \cup {Absent}] /\ Absent \notin Bytes
  BY JobShapes DEF CallsShaped, Backed, TypeOK, Bytes
<1>2. ASSUME pc'[c] = "idle", job'[c] = NoJob
      PROVE  Reached(c)'
  <2>1. NoJob \notin DeclarationJob \cup StepJob \cup CursorJob
    BY JobShapes DEF JobFacts
  <2> QED BY <1>2, <2>1 DEF Reached
<1>3. ASSUME NEW code \in Code, Return(c, code)
      PROVE  Reached(c)'
  BY <1>2, <1>3, ReturnCall
<1>4. CASE Begin(c)
  <2>1. \/ pc'[c] = "mkdir_journal" /\ job'[c] \in DeclarationJob
        \/ pc'[c] = "require" /\ job'[c] \in StepJob \cup CursorJob
        \/ pc'[c] = "read_ref" /\ job'[c] \in ActiveJob
    BY <1>4 DEF Begin, PublishDeclaration, PublishStep, CompareAndPublishCursor,
         LoadActiveDeclaration, Enter, TypeOK
  <2> QED BY <2>1, JobShapes DEF Reached, Linked, JobFacts
<1>5. CASE IoError(c) \/ SyncError(c)
  BY <1>3, <1>5 DEF IoError, SyncError, Code
<1>6. CASE StoreCall(c)
  <2>1. CASE EnsureJournal(c)
    <3>1. job[c] \in DeclarationJob /\ job'[c] = job[c]
      BY <1>1, <2>1 DEF EnsureJournal, MakeDirectory, Goto, CallShape, Fits
    <3>2. /\ pc'[c] \in {"sync_mkdir_journal", "mkdir_steps"}
          /\ cache'[JournalDir(job[c].of)] # Absent
      BY <1>1, <2>1, <3>1, NamesAreNames
         DEF EnsureJournal, MakeDirectory, Goto, TypeOK, JobFacts, Bytes
    <3> QED BY <1>1, <3>1, <3>2, JobShapes DEF Reached, Linked, JobFacts
  <2>2. CASE EnsureSteps(c)
    <3>1. job[c] \in DeclarationJob /\ job'[c] = job[c] /\ pc[c] = "mkdir_steps"
      BY <1>1, <2>2 DEF EnsureSteps, MakeDirectory, Goto, CallShape, Fits
    <3>2. /\ pc'[c] \in {"sync_mkdir_steps", "read"}
          /\ cache'[StepsDir(job[c].of)] # Absent
      BY <1>1, <2>2, <3>1, NamesAreNames
         DEF EnsureSteps, MakeDirectory, Goto, TypeOK, JobFacts, Bytes
    <3>3. cache'[JournalDir(job[c].of)] # Absent
      BY <1>1, <3>1, NamesAreNames, Grows DEF Reached, JobFacts
    <3> QED BY <1>1, <3>1, <3>2, <3>3, JobShapes DEF Reached, Linked, JobFacts
  <2>3. CASE SyncNewDirectory(c)
    <3>1. /\ job[c] \in DeclarationJob /\ job'[c] = job[c] /\ cache' = cache
          /\ \/ pc[c] = "sync_mkdir_journal" /\ pc'[c] = "mkdir_steps"
             \/ pc[c] = "sync_mkdir_steps" /\ pc'[c] = "read"
      BY <1>1, <2>3 DEF SyncNewDirectory, Goto, TypeOK, CallShape, Fits
    <3> QED BY <1>1, <3>1, JobShapes DEF Reached, Linked, JobFacts
  <2>4. CASE Require(c)
    <3>1. CASE \E code \in Code : Return(c, code)
      BY <1>3, <3>1
    <3>2. CASE /\ cache[DeclarationFile(job[c].of)] # Absent
               /\ Goto(c, IF job[c].op = "step" THEN "read" ELSE "lock")
      <4>1. /\ job[c] \in StepJob \cup CursorJob /\ job'[c] = job[c] /\ cache' = cache
            /\ pc'[c] = IF job[c].op = "step" THEN "read" ELSE "lock"
        BY <1>1, <2>4, <3>2 DEF Require, Goto, TypeOK, CallShape, Fits, store
      <4> QED BY <1>1, <3>2, <4>1, JobShapes DEF Reached, Linked, JobFacts
    <3> QED BY <2>4, <3>1, <3>2 DEF Require, Code
  <2>5. CASE ReadExisting(c) \/ Link(c) \/ SyncLink(c) \/ SyncCleanup(c)
    <3>1. CASE \E code \in Code : Return(c, code)
      BY <1>3, <3>1
    <3>2. CASE \E point \in {"link", "sync_link", "sync_cleanup", "rename"} : Goto(c, point)
      <4>1. /\ job[c] \in DeclarationJob \cup StepJob /\ job'[c] = job[c]
            /\ pc[c] \in {"read", "link", "sync_link", "sync_cleanup"}
            /\ pc'[c] \in {"link", "sync_link", "sync_cleanup", "rename"}
            /\ job[c].name \in Name /\ job[c].bytes # Absent /\ job[c].name \in Lasting
        BY <1>1, <2>5, <3>2, NamesAreNames, NamesDiffer
           DEF ReadExisting, Link, SyncLink, SyncCleanup, Goto, TypeOK, CallShape, Fits, JobFacts
      <4>2. pc'[c] \in Linked => cache'[job[c].name] = job[c].bytes
        BY <1>1, <2>5, <3>2, <4>1, JobShapes
           DEF ReadExisting, Link, SyncLink, SyncCleanup, ImmutablePublished, Goto, Return,
               TypeOK, Reached, Linked, store
      <4>3. job[c] \in DeclarationJob => /\ cache'[JournalDir(job[c].of)] # Absent
                                         /\ cache'[StepsDir(job[c].of)] # Absent
        BY <1>1, <4>1, NamesAreNames, Grows DEF Reached, JobFacts
      <4> QED BY <1>1, <4>1, <4>2, <4>3, JobShapes DEF Reached, JobFacts
    <3> QED
      BY <2>5, <3>1, <3>2
         DEF ReadExisting, Link, SyncLink, SyncCleanup, ImmutablePublished, Code
  <2>6. CASE LockCursor(c)
    <3>1. /\ job[c] \in CursorJob /\ job'[c] = job[c] /\ cache' = cache
          /\ pc[c] = "lock" /\ pc'[c] = "compare"
      BY <1>1, <2>6 DEF LockCursor, TypeOK, CallShape, Fits, store
    <3> QED BY <1>1, <3>1, JobShapes DEF Reached, JobFacts
  <2>7. CASE CompareCursor(c)
    <3>1. CASE \E code \in Code : Return(c, code)
      BY <1>3, <3>1
    <3>2. CASE Goto(c, "rename")
      <4>1. /\ job[c] \in CursorJob /\ job'[c] = job[c] /\ cache' = cache
            /\ pc[c] = "compare" /\ pc'[c] = "rename"
        BY <1>1, <2>7, <3>2 DEF CompareCursor, Goto, TypeOK, CallShape, Fits, store
      <4> QED BY <1>1, <4>1, JobShapes DEF Reached, JobFacts
    <3> QED BY <2>7, <3>1, <3>2 DEF CompareCursor, Code
  <2>8. CASE Rename(c)
    <3>1. /\ pc[c] = "rename" /\ pc'[c] = "sync_rename" /\ job'[c] = job[c]
          /\ job[c] \in DeclarationJob \cup CursorJob
      BY <1>1, <2>8 DEF Rename, Goto, TypeOK, CallShape, Fits
    <3>2. CASE job[c] \in DeclarationJob
      <4>1. /\ JournalDir(job[c].of) \in Name /\ StepsDir(job[c].of) \in Name
            /\ job[c].name \in Name /\ job[c].name \in Lasting /\ job[c].bytes # Absent
        BY <1>1, <3>2, NamesAreNames, NamesDiffer DEF JobFacts
      <4> QED BY <1>1, <3>1, <3>2, <4>1, Grows, JobShapes DEF Reached, Linked, JobFacts
    <3>3. CASE job[c] \in CursorJob
      BY <1>1, <3>1, <3>3, NamesAreNames, Grows, JobShapes DEF Reached, JobFacts
    <3> QED BY <3>1, <3>2, <3>3
  <2>9. CASE SyncRename(c) \/ ReadDeclaration(c)
    BY <1>3, <2>9 DEF SyncRename, ReadDeclaration, Code
  <2>10. CASE ReadRef(c)
    <3>1. CASE cache[job[c].name] = Absent
      BY <1>3, <2>10, <3>1 DEF ReadRef, Code
    <3>2. CASE cache[job[c].name] # Absent
      <4>1. /\ job[c] \in ActiveJob /\ job'[c] = job[c] /\ cache' = cache
            /\ seen'[c] = cache[job[c].name]
        BY <1>1, <2>10, <3>2 DEF ReadRef, TypeOK, CallShape, Fits, store
      <4>2. PICK r \in Request : job[c].name = ActiveRef(r)
        BY <1>1, <4>1 DEF JobFacts
      <4>3. /\ cache[DeclarationFile(cache[ActiveRef(r)])] # Absent
            /\ RequestOf[cache[ActiveRef(r)]] = r
        BY <3>2, <4>2 DEF Backed, Inside, ContentTyped
      <4> QED BY <3>2, <4>1, <4>2, <4>3, <1>1, JobShapes DEF Reached, JobFacts
    <3> QED BY <3>1, <3>2
  <2> QED
    BY <1>6, <2>1, <2>2, <2>3, <2>4, <2>5, <2>6, <2>7, <2>8, <2>9, <2>10 DEF StoreCall
<1> QED BY <1>4, <1>5, <1>6

LEMMA BackedStep ==
  ASSUME StaysUp, Typed, Backed, [Next]_vars
  PROVE  Backed'
<1>1. Inside(cache)'
  BY InsideStep
<1>2. ASSUME NEW c \in Caller, Begin(c) \/ StoreCall(c) \/ IoError(c) \/ SyncError(c),
             NEW b \in Caller
      PROVE  Reached(b)'
  BY <1>2, ReachedStep, ReachedStays, OthersStay
<1>3. ASSUME NEW p \in Process, Crash(p), NEW b \in Caller
      PROVE  Reached(b)'
  <2>1. CASE ProcessOf[b] = p
    <3>1. pc'[b] = "idle" /\ job'[b] = NoJob
      BY <1>3, <2>1 DEF Crash
    <3> QED BY <3>1, JobShapes DEF Reached, JobFacts
  <2>2. CASE ProcessOf[b] # p
    BY <1>3, <2>2, ReachedStays DEF Crash
  <2> QED BY <2>1, <2>2
<1>4. ASSUME UNCHANGED <<pc, job, seen>>, NEW b \in Caller
      PROVE  Reached(b)'
  BY <1>4, ReachedStays
<1>5. ~PowerLoss
  BY DEF StaysUp, PowerLoss
<1> QED BY <1>1, <1>2, <1>3, <1>4, <1>5 DEF Next, Fault, WriteBack, vars, Backed

LEMMA InitBacked == Init => Backed
BY NamesAreNames, JobShapes DEF Init, Backed, Inside, Reached, JobFacts

\* While the machine stays up a locator always names a declaration of its request
\* that is there, in whatever order publishers race, fail and die.
THEOREM LocatorAlwaysResolves ==
  ASSUME StaysUp
  PROVE  Spec => []LocatorResolves
<1>1. Typed /\ Backed => LocatorResolves
  BY DEF Typed, ContentTyped, Backed, Inside, LocatorResolves, Resolves
<1>2. Typed /\ Backed /\ [Next]_vars => Backed'
  BY BackedStep
<1> QED BY <1>1, <1>2, InitBacked, AlwaysTyped, PTL DEF Spec

-----------------------------------------------------------------------------
(* The store implements JournalSpec.                                       *)

\* JournalSpec has the names, contents and calls of the store.
LEMMA SpineTypes ==
  /\ Spine!ValueName = {m \in Name : m[1] \notin {"journal", "steps"}}
  /\ Spine!DeclarationJob = DeclarationJob
  /\ Spine!StepJob = StepJob
  /\ Spine!CursorJob = CursorJob
  /\ Spine!Job = Job
  /\ Spine!NoJob = NoJob
  /\ Spine!Code = Code
  /\ \A d : Spine!DeclarationFile(d) = DeclarationFile(d)
  /\ \A r : Spine!ActiveRef(r) = ActiveRef(r)
<1>1. /\ \A d : /\ Spine!DeclarationFile(d) = DeclarationFile(d)
              /\ Spine!CursorFile(d) = CursorFile(d)
              /\ Spine!JournalDir(d) = JournalDir(d)
              /\ Spine!StepsDir(d) = StepsDir(d)
      /\ \A d, s : Spine!StepFile(d, s) = StepFile(d, s)
      /\ \A r : Spine!ActiveRef(r) = ActiveRef(r)
      /\ Spine!Root = Root
  BY DEF Spine!DeclarationFile, Spine!CursorFile, Spine!JournalDir, Spine!StepsDir,
         Spine!StepFile, Spine!ActiveRef, Spine!Root, DeclarationFile, CursorFile,
         JournalDir, StepsDir, StepFile, ActiveRef, Root
<1>2. Spine!Name = Name
  BY <1>1 DEF Spine!Name, Name, Spine!Immutable, Immutable
<1>3. /\ Spine!DeclarationJob = DeclarationJob
      /\ Spine!StepJob = StepJob
      /\ Spine!CursorJob = CursorJob
      /\ Spine!ActiveJob = ActiveJob
      /\ Spine!NoJob = NoJob
  BY <1>1 DEF Spine!DeclarationJob, Spine!StepJob, Spine!CursorJob, Spine!ActiveJob,
              Spine!NoJob, DeclarationJob, StepJob, CursorJob, ActiveJob, NoJob
<1>4. Spine!Job = Job /\ Spine!Code = Code
  BY <1>3 DEF Spine!Job, Job, Spine!Code, Code
<1>5. \A n \in Name :
        n[1] \in {"journal", "steps"} <=>
          n \in {JournalDir(d) : d \in Declaration} \cup {StepsDir(d) : d \in Declaration}
  BY DEF Name, Immutable, JournalDir, StepsDir, DeclarationFile, CursorFile, StepFile,
         ActiveRef
<1>6. Spine!ValueName = {m \in Name : m[1] \notin {"journal", "steps"}}
  BY <1>1, <1>2, <1>5 DEF Spine!ValueName
<1> QED BY <1>1, <1>3, <1>4, <1>6

\* What JournalSpec calls retained.
Visible == [n \in {m \in Name : m[1] \notin {"journal", "steps"}} |-> cache[n]]

LEMMA VisibleNames ==
  /\ DOMAIN Visible \subseteq Name
  /\ \A n \in DOMAIN Visible : Visible[n] = cache[n]
  /\ \A d \in Declaration : /\ DeclarationFile(d) \in DOMAIN Visible
                            /\ CursorFile(d) \in DOMAIN Visible
                            /\ JournalDir(d) \notin DOMAIN Visible
                            /\ StepsDir(d) \notin DOMAIN Visible
  /\ \A d \in Declaration, s \in Sequence : StepFile(d, s) \in DOMAIN Visible
  /\ \A r \in Request : ActiveRef(r) \in DOMAIN Visible
BY NamesAreNames DEF Visible, DeclarationFile, CursorFile, JournalDir, StepsDir, StepFile, ActiveRef

\* A call's name is one that JournalSpec knows.
LEMMA JobVisible ==
  ASSUME NEW j \in Job, j # NoJob
  PROVE  j.name \in DOMAIN Visible
BY VisibleNames, JobShapes DEF Job, JobFacts

\* A call that moves on and changes no value is a stutter.
LEMMA QuietMaps ==
  ASSUME UNCHANGED <<cache, job, ret>>
  PROVE  UNCHANGED Spine!vars
BY DEF Spine!vars

\* A change of one visible name is a change of one retained name.
LEMMA RetainMaps ==
  ASSUME Typed, NEW n \in DOMAIN Visible, NEW bytes, CacheEffect(n, bytes)
  PROVE  Visible' = [Visible EXCEPT ![n] = bytes]
BY DEF Visible, CacheEffect, Typed, TypeOK

\* A return whose code says the truth ends the call.
LEMMA ReturnMaps ==
  ASSUME Typed, NEW c \in Caller, NEW code \in Code, job[c] # NoJob,
         Return(c, code), UNCHANGED cache, Spine!Truthful(job[c], code)
  PROVE  Spine!End(c)
<1>1. /\ job' = [job EXCEPT ![c] = NoJob]
      /\ ret' = [ret EXCEPT ![c] = code]
  BY DEF Return
<1> QED BY <1>1, SpineTypes DEF Spine!End

\* The truth in terms of what processes see.
LEMMA TruthMaps ==
  ASSUME NEW j \in Job, j # NoJob, NEW code \in Code,
         \/ /\ code = "ok"
            /\ j.op # "active" => cache[j.name] = j.bytes
            /\ j.op = "active" => cache[j.name] # Absent
         \/ code = "absent" /\ cache[j.name] = Absent
         \/ /\ code = "immutable_conflict"
            /\ j.op \in {"declaration", "step"}
            /\ cache[j.name] \notin {Absent, j.bytes}
         \/ /\ code = "cursor_conflict"
            /\ j.op = "cursor"
            /\ cache[j.name] \notin {j.bytes, j.expected}
         \/ /\ code \in {"namespace_open_failed", "value_corrupt"}
            /\ j.op \in {"step", "cursor"}
            /\ cache[DeclarationFile(j.of)] = Absent
         \/ code \in {"io_error", "directory_sync_failed"}
  PROVE  Spine!Truthful(j, code)
<1>1. Visible[j.name] = cache[j.name]
  BY JobVisible, VisibleNames
<1>2. j.op \in {"step", "cursor"} =>
        Visible[DeclarationFile(j.of)] = cache[DeclarationFile(j.of)]
  BY VisibleNames, JobShapes DEF Job, JobFacts
<1> QED BY <1>1, <1>2, SpineTypes DEF Spine!Truthful, Visible

\* A directory is nothing JournalSpec knows.
LEMMA DirectoryMaps ==
  ASSUME Typed, NEW c \in Caller, EnsureJournal(c) \/ EnsureSteps(c)
  PROVE  UNCHANGED Spine!vars
<1>1. job[c].of \in Declaration /\ UNCHANGED <<job, ret>>
  BY JobShapes
     DEF EnsureJournal, EnsureSteps, MakeDirectory, Goto, Typed, CallsShaped, CallShape,
         Fits, JobFacts
<1>2. \A n \in DOMAIN Visible : cache'[n] = cache[n]
  BY <1>1, VisibleNames
     DEF EnsureJournal, EnsureSteps, MakeDirectory, Typed, TypeOK
<1>3. Visible' = Visible
  BY <1>2 DEF Visible
<1> QED BY <1>1, <1>3 DEF Spine!vars, Visible

\* Each system call of a store is one promised step or none.
LEMMA StoreCallMaps ==
  ASSUME StaysUp, Typed, Sections, Backed, NEW c \in Caller, StoreCall(c)
  PROVE  [Spine!Next]_(Spine!vars)
<1> DEFINE j == job[c]
           Promised == [Spine!Next]_(Spine!vars)
<1> USE DEF Typed
<1>1. /\ CallShape(c) /\ Reached(c) /\ Section(c) /\ JobFacts(j)
      /\ j \in Job /\ j # NoJob
      /\ cache \in [Name -> Bytes \cup {Absent}] /\ Absent \notin Bytes
  BY JobShapes DEF CallsShaped, CallShape, Fits, Backed, Sections, TypeOK, Bytes,
       StoreCall, EnsureJournal, EnsureSteps, SyncNewDirectory, Require, ReadExisting,
       Link, SyncLink, SyncCleanup, LockCursor, CompareCursor, Rename, SyncRename,
       ReadRef, ReadDeclaration
<1>2. ASSUME NEW code \in Code, Return(c, code), UNCHANGED cache,
             Spine!Truthful(j, code)
      PROVE  Promised
  BY <1>1, <1>2, ReturnMaps DEF Spine!Next
<1>3. ASSUME NEW point, Goto(c, point), UNCHANGED cache
      PROVE  Promised
  BY <1>3, QuietMaps DEF Goto
<1>4. CASE EnsureJournal(c) \/ EnsureSteps(c)
  BY <1>4, DirectoryMaps
<1>5. CASE SyncNewDirectory(c) \/ SyncLink(c)
  BY <1>3, <1>5 DEF SyncNewDirectory, SyncLink
<1>6. CASE LockCursor(c)
  BY <1>6, QuietMaps DEF LockCursor, store
<1>7. CASE Require(c)
  <2>1. j \in StepJob \cup CursorJob /\ UNCHANGED cache
    BY <1>1, <1>7 DEF Require, CallShape, Fits, store
  <2>2. ASSUME NEW code \in {"namespace_open_failed", "value_corrupt"}, Return(c, code)
        PROVE  Promised
    <3>1. cache[DeclarationFile(j.of)] = Absent
      <4>1. \/ cache[JournalDir(j.of)] = Absent
            \/ cache[DeclarationFile(j.of)] = Absent
            \/ cache[StepsDir(j.of)] = Absent
        <5>1. pc'[c] = "idle"
          BY <2>2, ReturnCall DEF Code
        <5>2. ~Goto(c, IF j.op = "step" THEN "read" ELSE "lock")
          BY <5>1, GotoCall DEF PC
        <5> QED BY <1>7, <5>2 DEF Require
      <4> QED BY <1>1, <2>1, <4>1 DEF Backed, Inside, JobFacts
    <3>2. Spine!Truthful(j, code)
      BY <1>1, <2>1, <3>1, TruthMaps DEF JobFacts, Code
    <3> QED BY <1>2, <2>1, <2>2, <3>2 DEF Code
  <2>3. CASE \E point \in PC : Goto(c, point)
    BY <1>3, <2>1, <2>3
  <2> QED BY <1>7, <2>2, <2>3 DEF Require, PC
<1>8. ASSUME ImmutablePublished(c), UNCHANGED cache, cache[j.name] = j.bytes,
             j \in DeclarationJob \cup StepJob
      PROVE  Promised
  <2>1. Spine!Truthful(j, "ok")
    BY <1>1, <1>8, TruthMaps DEF JobFacts, Code
  <2> QED BY <1>2, <1>3, <1>8, <2>1 DEF ImmutablePublished, Code
<1>9. CASE ReadExisting(c) \/ Link(c)
  <2>1. j \in DeclarationJob \cup StepJob
    BY <1>1, <1>9 DEF ReadExisting, Link, CallShape, Fits
  <2>2. CASE cache[j.name] = j.bytes
    <3>1. ImmutablePublished(c) /\ UNCHANGED cache
      BY <1>1, <1>9, <2>1, <2>2 DEF ReadExisting, Link, store, JobFacts
    <3> QED BY <1>8, <2>1, <2>2, <3>1
  <2>3. CASE cache[j.name] \notin {Absent, j.bytes}
    <3>1. Return(c, "immutable_conflict") /\ UNCHANGED cache
      BY <1>9, <2>3 DEF ReadExisting, Link, store
    <3>2. Spine!Truthful(j, "immutable_conflict")
      BY <1>1, <2>1, <2>3, TruthMaps DEF JobFacts, Code
    <3> QED BY <1>2, <3>1, <3>2 DEF Code
  <2>4. CASE cache[j.name] = Absent /\ ReadExisting(c)
    BY <1>1, <1>3, <2>1, <2>4 DEF ReadExisting, store, JobFacts
  <2>5. CASE cache[j.name] = Absent /\ Link(c)
    <3>1. CacheEffect(j.name, j.bytes) /\ UNCHANGED <<job, ret>>
      BY <1>1, <2>1, <2>5 DEF Link, Goto, CacheEffect, JobFacts
    <3>2. Visible' = [Visible EXCEPT ![j.name] = j.bytes]
      BY <1>1, <3>1, JobVisible, RetainMaps
    <3>3. Visible[j.name] = Absent
      BY <1>1, <2>5, JobVisible, VisibleNames
    <3>4. Spine!Publish(c)
      BY <2>1, <3>1, <3>2, <3>3, SpineTypes DEF Spine!Publish, Spine!Retain, Visible
    <3> QED BY <3>4 DEF Spine!Next
  <2> QED BY <1>9, <2>2, <2>3, <2>4, <2>5
<1>10. CASE SyncCleanup(c)
  BY <1>1, <1>8, <1>10 DEF SyncCleanup, CallShape, Fits, Reached, Linked
<1>11. CASE Rename(c)
  <2>1. /\ CacheEffect(Replaced(j), j.bytes) /\ UNCHANGED <<job, ret>>
        /\ pc[c] = "rename"
    BY <1>11 DEF Rename, Goto, CacheEffect
  <2>2. CASE j \in DeclarationJob
    <3>1. Replaced(j) = ActiveRef(RequestOf[j.of]) /\ j.bytes = j.of /\ j.of \in Declaration
      BY <1>1, <2>2 DEF JobFacts, Replaced
    <3>2. Visible' = [Visible EXCEPT ![ActiveRef(RequestOf[j.of])] = j.of]
      BY <2>1, <3>1, VisibleNames, RetainMaps
    <3>3. Visible[j.name] = j.of
      BY <1>1, <2>1, <2>2, <3>1, JobVisible, VisibleNames DEF Reached, Linked
    <3>4. Spine!Locate(c)
      BY <2>1, <2>2, <3>2, <3>3, SpineTypes DEF Spine!Locate, Spine!Retain, Visible
    <3> QED BY <3>4 DEF Spine!Next
  <2>3. CASE j \in CursorJob
    <3>1. Replaced(j) = j.name /\ j.of \in Declaration
      BY <1>1, <2>3 DEF JobFacts, Replaced
    <3>2. Visible' = [Visible EXCEPT ![j.name] = j.bytes]
      BY <1>1, <2>1, <3>1, JobVisible, RetainMaps
    <3>3. Visible[j.name] = j.expected
      BY <1>1, <2>1, <2>3, JobVisible, VisibleNames DEF Section, InSection
    <3>4. Visible[DeclarationFile(j.of)] = j.of
      BY <1>1, <2>1, <2>3, <3>1, VisibleNames DEF Reached, ContentTyped
    <3>5. Spine!Swap(c)
      BY <2>1, <2>3, <3>2, <3>3, <3>4, SpineTypes DEF Spine!Swap, Spine!Retain, Visible
    <3> QED BY <3>5 DEF Spine!Next
  <2> QED BY <1>1, <2>1, <2>2, <2>3 DEF CallShape, Fits
<1>12. CASE SyncRename(c)
  <2>1. cache[j.name] = j.bytes /\ j.op # "active"
    BY <1>1, <1>12 DEF SyncRename, CallShape, Fits, Reached, Linked, Section, InSection, JobFacts
  <2>2. Spine!Truthful(j, "ok")
    BY <1>1, <2>1, TruthMaps DEF Code
  <2> QED BY <1>2, <1>12, <2>2 DEF SyncRename, Code
<1>13. CASE CompareCursor(c)
  <2>1. j.op = "cursor" /\ UNCHANGED cache
    BY <1>1, <1>13 DEF CompareCursor, CallShape, Fits, JobFacts, store
  <2>2. CASE Return(c, "ok") /\ cache[j.name] = j.bytes
    <3>1. Spine!Truthful(j, "ok")
      BY <1>1, <2>1, <2>2, TruthMaps DEF Code
    <3> QED BY <1>2, <2>1, <2>2, <3>1 DEF Code
  <2>3. CASE Return(c, "cursor_conflict") /\ cache[j.name] \notin {j.bytes, j.expected}
    <3>1. Spine!Truthful(j, "cursor_conflict")
      BY <1>1, <2>1, <2>3, TruthMaps DEF Code
    <3> QED BY <1>2, <2>1, <2>3, <3>1 DEF Code
  <2>4. CASE Goto(c, "rename")
    BY <1>3, <2>1, <2>4
  <2> QED BY <1>13, <2>2, <2>3, <2>4 DEF CompareCursor
<1>14. CASE ReadRef(c)
  <2>1. CASE cache[j.name] = Absent
    <3>1. Spine!Truthful(j, "absent")
      BY <1>1, <2>1, TruthMaps DEF Code
    <3> QED BY <1>2, <1>14, <2>1, <3>1 DEF ReadRef, store, Code
  <2>2. CASE cache[j.name] # Absent
    BY <1>14, <2>2, QuietMaps DEF ReadRef, store
  <2> QED BY <2>1, <2>2
<1>15. CASE ReadDeclaration(c)
  <2>1. Return(c, "ok") /\ UNCHANGED cache
    BY <1>1, <1>15 DEF ReadDeclaration, Reached, store
  <2>2. j.op = "active" /\ cache[j.name] # Absent
    BY <1>1, <1>15 DEF ReadDeclaration, CallShape, Fits, Reached, JobFacts
  <2>3. Spine!Truthful(j, "ok")
    BY <1>1, <2>2, TruthMaps DEF Code
  <2> QED BY <1>2, <2>1, <2>3 DEF Code
<1> QED
  BY <1>4, <1>5, <1>6, <1>7, <1>9, <1>10, <1>11, <1>12, <1>13, <1>14, <1>15 DEF StoreCall

LEMMA BeginMaps ==
  ASSUME Typed, NEW c \in Caller, Begin(c)
  PROVE  Spine!Begin(c)
<1>1. /\ \E j \in Job : job' = [job EXCEPT ![c] = j]
      /\ ret' = [ret EXCEPT ![c] = "none"]
      /\ UNCHANGED cache
      /\ pc[c] = "idle"
  BY DEF Begin, PublishDeclaration, PublishStep, CompareAndPublishCursor,
     LoadActiveDeclaration, Enter, Job, store
<1>2. job[c] = NoJob
  BY <1>1 DEF Typed, CallsShaped, CallShape, Fits
<1> QED BY <1>1, <1>2, SpineTypes DEF Spine!Begin

LEMMA ErrorMaps ==
  ASSUME Typed, NEW c \in Caller, IoError(c) \/ SyncError(c)
  PROVE  Spine!End(c)
<1>1. PICK code \in {"io_error", "directory_sync_failed"} : Return(c, code)
  BY DEF IoError, SyncError
<1>2. job[c] \in Job /\ job[c] # NoJob /\ UNCHANGED cache
  BY DEF IoError, SyncError, SyncPoint, Typed, TypeOK, CallsShaped, CallShape, Fits, store
<1>3. Spine!Truthful(job[c], code)
  BY <1>1, <1>2, TruthMaps DEF Code
<1> QED BY <1>1, <1>2, <1>3, ReturnMaps DEF Code

LEMMA CrashMaps ==
  ASSUME NEW p \in Process, Crash(p)
  PROVE  Spine!Abandon
<1> DEFINE dead == {c \in Caller : ProcessOf[c] = p}
<1>1. /\ job' = [c \in Caller |-> IF c \in dead THEN NoJob ELSE job[c]]
      /\ ret' = [c \in Caller |-> IF c \in dead THEN "none" ELSE ret[c]]
      /\ UNCHANGED cache
  BY DEF Crash, store
<1> QED BY <1>1, SpineTypes DEF Spine!Abandon

LEMMA NextMaps ==
  ASSUME StaysUp, Typed, Sections, Backed, [Next]_vars
  PROVE  [Spine!Next]_(Spine!vars)
<1>1. ASSUME NEW c \in Caller, Begin(c) \/ IoError(c) \/ SyncError(c)
      PROVE  Spine!Next
  BY <1>1, BeginMaps, ErrorMaps DEF Spine!Next
<1>2. ASSUME NEW c \in Caller, StoreCall(c)
      PROVE  [Spine!Next]_(Spine!vars)
  BY <1>2, StoreCallMaps
<1>3. ASSUME NEW p \in Process, Crash(p)
      PROVE  Spine!Next
  BY <1>3, CrashMaps DEF Spine!Next
<1>4. CASE UNCHANGED vars
  BY <1>4, QuietMaps DEF vars
<1>5. ~PowerLoss /\ \A n : ~WriteBack(n)
  BY DEF StaysUp, PowerLoss, WriteBack
<1> QED BY <1>1, <1>2, <1>3, <1>4, <1>5 DEF Next, Fault

LEMMA InitMaps == Init => Spine!Init
BY SpineTypes DEF Init, Spine!Init

\* The store keeps what journal_store.h promises: with each caller in a process of
\* its own, and while the machine stays up, every system call is one atomic step of
\* JournalSpec or none, under any failures and deaths.
THEOREM StoreImplementsSpec ==
  ASSUME StaysUp, DistinctProcesses
  PROVE  Spec => ImplementsSpine
<1>1. Init => Sections
  BY JobShapes DEF Init, Sections, Section, InSection
<1>2. Typed /\ Sections /\ [Next]_vars => Sections'
  BY SectionsStep
<1>3. Typed /\ Backed /\ [Next]_vars => Backed'
  BY BackedStep
<1>4. Typed /\ Sections /\ Backed /\ [Next]_vars => [Spine!Next]_(Spine!vars)
  BY NextMaps
<1> QED
  BY <1>1, <1>2, <1>3, <1>4, InitMaps, InitBacked, AlwaysTyped, PTL
     DEF Spec, ImplementsSpine, Spine!Spec
=============================================================================
