--------------------------- MODULE EvidenceProofs ---------------------------
(***************************************************************************)
(* The invariants of the rejected-object store and of the evidence beside  *)
(* it, and that the identity of a record leads to the object as            *)
(* IdentitySpec promises, for every set of processes and every combination *)
(* of failing calls, deaths, overlapping calls and losses of power.        *)
(***************************************************************************)
EXTENDS EvidenceStore, FiniteSetTheorems, TLAPS

-----------------------------------------------------------------------------
(* The inductive invariant.                                                *)

Has(n) == files[n] # Absent

\* All that a completed publication has made.
Published ==
  IF kind = "regular" THEN Name ELSE Name \ {"payload", "index_payload"}

PublishPoint == {"mkdir", "bind", "mkdir_source", "copy", "link_payload", "link_record",
                 "mkdir_index", "link_index_payload", "link_index_record"}
WritePoint == PublishPoint \ {"mkdir", "bind"}
SyncPoint == {"sync_source", "sync_index", "sync_attempt", "sync_store"}
NamePoint == EvidencePoint \ {"sync_evidence"}

\* Which call is at which point, and what it is about.
Shape(p) ==
  /\ pc[p] \in PublishPoint => call[p].operation = "publish"
  /\ pc[p] \in {"open_dir", "lock"} =>
       call[p].operation \in {"publish", "load", "synchronize"}
  /\ pc[p] = "look" => call[p].operation \in {"publish", "load"}
  /\ pc[p] \in SyncPoint => call[p].operation = "synchronize"
  /\ call[p].operation = "synchronize" \/ p \in returned => named
  /\ pc[p] \in NamePoint => publishing[p] \in Fact
  /\ pc[p] \in {"copy", "link_payload", "link_index_payload"} => kind = "regular"

\* Whoever writes below the attempt is alone there, whoever flushes it keeps the
\* writers out.
Held(p) ==
  /\ pc[p] \in WritePoint => writer = p
  /\ pc[p] = "look" /\ call[p].operation = "publish" => writer = p
  /\ pc[p] \in SyncPoint => p \in readers

\* What a call has found or made below, or has flushed.
Flushed(d) == \A n \in Name : Has(n) /\ Parent(n) = d => n \in disk

Reached(p) ==
  /\ pc[p] = "bind" => Has("attempt")
  /\ pc[p] = "open_dir" /\ call[p].operation = "publish" => Has("attempt")
  /\ pc[p] \in {"lock", "mkdir_source", "look"} \cup SyncPoint => Has("binding")
  /\ pc[p] = "look" /\ call[p].operation = "publish" => Has("source")
  /\ pc[p] \in {"copy", "link_payload", "link_record"} => Has("source")
  /\ pc[p] = "link_payload" => call[p].bytes = Whole /\ call[p].flushed
  /\ pc[p] \in {"link_record", "mkdir_index", "link_index_payload", "link_index_record"} =>
       PayloadVerifies("payload")
  /\ pc[p] \in {"mkdir_index", "link_index_payload", "link_index_record"} => Has("record")
  /\ pc[p] \in {"link_index_payload", "link_index_record"} => Has("index")
  /\ pc[p] = "link_index_record" => PayloadVerifies("index_payload")
  /\ pc[p] \in {"sync_index", "sync_attempt", "sync_store"} => Flushed("source")
  /\ pc[p] \in {"sync_attempt", "sync_store"} => Flushed("index")
  /\ pc[p] = "sync_store" => Flushed("attempt")

Typed == TypeOK /\ \A p \in Process : Shape(p)

\* A file has all its bytes, and what is there is in its directories; so is what
\* synchronize has covered, and that is on the disk.
Sound ==
  /\ \A n \in Name : files[n] \in {Absent, Whole}
  /\ loose = {}
  /\ \A n \in Name : Has(n) => \A d \in Above(n) : Has(d)
  /\ kind = "other" => ~Has("payload") /\ ~Has("index_payload")
  /\ \A n \in disk : Has(n)
  /\ confirmed \subseteq disk
  /\ \A n \in confirmed : Above(n) \subseteq confirmed

Locked == writer # NoProcess => readers = {}

\* Until something is lost, every name comes after what it leads to.
Ordered ==
  ~undone =>
    /\ apart = {}
    /\ Has("source") => Has("binding")
    /\ Has("record") => PayloadVerifies("payload")
    /\ Has("index_payload") => Has("payload")
    /\ Has("index_record") => Has("record") /\ PayloadVerifies("index_payload")
    /\ named => \A n \in Published : Has(n)
    /\ status = "confirmed" => Published \subseteq confirmed

Evident ==
  /\ \A f \in Fact : evidence[f] \in {Absent, Whole}
  /\ evidenceLoose = {}
  /\ settled \subseteq evidenceDisk
  /\ \A f \in evidenceDisk : evidence[f] # Absent

IInv ==
  /\ Typed /\ Sound /\ Locked /\ Ordered /\ Evident
  /\ \A p \in Process : Held(p) /\ Reached(p)

-----------------------------------------------------------------------------
LEMMA Distinct ==
  /\ Absent # Empty /\ Absent # Whole /\ Absent # Other
  /\ Empty # Whole /\ Empty # Other /\ Whole # Other
<1>1. ASSUME NEW a, NEW b, NEW c
      PROVE  Cardinality({a, b, c}) # 4
  <2>1. IsFiniteSet({}) /\ Cardinality({}) = 0
    BY FS_EmptySet
  <2>2. IsFiniteSet({a}) /\ Cardinality({a}) = 1
    BY FS_Singleton
  <2>3. /\ IsFiniteSet({a, b}) /\ Cardinality({a, b}) \in {1, 2}
    <3>1. {a, b} = {a} \cup {b}
      OBVIOUS
    <3> QED BY <2>2, <3>1, FS_AddElement
  <2>4. Cardinality({a, b, c}) \in {1, 2, 3}
    <3>1. {a, b, c} = {a, b} \cup {c}
      OBVIOUS
    <3> QED BY <2>3, <3>1, FS_AddElement
  <2> QED BY <2>4
<1>2. Cardinality({Absent, Empty, Whole, Other}) = 4
  BY RejectedStoreAssumption
<1>3. ASSUME NEW a, NEW b, NEW c, {Absent, Empty, Whole, Other} = {a, b, c}
      PROVE  FALSE
  BY <1>1, <1>2, <1>3
<1>4. Absent = Empty => {Absent, Empty, Whole, Other} = {Absent, Whole, Other}
  OBVIOUS
<1>5. Absent = Whole => {Absent, Empty, Whole, Other} = {Absent, Empty, Other}
  OBVIOUS
<1>6. Absent = Other => {Absent, Empty, Whole, Other} = {Absent, Empty, Whole}
  OBVIOUS
<1>7. Empty = Whole => {Absent, Empty, Whole, Other} = {Absent, Empty, Other}
  OBVIOUS
<1>8. Empty = Other => {Absent, Empty, Whole, Other} = {Absent, Empty, Whole}
  OBVIOUS
<1>9. Whole = Other => {Absent, Empty, Whole, Other} = {Absent, Empty, Whole}
  OBVIOUS
<1> QED BY <1>3, <1>4, <1>5, <1>6, <1>7, <1>8, <1>9

-----------------------------------------------------------------------------
(* What a step of one process may change.                                  *)

Points == Point \cup EvidencePoint
CallRecord == [operation : Operation, bytes : Content, flushed : BOOLEAN]

LEMMA PointsAre ==
  /\ "idle" \in Points /\ "mkdir" \in Points /\ "open_dir" \in Points /\ "bind" \in Points
  /\ "lock" \in Points /\ "mkdir_source" \in Points /\ "look" \in Points
  /\ "copy" \in Points /\ "link_payload" \in Points /\ "link_record" \in Points
  /\ "mkdir_index" \in Points /\ "link_index_payload" \in Points
  /\ "link_index_record" \in Points /\ "identify" \in Points /\ "verify" \in Points
  /\ SyncPoint \subseteq Points /\ EvidencePoint \subseteq Points
BY DEF Points, Point, EvidencePoint, SyncPoint

LEMMA NamesAre ==
  /\ "attempt" \in Name /\ "source" \in Name /\ "index" \in Name /\ "binding" \in Name
  /\ "payload" \in Name /\ "record" \in Name
  /\ "index_payload" \in Name /\ "index_record" \in Name
  /\ Indexed("payload") = "index_payload" /\ Indexed("record") = "index_record"
BY DEF Name, Directory, Indexed

LEMMA CallsAre ==
  /\ \A operation \in Operation : Calling(operation) \in CallRecord
  /\ NoCall \in CallRecord /\ NoCall.operation = "none"
BY DEF CallRecord, Calling, NoCall, Operation, Content

RejectedEffect(p) ==
  /\ world' = world /\ kind' = kind /\ undone' = undone
  /\ \E to \in Points : Goto(p, to)
  /\ \E c \in CallRecord : call' = [call EXCEPT ![p] = c]
  /\ returned' \in {returned, returned \cup {p}, returned \ {p}}
  /\ files' = files \/ \E n \in Name : \E b \in Content : files' = [files EXCEPT ![n] = b]
  /\ disk \subseteq disk' /\ disk' \subseteq disk \cup Present
  /\ loose' \subseteq Name /\ apart' \subseteq {"payload", "record"}
  /\ \/ writer' = writer
     \/ writer = NoProcess /\ writer' = p
     \/ writer = p /\ writer' = NoProcess
  /\ readers' \in {readers, readers \cup {p}, readers \ {p}}
  /\ named' \in {named, TRUE}
  /\ status' \in {status, "unconfirmed", "confirmed"}
  /\ confirmed' \in {confirmed, Present}

EvidenceEffect(p) ==
  /\ \E f \in Fact \cup {"none"} : publishing' = [publishing EXCEPT ![p] = f]
  /\ \/ evidence' = evidence
     \/ \E f \in Fact : evidence[f] = Absent /\ evidence' = [evidence EXCEPT ![f] = Whole]
  /\ evidenceLoose' = evidenceLoose
  /\ \/ evidenceDisk' = evidenceDisk /\ settled' = settled
     \/ evidenceDisk' = Stored /\ settled' = Stored /\ evidence' = evidence
  /\ \E f \in Fact : announced' \in {announced, announced \cup {f}}

\* A step of p by which it goes to a point, and that keeps the rest.
LEMMA Kept ==
  ASSUME TypeOK, NEW p \in Process
  PROVE  /\ call = [call EXCEPT ![p] = call[p]] /\ call[p] \in CallRecord
         /\ publishing = [publishing EXCEPT ![p] = publishing[p]]
         /\ publishing[p] \in Fact \cup {"none"}
         /\ {} \in SUBSET Present /\ disk = disk \cup {}
         /\ \E f \in Fact : announced \in {announced, announced \cup {f}}
<1>1. call \in [Process -> CallRecord] /\ publishing \in [Process -> Fact \cup {"none"}]
  BY DEF TypeOK, CallRecord
<1>2. "confirmed" \in Fact
  BY DEF Fact
<1> QED BY <1>1, <1>2

LEMMA StorageKept ==
  ASSUME TypeOK, UNCHANGED storage
  PROVE  /\ files' = files
         /\ disk \subseteq disk' /\ disk' \subseteq disk \cup Present
         /\ loose' \subseteq Name /\ apart' \subseteq {"payload", "record"}
BY DEF storage, TypeOK

LEMMA MakeEffect ==
  ASSUME TypeOK, NEW n \in Name, NEW b \in Content, NEW f \in BOOLEAN, Make(n, b, f)
  PROVE  /\ \E m \in Name : \E c \in Content : files' = [files EXCEPT ![m] = c]
         /\ disk \subseteq disk' /\ disk' \subseteq disk \cup Present
         /\ loose' \subseteq Name /\ apart' \subseteq {"payload", "record"}
         /\ world' = world /\ kind' = kind /\ writer' = writer /\ readers' = readers
         /\ named' = named /\ status' = status
         /\ confirmed' = confirmed /\ undone' = undone
BY DEF Make, locks, journal, history, TypeOK

LEMMA CloseEffect ==
  ASSUME TypeOK, NEW p \in Process, Close(p)
  PROVE  /\ \E to \in Points : Goto(p, to)
         /\ \E c \in CallRecord : call' = [call EXCEPT ![p] = c]
         /\ \/ writer' = writer
            \/ writer = p /\ writer' = NoProcess
         /\ readers' = readers \ {p}
BY PointsAre, CallsAre DEF Close

LEMMA ReturnEffect ==
  ASSUME TypeOK, NEW p \in Process, Return(p)
  PROVE  RejectedEffect(p)
BY CloseEffect, StorageKept DEF Return, RejectedEffect, journal, history

LEMMA StepEffect ==
  ASSUME TypeOK, NEW p \in Process, NEW to \in Points,
         Goto(p, to), UNCHANGED <<call, returned>>, Unchanged
  PROVE  RejectedEffect(p)
BY Kept, StorageKept DEF Unchanged, RejectedEffect, locks, journal, history

LEMMA MakeStepEffect ==
  ASSUME TypeOK, NEW p \in Process, NEW to \in Points, NEW n \in Name, NEW b \in Content,
         NEW f \in BOOLEAN, Goto(p, to), UNCHANGED <<call, returned>>, Make(n, b, f)
  PROVE  RejectedEffect(p)
<1>1. \E c \in CallRecord : call' = [call EXCEPT ![p] = c]
  BY Kept
<1> QED BY <1>1, MakeEffect DEF RejectedEffect

LEMMA MakeDirectoryEffect ==
  ASSUME TypeOK, NEW p \in Process, NEW from, NEW to \in Points, NEW d \in Name,
         MakeDirectory(p, from, d, to)
  PROVE  RejectedEffect(p)
BY StepEffect, MakeStepEffect DEF MakeDirectory, Step, Content

LEMMA LinkAgainEffect ==
  ASSUME TypeOK, NEW n \in {"payload", "record"}, LinkAgain(n)
  PROVE  /\ \E m \in Name : \E c \in Content : files' = [files EXCEPT ![m] = c]
         /\ disk \subseteq disk' /\ disk' \subseteq disk \cup Present
         /\ loose' \subseteq Name /\ apart' \subseteq {"payload", "record"}
<1>1. Indexed(n) \in Name /\ files[n] \in Content
  BY NamesAre DEF TypeOK
<1> QED BY <1>1 DEF LinkAgain, TypeOK

\* The steps of the rejected object's operations.
LEMMA RejectedSteps ==
  ASSUME Typed, NEW p \in Process, RunRejected(p) \/ Stop(p)
  PROVE  RejectedEffect(p)
<1>0. TypeOK /\ Shape(p) /\ call[p] \in CallRecord
  BY Kept DEF Typed
<1>1. CASE Start(p)
  <2>1. PICK operation \in Operation, to \in Points :
          call' = [call EXCEPT ![p] = Calling(operation)] /\ Goto(p, to)
    BY <1>1, PointsAre DEF Start
  <2>2. UNCHANGED returned /\ Unchanged
    BY <1>1 DEF Start
  <2> QED BY <1>0, <2>1, <2>2, CallsAre, StorageKept
          DEF Unchanged, RejectedEffect, locks, journal, history
<1>2. CASE MakeAttempt(p)
  BY <1>0, <1>2, MakeDirectoryEffect, PointsAre, NamesAre DEF MakeAttempt
<1>3. CASE OpenAttempt(p)
  BY <1>0, <1>3, StepEffect, ReturnEffect, PointsAre DEF OpenAttempt, Step
<1>4. CASE PublishBinding(p)
  BY <1>0, <1>4, StepEffect, MakeStepEffect, ReturnEffect, PointsAre, NamesAre
     DEF PublishBinding, Step, Content
<1>5. CASE TakeLock(p)
  <2>1. CASE Return(p)
    BY <1>0, <2>1, ReturnEffect
  <2>2. CASE ~Return(p)
    <3>1. \E to \in Points : Goto(p, to)
      BY <1>5, <2>2, PointsAre DEF TakeLock, Step, SyncPoint
    <3> QED BY <1>0, <1>5, <2>2, <3>1, Kept, StorageKept
            DEF TakeLock, Step, RejectedEffect, journal, history
  <2> QED BY <2>1, <2>2
<1>6. CASE MakeSource(p)
  BY <1>0, <1>6, MakeDirectoryEffect, PointsAre, NamesAre DEF MakeSource
<1>7. CASE LookAtRecord(p)
  <2>1. CASE Return(p)
    BY <1>0, <2>1, ReturnEffect
  <2>2. CASE \E to \in Points : Step(p, "look", to) /\ Unchanged
    BY <1>0, <2>2, StepEffect DEF Step
  <2>3. CASE Close(p) /\ returned' \in {returned, returned \cup {p}}
             /\ UNCHANGED <<world, kind, storage, journal, history>>
    BY <1>0, <2>3, CloseEffect, StorageKept DEF RejectedEffect, journal, history
  <2> QED BY <1>7, <2>1, <2>2, <2>3, PointsAre DEF LookAtRecord
<1>8. CASE CopyPayload(p)
  <2>1. CASE Return(p)
    BY <1>0, <2>1, ReturnEffect
  <2>2. CASE Copied(p, Whole, TRUE)
    <3>1. call' = [call EXCEPT ![p] = [call[p] EXCEPT !.bytes = Whole, !.flushed = TRUE]]
      BY <1>0, <2>2 DEF Copied, TypeOK
    <3>2. [call[p] EXCEPT !.bytes = Whole, !.flushed = TRUE] \in CallRecord
      BY <1>0 DEF CallRecord, Content
    <3> QED BY <1>0, <2>2, <3>1, <3>2, PointsAre, StorageKept
            DEF Copied, Unchanged, RejectedEffect, locks, journal, history
  <2> QED BY <1>8, <2>1, <2>2 DEF CopyPayload
<1>9. CASE LinkPayload(p)
  BY <1>0, <1>9, StepEffect, MakeStepEffect, ReturnEffect, PointsAre, NamesAre
     DEF LinkPayload, Step, CallRecord
<1>10. CASE LinkRecord(p)
  BY <1>0, <1>10, StepEffect, MakeStepEffect, ReturnEffect, PointsAre, NamesAre
     DEF LinkRecord, Step, Content
<1>11. CASE MakeIndex(p)
  BY <1>0, <1>11, MakeDirectoryEffect, PointsAre, NamesAre DEF MakeIndex
<1>12. CASE LinkIndexPayload(p)
  <2>1. CASE Return(p)
    BY <1>0, <2>1, ReturnEffect
  <2>2. CASE \E to \in Points : Step(p, "link_index_payload", to) /\ Unchanged
    BY <1>0, <2>2, StepEffect DEF Step
  <2>3. CASE /\ Step(p, "link_index_payload", "link_index_record")
             /\ LinkAgain("payload")
             /\ UNCHANGED <<world, kind, locks, journal, history>>
    BY <1>0, <2>3, Kept, LinkAgainEffect, PointsAre
       DEF RejectedEffect, Step, locks, journal, history
  <2> QED BY <1>12, <2>1, <2>2, <2>3, PointsAre DEF LinkIndexPayload
<1>13. CASE LinkIndexRecord(p)
  <2>1. CASE Return(p)
    BY <1>0, <2>1, ReturnEffect
  <2>2. CASE ~Return(p)
    <3>1. Close(p) /\ returned' = returned \cup {p} /\ named' = TRUE
          /\ UNCHANGED <<world, kind, status, history>>
      BY <1>13, <2>2 DEF LinkIndexRecord
    <3>2. LinkAgain("record") \/ UNCHANGED storage
      BY <1>13, <2>2 DEF LinkIndexRecord
    <3> QED BY <1>0, <3>1, <3>2, CloseEffect, LinkAgainEffect, StorageKept
            DEF RejectedEffect, history
  <2> QED BY <2>1, <2>2
<1>14. CASE Identify(p)
  BY <1>0, <1>14, StepEffect, ReturnEffect, PointsAre DEF Identify, Step
<1>15. CASE Verify(p)
  BY <1>0, <1>15, ReturnEffect DEF Verify
<1>16. ASSUME NEW from, NEW d, NEW to \in Points, SyncDirectory(p, from, d, to)
       PROVE  RejectedEffect(p)
  BY <1>0, <1>16, Kept DEF SyncDirectory, Step, RejectedEffect, TypeOK, Present, locks,
                           journal, history
<1>17. CASE SyncSource(p) \/ SyncIndex(p) \/ SyncAttempt(p)
  BY <1>16, <1>17, PointsAre DEF SyncSource, SyncIndex, SyncAttempt, SyncPoint
<1>18. CASE SyncStore(p)
  BY <1>0, <1>18, CloseEffect DEF SyncStore, RejectedEffect, TypeOK, Present
<1>19. CASE SyncFails(p)
  BY <1>0, <1>19, CloseEffect, StorageKept DEF SyncFails, RejectedEffect, history
<1>20. CASE Stop(p)
  BY <1>0, <1>20, CloseEffect, StorageKept DEF Stop, RejectedEffect, journal, history
<1> QED BY <1>1, <1>2, <1>3, <1>4, <1>5, <1>6, <1>7, <1>8, <1>9, <1>10, <1>11, <1>12,
           <1>13, <1>14, <1>15, <1>17, <1>18, <1>19, <1>20 DEF RunRejected

\* The steps that publish and flush the evidence.
EvidenceStep(p) ==
  \/ StartEvidence(p) \/ ReadEvidence(p) \/ LinkEvidence(p)
  \/ UnlinkEvidence(p) \/ RereadEvidence(p) \/ SyncEvidence(p)

LEMMA EvidenceSteps ==
  ASSUME Typed, NEW p \in Process, EvidenceStep(p) \/ StopProcess(p)
  PROVE  /\ RejectedEffect(p) /\ EvidenceEffect(p)
         /\ EvidenceStep(p) => UNCHANGED <<world, kind, storage, named, status, history>>
<1>0. TypeOK /\ Shape(p) /\ publishing \in [Process -> Fact \cup {"none"}]
  BY DEF Typed, TypeOK
<1>1. ASSUME NEW to \in Points, Goto(p, to), UNCHANGED <<call, returned>>, Unchanged
      PROVE  /\ RejectedEffect(p)
             /\ UNCHANGED <<world, kind, storage, named, status, history>>
  BY <1>0, <1>1, StepEffect DEF Unchanged, journal
<1>2. ASSUME Return(p)
      PROVE  /\ RejectedEffect(p)
             /\ UNCHANGED <<world, kind, storage, named, status, history>>
  BY <1>0, <1>2, ReturnEffect DEF Return, journal
<1>3. ASSUME UNCHANGED <<evidence, evidenceDisk, evidenceLoose, announced, settled>>,
             \E f \in Fact \cup {"none"} : publishing' = [publishing EXCEPT ![p] = f]
      PROVE  EvidenceEffect(p)
  BY <1>0, <1>3, Kept DEF EvidenceEffect
<1>4. UNCHANGED publishing => \E f \in Fact \cup {"none"} :
                                publishing' = [publishing EXCEPT ![p] = f]
  BY <1>0, Kept
<1>5. ASSUME Move(p, pc[p], "link_evidence") \/ Move(p, pc[p], "unlink_evidence")
             \/ Move(p, pc[p], "reread_evidence")
      PROVE  /\ RejectedEffect(p)
             /\ UNCHANGED <<world, kind, storage, named, status, history>>
  BY <1>1, <1>5, PointsAre DEF Move, Step, EvidencePoint
<1>6. Quit(p) => EvidenceEffect(p)
  BY <1>3 DEF Quit, End
<1>7. Announce(p) /\ publishing[p] \in Fact => EvidenceEffect(p)
  BY DEF Announce, End, EvidenceEffect
<1>8. Quit(p) \/ Announce(p) => Return(p)
  BY DEF Quit, Announce, End
<1>9. CASE StartEvidence(p)
  <2>1. \E to \in Points : Goto(p, to)
    BY <1>9, PointsAre DEF StartEvidence, EvidencePoint
  <2>2. \E f \in Fact \cup {"none"} : publishing' = [publishing EXCEPT ![p] = f]
    BY <1>4, <1>9 DEF StartEvidence
  <2> QED BY <1>1, <1>3, <1>9, <2>1, <2>2 DEF StartEvidence
<1>10. CASE ReadEvidence(p)
  <2>1. publishing[p] \in Fact
    BY <1>0, <1>10 DEF ReadEvidence, Shape, NamePoint, EvidencePoint
  <2>2. \/ Move(p, "read_evidence", "link_evidence") /\ Unpublished
        \/ Announce(p) \/ Quit(p)
    BY <1>10 DEF ReadEvidence
  <2>3. pc[p] = "read_evidence"
    BY <1>10 DEF ReadEvidence
  <2>4. Unpublished => EvidenceEffect(p)
    BY <1>3, <1>4 DEF Unpublished, evidencing
  <2> QED BY <1>2, <1>5, <1>6, <1>7, <1>8, <2>1, <2>2, <2>3, <2>4
<1>11. CASE LinkEvidence(p)
  <2>1. publishing[p] \in Fact /\ pc[p] = "link_evidence"
    BY <1>0, <1>11 DEF LinkEvidence, LinkEncoding, Shape, NamePoint, EvidencePoint
  <2>2. Move(p, pc[p], "unlink_evidence") \/ Move(p, pc[p], "reread_evidence")
    BY <1>11, <2>1 DEF LinkEvidence, LinkEncoding
  <2>3. /\ \/ evidence' = evidence
           \/ evidence[publishing[p]] = Absent
              /\ evidence' = [evidence EXCEPT ![publishing[p]] = Whole]
        /\ evidenceLoose' = evidenceLoose
        /\ UNCHANGED <<evidenceDisk, publishing, announced, settled>>
    BY <1>11 DEF LinkEvidence, LinkEncoding
  <2>4. EvidenceEffect(p)
    BY <1>0, <1>4, <2>1, <2>3, Kept DEF EvidenceEffect
  <2> QED BY <1>5, <2>2, <2>4
<1>12. CASE UnlinkEvidence(p)
  <2>1. publishing[p] \in Fact
    BY <1>0, <1>12 DEF UnlinkEvidence, Shape, NamePoint, EvidencePoint
  <2> QED BY <1>2, <1>7, <1>8, <1>12, <2>1 DEF UnlinkEvidence
<1>13. CASE RereadEvidence(p)
  <2>1. publishing[p] \in Fact
    BY <1>0, <1>13 DEF RereadEvidence, Shape, NamePoint, EvidencePoint
  <2> QED BY <1>2, <1>6, <1>7, <1>8, <1>13, <2>1 DEF RereadEvidence
<1>14. CASE SyncEvidence(p)
  <2>1. EvidenceEffect(p)
    BY <1>0, <1>14, Kept DEF SyncEvidence, End, EvidenceEffect
  <2> QED BY <1>2, <1>14, <2>1 DEF SyncEvidence, End
<1>15. CASE StopProcess(p)
  <2>1. RejectedEffect(p)
    BY <1>15, RejectedSteps DEF StopProcess
  <2>2. EvidenceEffect(p)
    BY <1>3, <1>15 DEF StopProcess
  <2>3. ~EvidenceStep(p) \/ UNCHANGED <<world, kind, storage, named, status, history>>
    BY <1>15 DEF StopProcess, Stop, journal
  <2> QED BY <2>1, <2>2, <2>3
<1> QED BY <1>9, <1>10, <1>11, <1>12, <1>13, <1>14, <1>15 DEF EvidenceStep

\* What any step of one process may change.
Acts(p) == EvidenceStep(p) \/ StopProcess(p) \/ (RunRejected(p) /\ UNCHANGED evidencing)

LEMMA Effects ==
  ASSUME Typed, NEW p \in Process, Acts(p)
  PROVE  RejectedEffect(p) /\ EvidenceEffect(p)
<1>1. TypeOK /\ publishing[p] \in Fact \cup {"none"}
  BY Kept DEF Typed
<1>2. UNCHANGED evidencing => EvidenceEffect(p)
  BY <1>1, Kept DEF evidencing, EvidenceEffect
<1> QED BY <1>2, RejectedSteps, EvidenceSteps DEF Acts

LEMMA NextActs == Next <=> LosePower \/ \E p \in Process : Acts(p)
BY DEF Next, Acts, EvidenceStep

LEMMA TypeStep ==
  ASSUME TypeOK, NEW p \in Process, RejectedEffect(p), EvidenceEffect(p)
  PROVE  TypeOK'
<1>1. world' \in Worlds /\ kind' \in Kind
  BY DEF TypeOK, RejectedEffect
<1>2. files' \in [Name -> Content]
  BY DEF TypeOK, RejectedEffect
<1>3. disk' \subseteq Name /\ loose' \subseteq Name /\ apart' \subseteq {"payload", "record"}
  BY DEF TypeOK, RejectedEffect, Present
<1>4. writer' \in Process \cup {NoProcess} /\ readers' \subseteq Process
  BY DEF TypeOK, RejectedEffect
<1>5. pc' \in [Process -> Point \cup EvidencePoint]
  BY DEF TypeOK, RejectedEffect, Goto, Points
<1>6. call' \in [Process -> CallRecord]
  BY DEF TypeOK, RejectedEffect, CallRecord
<1>7. returned' \subseteq Process /\ named' \in BOOLEAN /\ status' \in Status
  BY DEF TypeOK, RejectedEffect, Status
<1>8. confirmed' \subseteq Name /\ undone' \in BOOLEAN
  BY DEF TypeOK, RejectedEffect, Present
<1>9. evidence' \in [Fact -> Content]
  BY DEF TypeOK, EvidenceEffect, Content
<1>10. evidenceDisk' \subseteq Fact /\ evidenceLoose' \subseteq Fact
       /\ announced' \subseteq Fact /\ settled' \subseteq Fact
  BY DEF TypeOK, EvidenceEffect, Stored
<1>11. publishing' \in [Process -> Fact \cup {"none"}]
  BY DEF TypeOK, EvidenceEffect
<1> QED BY <1>1, <1>2, <1>3, <1>4, <1>5, <1>6, <1>7, <1>8, <1>9, <1>10, <1>11
        DEF TypeOK, CallRecord

LEMMA PowerType ==
  ASSUME TypeOK, LosePower
  PROVE  TypeOK'
<1>1. PICK kept \in SUBSET Present : disk' = {n \in kept : Above(n) \subseteq kept}
  BY DEF LosePower, PowerLoss
<1>2. disk' \subseteq Name
  BY <1>1 DEF Present
<1>3. files' \in [Name -> Content] /\ loose' \subseteq Name
  BY DEF TypeOK, LosePower, PowerLoss, Content
<1>4. pc' \in [Process -> Point \cup EvidencePoint]
  BY DEF LosePower, PowerLoss, Point
<1>5. call' \in [Process -> CallRecord]
  BY CallsAre DEF LosePower, PowerLoss
<1>6. undone' \in BOOLEAN
  BY DEF LosePower, PowerLoss, TypeOK
<1>7. evidence' \in [Fact -> Content]
  BY DEF LosePower, TypeOK, Content
<1>8. evidenceDisk' \subseteq Fact /\ evidenceLoose' \subseteq Fact
      /\ publishing' \in [Process -> Fact \cup {"none"}]
      /\ announced' \subseteq Fact /\ settled' \subseteq Fact
  BY DEF LosePower, TypeOK, Stored
<1>9. /\ world' \in Worlds /\ kind' \in Kind
      /\ apart' \subseteq {"payload", "record"}
      /\ writer' \in Process \cup {NoProcess} /\ readers' \subseteq Process
      /\ returned' \subseteq Process /\ named' \in BOOLEAN /\ status' \in Status
      /\ confirmed' \subseteq Name
  BY DEF LosePower, PowerLoss, TypeOK, journal
<1> QED BY <1>2, <1>3, <1>4, <1>5, <1>6, <1>7, <1>8, <1>9 DEF TypeOK, CallRecord

-----------------------------------------------------------------------------
(* Which call is at which point.                                           *)

LEMMA OthersStay ==
  ASSUME TypeOK, NEW p \in Process, NEW q \in Process \ {p},
         RejectedEffect(p), EvidenceEffect(p)
  PROVE  /\ pc'[q] = pc[q] /\ call'[q] = call[q] /\ publishing'[q] = publishing[q]
         /\ q \in returned' <=> q \in returned
         /\ q \in readers' <=> q \in readers
         /\ writer = q => writer' = q
<1>1. pc'[q] = pc[q]
  BY DEF RejectedEffect, Goto, TypeOK
<1>2. call'[q] = call[q]
  BY DEF RejectedEffect, TypeOK
<1>3. publishing'[q] = publishing[q]
  BY DEF EvidenceEffect, TypeOK
<1>4. writer = q => writer' = q
  BY RejectedStoreAssumption DEF RejectedEffect
<1> QED BY <1>1, <1>2, <1>3, <1>4 DEF RejectedEffect

\* What closing a call, or going to a point, says of the process.
LEMMA Closes ==
  ASSUME TypeOK, NEW p \in Process, Close(p)
  PROVE  pc'[p] = "idle" /\ call'[p] = NoCall
BY DEF Close, Goto, TypeOK

LEMMA Goes ==
  ASSUME TypeOK, NEW p \in Process, NEW to, Goto(p, to)
  PROVE  pc'[p] = to
BY DEF Goto, TypeOK

\* A process that has ended its call is at no point of one.
LEMMA IdleShape ==
  ASSUME NEW p \in Process, pc'[p] = "idle", call'[p] = NoCall,
         p \in returned' => named'
  PROVE  Shape(p)'
BY CallsAre DEF Shape, PublishPoint, SyncPoint, NamePoint, EvidencePoint

\* The points that a call goes through, in the order it goes through them.
LEMMA MoverShape ==
  ASSUME Typed, NEW p \in Process, Acts(p)
  PROVE  Shape(p)'
<1>0. /\ TypeOK /\ Shape(p) /\ RejectedEffect(p) /\ EvidenceEffect(p)
      /\ kind' = kind /\ (named => named')
  BY Effects DEF Typed, RejectedEffect
<1>1. ASSUME Return(p)
      PROVE  Shape(p)'
  BY <1>0, <1>1, Closes, IdleShape DEF Return, Shape, journal
<1>2. ASSUME NEW from, NEW to, Step(p, from, to)
      PROVE  /\ pc[p] = from /\ pc'[p] = to /\ call'[p] = call[p] /\ returned' = returned
  BY <1>0, <1>2, Goes DEF Step
<1> USE DEF Shape, PublishPoint, SyncPoint, NamePoint, EvidencePoint
<1>3. CASE RunRejected(p) /\ UNCHANGED evidencing
  <2>1. CASE Start(p)
    <3>1. PICK operation \in Operation \ {"none"} :
            /\ operation = "synchronize" => p \in returned
            /\ call' = [call EXCEPT ![p] = Calling(operation)]
            /\ Goto(p, CASE operation = "publish" -> "mkdir"
                         [] operation = "identify" -> "identify"
                         [] OTHER -> "open_dir")
      BY <2>1 DEF Start
    <3>2. /\ call'[p] = Calling(operation) /\ Calling(operation).operation = operation
          /\ pc'[p] = CASE operation = "publish" -> "mkdir"
                        [] operation = "identify" -> "identify"
                        [] OTHER -> "open_dir"
      BY <1>0, <3>1, Goes DEF TypeOK, Calling
    <3>3. returned' = returned
      BY <2>1 DEF Start
    <3> QED BY <1>0, <3>1, <3>2, <3>3 DEF Operation
  <2>2. CASE MakeAttempt(p)
    BY <1>0, <1>2, <2>2 DEF MakeAttempt, MakeDirectory
  <2>3. CASE OpenAttempt(p)
    BY <1>0, <1>1, <1>2, <2>3 DEF OpenAttempt
  <2>4. CASE PublishBinding(p)
    <3>1. Return(p) \/ (Step(p, "bind", "lock") /\ call[p].operation = "publish")
      BY <1>0, <2>4 DEF PublishBinding
    <3> QED BY <1>0, <1>1, <1>2, <3>1
  <2>5. CASE TakeLock(p)
    BY <1>0, <1>1, <1>2, <2>5 DEF TakeLock
  <2>6. CASE MakeSource(p)
    BY <1>0, <1>2, <2>6 DEF MakeSource, MakeDirectory
  <2>7. CASE LookAtRecord(p)
    <3>1. CASE \E to \in {"copy", "link_record", "mkdir_index"} :
                 Step(p, "look", to) /\ call[p].operation = "publish"
                   /\ (to = "copy" => kind = "regular")
      BY <1>0, <1>2, <3>1
    <3>2. CASE Close(p) /\ returned' = IF named THEN returned \cup {p} ELSE returned
      BY <1>0, <3>2, Closes, IdleShape
    <3>3. \/ Return(p)
          \/ \E to \in {"copy", "link_record", "mkdir_index"} :
               Step(p, "look", to) /\ call[p].operation = "publish"
                 /\ (to = "copy" => kind = "regular")
          \/ Close(p) /\ returned' = IF named THEN returned \cup {p} ELSE returned
      BY <1>0, <2>7 DEF LookAtRecord
    <3> QED BY <1>1, <3>1, <3>2, <3>3
  <2>8. CASE CopyPayload(p)
    <3>1. CASE Copied(p, Whole, TRUE)
      <4>1. call'[p].operation = call[p].operation /\ pc'[p] = "link_payload"
            /\ returned' = returned
        BY <1>0, <3>1, Goes DEF Copied, TypeOK
      <4> QED BY <1>0, <2>8, <4>1 DEF CopyPayload
    <3> QED BY <1>1, <2>8, <3>1 DEF CopyPayload
  <2>9. CASE LinkPayload(p)
    BY <1>0, <1>1, <1>2, <2>9 DEF LinkPayload
  <2>10. CASE LinkRecord(p)
    <3>1. Return(p) \/ (Step(p, "link_record", "mkdir_index") /\ call[p].operation = "publish")
      BY <1>0, <2>10 DEF LinkRecord
    <3> QED BY <1>0, <1>1, <1>2, <3>1
  <2>11. CASE MakeIndex(p)
    <3>1. \E to \in {"link_index_payload", "link_index_record"} :
            Step(p, "mkdir_index", to) /\ (to = "link_index_payload" => kind = "regular")
      BY <2>11 DEF MakeIndex, MakeDirectory
    <3> QED BY <1>0, <1>2, <3>1
  <2>12. CASE LinkIndexPayload(p)
    BY <1>0, <1>1, <1>2, <2>12 DEF LinkIndexPayload
  <2>13. CASE LinkIndexRecord(p)
    BY <1>0, <1>1, <2>13, Closes, IdleShape DEF LinkIndexRecord
  <2>14. CASE Identify(p) \/ Verify(p)
    BY <1>0, <1>1, <1>2, <2>14 DEF Identify, Verify
  <2>15. CASE SyncSource(p) \/ SyncIndex(p) \/ SyncAttempt(p)
    BY <1>0, <1>2, <2>15 DEF SyncSource, SyncIndex, SyncAttempt, SyncDirectory
  <2>16. CASE SyncStore(p)
    BY <1>0, <2>16, Closes, IdleShape DEF SyncStore
  <2>17. CASE SyncFails(p)
    BY <1>0, <2>17, Closes, IdleShape DEF SyncFails
  <2> QED BY <1>3, <2>1, <2>2, <2>3, <2>4, <2>5, <2>6, <2>7, <2>8, <2>9, <2>10, <2>11,
             <2>12, <2>13, <2>14, <2>15, <2>16, <2>17 DEF RunRejected
<1>4. CASE EvidenceStep(p)
  <2>1. CASE StartEvidence(p)
    <3>1. /\ call'[p] = call[p] /\ returned' = returned
          /\ \/ pc'[p] = "read_evidence" /\ publishing'[p] \in Fact
             \/ pc'[p] = "sync_evidence"
      BY <1>0, <2>1, Goes DEF StartEvidence, TypeOK
    <3> QED BY <1>0, <3>1
  <2>2. ASSUME NEW to \in {"link_evidence", "unlink_evidence", "reread_evidence"},
               Move(p, pc[p], to), pc[p] \in {"read_evidence", "link_evidence"},
               publishing' = publishing
        PROVE  Shape(p)'
    BY <1>0, <1>2, <2>2 DEF Move
  <2>3. CASE Return(p)
    BY <1>1, <2>3
  <2>4. CASE ReadEvidence(p) \/ LinkEvidence(p)
    <3>1. \/ Return(p)
          \/ pc[p] \in {"read_evidence", "link_evidence"} /\ publishing' = publishing
             /\ \E to \in {"link_evidence", "unlink_evidence", "reread_evidence"} :
                  Move(p, pc[p], to)
      BY <2>4 DEF ReadEvidence, LinkEvidence, LinkEncoding, Unpublished, evidencing,
                  Announce, Quit, End
    <3> QED BY <1>1, <2>2, <3>1
  <2>5. CASE UnlinkEvidence(p) \/ RereadEvidence(p) \/ SyncEvidence(p)
    BY <1>1, <2>5 DEF UnlinkEvidence, RereadEvidence, SyncEvidence, Announce, Quit, End
  <2> QED BY <1>4, <2>1, <2>4, <2>5 DEF EvidenceStep
<1>5. CASE StopProcess(p)
  BY <1>0, <1>5, Closes, IdleShape DEF StopProcess, Stop, journal
<1> QED BY <1>3, <1>4, <1>5 DEF Acts

LEMMA TypedStep ==
  ASSUME Typed, [Next]_vars
  PROVE  Typed'
<1>1. ASSUME NEW p \in Process, Acts(p)
      PROVE  Typed'
  <2>1. RejectedEffect(p) /\ EvidenceEffect(p) /\ TypeOK
    BY <1>1, Effects DEF Typed
  <2>2. TypeOK'
    BY <2>1, TypeStep
  <2>3. Shape(p)'
    BY <1>1, MoverShape
  <2>4. ASSUME NEW q \in Process \ {p}
        PROVE  Shape(q)'
    <3>1. Shape(q) /\ kind' = kind
      BY <2>1 DEF Typed, RejectedEffect
    <3>2. named => named'
      BY <2>1 DEF RejectedEffect
    <3> QED BY <2>1, <3>1, <3>2, OthersStay DEF Shape
  <2> QED BY <2>2, <2>3, <2>4 DEF Typed
<1>2. CASE LosePower
  <2>1. TypeOK'
    BY <1>2, PowerType DEF Typed
  <2>2. ASSUME NEW p \in Process
        PROVE  Shape(p)'
    BY <1>2, IdleShape DEF LosePower, PowerLoss
  <2> QED BY <2>1, <2>2 DEF Typed
<1>3. CASE UNCHANGED vars
  <2>1. /\ UNCHANGED <<world, kind, files, disk, loose, apart, writer, readers>>
        /\ UNCHANGED <<pc, call, returned, named, status, confirmed, undone>>
        /\ UNCHANGED <<evidence, evidenceDisk, evidenceLoose, publishing, announced, settled>>
    BY <1>3 DEF vars, rejecting, evidencing, storage, locks, working, journal, history
  <2> QED BY <2>1 DEF Typed, TypeOK, Shape
<1> QED BY <1>1, <1>2, <1>3, NextActs

-----------------------------------------------------------------------------
(* What a step adds to the files.                                          *)

LEMMA DirectoriesAre ==
  /\ Parent("attempt") = "store" /\ Parent("index") = "store"
  /\ Parent("index_payload") = "index" /\ Parent("index_record") = "index"
  /\ Parent("source") = "attempt" /\ Parent("binding") = "attempt"
  /\ Parent("payload") = "source" /\ Parent("record") = "source"
  /\ Above("attempt") = {} /\ Above("index") = {}
  /\ Above("index_payload") = {"index"} /\ Above("index_record") = {"index"}
  /\ Above("source") = {"attempt"} /\ Above("binding") = {"attempt"}
  /\ Above("payload") = {"source", "attempt"} /\ Above("record") = {"source", "attempt"}
<1>1. /\ Parent("attempt") = "store" /\ Parent("index") = "store"
      /\ Parent("index_payload") = "index" /\ Parent("index_record") = "index"
      /\ Parent("source") = "attempt" /\ Parent("binding") = "attempt"
      /\ Parent("payload") = "source" /\ Parent("record") = "source"
  BY DEF Parent
<1> QED BY <1>1 DEF Above

\* What must be there, and who must hold the lock, for p to make a name.
Ready(p, n) ==
  \/ n = "attempt"
  \/ n = "binding" /\ Has("attempt")
  \/ /\ writer = p
     /\ \/ n = "source" /\ Has("binding")
        \/ n = "payload" /\ Has("source") /\ kind = "regular"
        \/ n = "record" /\ Has("source") /\ PayloadVerifies("payload")
        \/ n = "index"
        \/ n = "index_payload" /\ Has("index") /\ Has("payload") /\ kind = "regular"
        \/ n = "index_record" /\ Has("index") /\ Has("record")
             /\ PayloadVerifies("payload") /\ PayloadVerifies("index_payload")

Adds(p) ==
  \/ files' = files
  \/ \E n \in Name : Ready(p, n) /\ ~Has(n) /\ files' = [files EXCEPT ![n] = Whole]

\* Every second name is of the file that has the first.
Joined == apart = {} /\ \A n \in {"payload", "record"} : Has(Indexed(n)) => Has(n)

LEMMA FileStep ==
  ASSUME IInv, NEW p \in Process, Acts(p)
  PROVE  Adds(p) /\ loose' = {} /\ (Joined => apart' = {})
<1>0. /\ TypeOK /\ Shape(p) /\ Held(p) /\ Reached(p) /\ Sound
      /\ loose = {} /\ (Joined => apart = {})
  BY DEF IInv, Typed, Sound, Joined
<1> DEFINE Goal == Adds(p) /\ loose' = {} /\ (Joined => apart' = {})
<1>1. ASSUME UNCHANGED storage
      PROVE  Goal
  BY <1>0, <1>1 DEF storage, Adds
<1>2. ASSUME Unchanged
      PROVE  Goal
  BY <1>1, <1>2 DEF Unchanged
<1>3. ASSUME Return(p)
      PROVE  Goal
  BY <1>1, <1>3 DEF Return
<1>4. ASSUME NEW n \in Name, Ready(p, n), ~Has(n), Make(n, Whole, TRUE),
             Joined /\ n \in {"payload", "record"} => ~Has(Indexed(n))
      PROVE  Goal
  BY <1>0, <1>4 DEF Make, Adds, Has
<1>5. ASSUME NEW from, NEW to, NEW d \in {"attempt", "source", "index"},
             Ready(p, d), MakeDirectory(p, from, d, to)
      PROVE  Goal
  BY <1>2, <1>4, <1>5, NamesAre DEF MakeDirectory, Has
<1>6. ASSUME NEW n \in {"payload", "record"}, Ready(p, Indexed(n)), ~Has(Indexed(n)),
             files[n] = Whole, LinkAgain(n)
      PROVE  Goal
  BY <1>0, <1>6, NamesAre DEF LinkAgain, Adds
<1>7. CASE Start(p)
  BY <1>2, <1>7 DEF Start
<1>8. CASE MakeAttempt(p)
  BY <1>5, <1>8 DEF MakeAttempt, Ready
<1>9. CASE OpenAttempt(p)
  BY <1>2, <1>3, <1>9 DEF OpenAttempt
<1>10. CASE PublishBinding(p)
  <2>1. \/ Return(p) \/ Unchanged
        \/ files["binding"] = Absent /\ Make("binding", Whole, TRUE)
    BY <1>10 DEF PublishBinding
  <2>2. Ready(p, "binding")
    BY <1>0, <1>10 DEF PublishBinding, Reached, Ready
  <2> QED BY <1>2, <1>3, <1>4, <2>1, <2>2, NamesAre DEF Has
<1>11. CASE TakeLock(p)
  BY <1>1, <1>3, <1>11 DEF TakeLock
<1>12. CASE MakeSource(p)
  <2>1. Ready(p, "source") /\ MakeDirectory(p, "mkdir_source", "source", "look")
    BY <1>0, <1>12 DEF MakeSource, MakeDirectory, Step, Reached, Held, Ready,
                       WritePoint, PublishPoint
  <2> QED BY <1>5, <2>1
<1>13. CASE LookAtRecord(p)
  BY <1>1, <1>2, <1>3, <1>13 DEF LookAtRecord
<1>14. CASE CopyPayload(p)
  BY <1>2, <1>3, <1>14 DEF CopyPayload, Copied
<1>15. CASE LinkPayload(p)
  <2>1. call[p].bytes = Whole /\ call[p].flushed = TRUE
    BY <1>0, <1>15 DEF LinkPayload, Reached, TypeOK
  <2>2. \/ Return(p) \/ Unchanged
        \/ files["payload"] = Absent /\ Make("payload", Whole, TRUE)
    BY <1>15, <2>1 DEF LinkPayload
  <2>3. Ready(p, "payload")
    BY <1>0, <1>15 DEF LinkPayload, Reached, Ready, Held, Shape, WritePoint, PublishPoint
  <2>4. Joined /\ files["payload"] = Absent => ~Has("index_payload")
    BY NamesAre DEF Joined, Has
  <2> QED BY <1>2, <1>3, <1>4, <2>2, <2>3, <2>4, NamesAre DEF Has
<1>16. CASE LinkRecord(p)
  <2>1. Return(p) \/ (files["record"] = Absent /\ Make("record", Whole, TRUE))
    BY <1>16 DEF LinkRecord
  <2>2. Ready(p, "record")
    BY <1>0, <1>16 DEF LinkRecord, Reached, Ready, Held, WritePoint, PublishPoint
  <2>3. Joined /\ files["record"] = Absent => ~Has("index_record")
    BY NamesAre DEF Joined, Has
  <2> QED BY <1>3, <1>4, <2>1, <2>2, <2>3, NamesAre DEF Has
<1>17. CASE MakeIndex(p)
  <2>1. Ready(p, "index")
    BY <1>0, <1>17 DEF MakeIndex, MakeDirectory, Step, Held, Ready, WritePoint, PublishPoint
  <2>2. \E to : MakeDirectory(p, "mkdir_index", "index", to)
    BY <1>17 DEF MakeIndex
  <2> QED BY <1>5, <2>1, <2>2
<1>18. CASE LinkIndexPayload(p)
  <2>1. Return(p) \/ Unchanged \/ (files["index_payload"] = Absent /\ LinkAgain("payload"))
    BY <1>18 DEF LinkIndexPayload
  <2>2. files["payload"] = Whole /\ Ready(p, "index_payload")
    BY <1>0, <1>18, Distinct DEF LinkIndexPayload, Reached, PayloadVerifies, Ready, Held, Shape,
                       Has, WritePoint, PublishPoint
  <2> QED BY <1>2, <1>3, <1>6, <2>1, <2>2, NamesAre DEF Has
<1>19. CASE LinkIndexRecord(p)
  <2>1. \/ Return(p) \/ UNCHANGED storage
        \/ files["index_record"] = Absent /\ LinkAgain("record")
    BY <1>19 DEF LinkIndexRecord
  <2>2. files["record"] = Whole /\ Ready(p, "index_record")
    BY <1>0, <1>19, NamesAre DEF LinkIndexRecord, Reached, Ready, Held, Sound, Has,
                       WritePoint, PublishPoint
  <2> QED BY <1>1, <1>3, <1>6, <2>1, <2>2, NamesAre DEF Has
<1>20. CASE Identify(p) \/ Verify(p)
  BY <1>2, <1>3, <1>20 DEF Identify, Verify
<1>21. CASE SyncSource(p) \/ SyncIndex(p) \/ SyncAttempt(p) \/ SyncStore(p)
  BY <1>0, <1>21 DEF SyncSource, SyncIndex, SyncAttempt, SyncStore, SyncDirectory, Adds
<1>22. CASE SyncFails(p) \/ Stop(p)
  BY <1>1, <1>22 DEF SyncFails, Stop
<1>23. CASE EvidenceStep(p)
  BY <1>1, <1>23, EvidenceSteps DEF IInv
<1>24. StopProcess(p) => Stop(p)
  BY DEF StopProcess
<1> QED BY <1>7, <1>8, <1>9, <1>10, <1>11, <1>12, <1>13, <1>14, <1>15, <1>16, <1>17, <1>18,
           <1>19, <1>20, <1>21, <1>22, <1>23, <1>24 DEF Acts, RunRejected

\* Nothing that is there goes away, but by a loss of power.
LEMMA FilesGrow ==
  ASSUME TypeOK, NEW p, Adds(p)
  PROVE  /\ \A n \in Name : Has(n) => files'[n] = files[n]
         /\ \A n \in Name : files'[n] \in {files[n], Whole}
BY DEF Adds, TypeOK, Has

\* Nothing changes under whoever flushes the attempt.
LEMMA ReadersKeep ==
  ASSUME IInv, NEW p \in Process, NEW q \in Process, q \in readers, Has("binding"), Adds(p)
  PROVE  files' = files
<1>1. Has("attempt")
  BY NamesAre, DirectoriesAre DEF IInv, Sound
<1>2. writer # p
  BY RejectedStoreAssumption DEF IInv, Locked
<1> QED BY <1>1, <1>2 DEF Adds, Ready

-----------------------------------------------------------------------------
(* What is on the disk.                                                    *)

\* confirmed changes only when synchronize returns.
LEMMA ConfirmStep ==
  ASSUME Typed, NEW p \in Process, Acts(p)
  PROVE  confirmed' = confirmed \/ SyncStore(p)
<1>1. ASSUME NEW from, NEW to, NEW d, MakeDirectory(p, from, d, to)
      PROVE  confirmed' = confirmed
  BY <1>1 DEF MakeDirectory, Make, Unchanged, history
<1>2. CASE EvidenceStep(p)
  BY <1>2, EvidenceSteps DEF history
<1>3. CASE StopProcess(p)
  BY <1>3 DEF StopProcess, Stop, history
<1>4. CASE MakeAttempt(p) \/ MakeSource(p) \/ MakeIndex(p)
  BY <1>1, <1>4 DEF MakeAttempt, MakeSource, MakeIndex
<1>5. CASE Start(p) \/ OpenAttempt(p) \/ PublishBinding(p) \/ TakeLock(p)
  BY <1>5 DEF Start, OpenAttempt, PublishBinding, TakeLock, Make, Unchanged, Return, history
<1>6. CASE LookAtRecord(p) \/ CopyPayload(p) \/ LinkPayload(p) \/ LinkRecord(p)
  BY <1>6 DEF LookAtRecord, CopyPayload, Copied, LinkPayload, LinkRecord, Make, Unchanged,
              Return, history
<1>7. CASE LinkIndexPayload(p) \/ LinkIndexRecord(p) \/ Identify(p) \/ Verify(p)
  BY <1>7 DEF LinkIndexPayload, LinkIndexRecord, Identify, Verify, Unchanged, Return, history
<1>8. CASE SyncSource(p) \/ SyncIndex(p) \/ SyncAttempt(p) \/ SyncFails(p)
  BY <1>8 DEF SyncSource, SyncIndex, SyncAttempt, SyncDirectory, SyncFails, history
<1> QED BY <1>2, <1>3, <1>4, <1>5, <1>6, <1>7, <1>8 DEF Acts, RunRejected

\* When synchronize returns, all that is there is flushed, directory after directory.
LEMMA AllFlushed ==
  ASSUME IInv, NEW p \in Process, SyncStore(p)
  PROVE  \A n \in Name : Has(n) => n \in disk'
<1>1. Flushed("source") /\ Flushed("index") /\ Flushed("attempt")
  BY DEF IInv, Reached, SyncStore
<1>2. disk' = disk \cup {n \in Present : Parent(n) = "store"}
  BY DEF SyncStore
<1>3. ASSUME NEW n \in Name, Has(n)
      PROVE  n \in disk'
  <2>1. Parent(n) \in {"source", "index", "attempt", "store"}
    BY DirectoriesAre DEF Name, Directory
  <2> QED BY <1>1, <1>2, <1>3, <2>1 DEF Flushed, Present, Has
<1> QED BY <1>3

LEMMA SoundStep ==
  ASSUME IInv, NEW p \in Process, Acts(p)
  PROVE  Sound'
<1>0. /\ Typed /\ TypeOK /\ RejectedEffect(p) /\ Adds(p) /\ Sound /\ kind' = kind
      /\ disk \subseteq disk' /\ disk' \subseteq disk \cup Present
  BY Effects, FileStep DEF IInv, Typed, RejectedEffect
<1>1. \A n \in Name : files'[n] \in {Absent, Whole}
  BY <1>0, FilesGrow DEF Sound
<1>2. loose' = {}
  BY FileStep
<1>3. ASSUME NEW n \in Name, Has(n)', NEW d \in Above(n)
      PROVE  Has(d)'
  <2>1. d \in Name
    BY <1>3, DirectoriesAre DEF Name, Directory
  <2>2. CASE Has(n)
    BY <1>0, <1>3, <2>1, <2>2, FilesGrow DEF Sound, Has
  <2>3. CASE ~Has(n)
    <3>1. Ready(p, n)
      BY <1>0, <1>3, <2>3 DEF Adds, Has, TypeOK
    <3>2. /\ Has("source") => Has("attempt")
          /\ Has("binding") => Has("attempt")
      BY <1>0, DirectoriesAre, NamesAre DEF Sound
    <3>3. Has(d)
      BY <1>3, <3>1, <3>2, DirectoriesAre DEF Ready
    <3> QED BY <1>0, <2>1, <3>3, FilesGrow DEF Has
  <2> QED BY <2>2, <2>3
<1>4. kind' = "other" => ~Has("payload")' /\ ~Has("index_payload")'
  <2>1. SUFFICES ASSUME kind = "other", NEW n \in {"payload", "index_payload"}
                 PROVE  ~Has(n)'
    BY <1>0
  <2>2. ~Ready(p, n) /\ ~Has(n) /\ n \in Name
    BY <1>0, <2>1, NamesAre DEF Ready, Sound
  <2> QED BY <1>0, <2>2 DEF Adds, Has, TypeOK
<1>5. \A n \in disk' : Has(n)'
  BY <1>0, FilesGrow DEF Sound, Present, Has, TypeOK
<1>6. /\ confirmed' \subseteq disk'
      /\ \A n \in confirmed' : Above(n) \subseteq confirmed'
  <2>1. CASE confirmed' = confirmed
    BY <1>0, <2>1 DEF Sound
  <2>2. CASE SyncStore(p)
    <3>1. confirmed' = Present
      BY <2>2 DEF SyncStore
    <3>2. \A n \in Name : Above(n) \subseteq Name
      BY DirectoriesAre DEF Name, Directory
    <3> QED BY <1>0, <2>2, <3>1, <3>2, AllFlushed DEF Present, Sound, Has
  <2> QED BY <1>0, <2>1, <2>2, ConfirmStep
<1> QED BY <1>1, <1>2, <1>3, <1>4, <1>5, <1>6 DEF Sound

LEMMA EvidentStep ==
  ASSUME IInv, NEW p \in Process, Acts(p)
  PROVE  Evident'
<1>1. EvidenceEffect(p) /\ Evident /\ evidence \in [Fact -> Content]
  BY Effects DEF IInv, Typed, TypeOK
<1>2. \A f \in Fact : evidence'[f] \in {evidence[f], Whole}
  BY <1>1 DEF EvidenceEffect
<1>3. \A f \in Fact : evidence[f] # Absent => evidence'[f] # Absent
  BY <1>1, <1>2, Distinct
<1>4. evidenceLoose' = {}
  BY <1>1 DEF EvidenceEffect, Evident
<1>5. settled' \subseteq evidenceDisk' /\ \A f \in evidenceDisk' : evidence'[f] # Absent
  <2>1. evidenceDisk \subseteq Fact
    BY DEF IInv, Typed, TypeOK
  <2> QED BY <1>1, <1>3, <2>1 DEF EvidenceEffect, Evident, Stored
<1> QED BY <1>1, <1>2, <1>4, <1>5 DEF Evident

-----------------------------------------------------------------------------
(* Who has the lock.                                                       *)

LEMMA LockStep ==
  ASSUME Typed, NEW p \in Process, Acts(p)
  PROVE  \/ TakeLock(p) /\ pc[p] = "lock" /\ ~Return(p)
         \/ Close(p)
         \/ writer' = writer /\ readers' = readers
<1>0. TypeOK
  BY DEF Typed
<1>1. Return(p) => Close(p)
  BY DEF Return
<1>2. Unchanged => writer' = writer /\ readers' = readers
  BY DEF Unchanged, locks
<1>3. ASSUME NEW n, NEW b, NEW f, Make(n, b, f)
      PROVE  writer' = writer /\ readers' = readers
  BY <1>3 DEF Make, locks
<1>4. CASE EvidenceStep(p)
  BY <1>1, <1>2, <1>4 DEF EvidenceStep, StartEvidence, ReadEvidence, LinkEvidence, LinkEncoding,
       UnlinkEvidence, RereadEvidence, SyncEvidence, Move, Announce, Quit, End
<1>5. CASE StopProcess(p)
  BY <1>5 DEF StopProcess, Stop
<1>6. CASE MakeAttempt(p) \/ MakeSource(p) \/ MakeIndex(p)
  BY <1>2, <1>3, <1>6 DEF MakeAttempt, MakeSource, MakeIndex, MakeDirectory
<1>7. CASE TakeLock(p)
  BY <1>1, <1>7 DEF TakeLock, Step
<1>8. CASE Start(p) \/ OpenAttempt(p) \/ PublishBinding(p)
  BY <1>1, <1>2, <1>3, <1>8 DEF Start, OpenAttempt, PublishBinding
<1>9. CASE LookAtRecord(p) \/ CopyPayload(p) \/ LinkPayload(p) \/ LinkRecord(p)
  BY <1>1, <1>2, <1>3, <1>9 DEF LookAtRecord, CopyPayload, Copied, LinkPayload, LinkRecord
<1>10. CASE LinkIndexPayload(p) \/ LinkIndexRecord(p) \/ Identify(p) \/ Verify(p)
  BY <1>1, <1>2, <1>10 DEF LinkIndexPayload, LinkIndexRecord, Identify, Verify, locks
<1>11. CASE SyncSource(p) \/ SyncIndex(p) \/ SyncAttempt(p) \/ SyncStore(p) \/ SyncFails(p)
  BY <1>11 DEF SyncSource, SyncIndex, SyncAttempt, SyncDirectory, SyncStore, SyncFails, locks
<1> QED BY <1>4, <1>5, <1>6, <1>7, <1>8, <1>9, <1>10, <1>11 DEF Acts, RunRejected

LEMMA LockedStep ==
  ASSUME IInv, NEW p \in Process, Acts(p)
  PROVE  Locked'
<1>1. Typed /\ Locked
  BY DEF IInv
<1>2. CASE TakeLock(p) /\ ~Return(p)
  BY <1>1, <1>2 DEF TakeLock, Locked
<1>3. CASE Close(p)
  BY <1>1, <1>3 DEF Close, Locked
<1> QED BY <1>1, <1>2, <1>3, LockStep DEF Locked

-----------------------------------------------------------------------------
(* What a call has reached.                                                *)

LEMMA FactsStay ==
  ASSUME IInv, NEW p \in Process, Acts(p)
  PROVE  /\ \A n \in Name : Has(n) => Has(n)'
         /\ \A n \in Name : PayloadVerifies(n) => PayloadVerifies(n)'
         /\ kind' = kind
<1>1. Adds(p) /\ TypeOK /\ kind' = kind
  BY FileStep, Effects DEF IInv, Typed, RejectedEffect
<1>2. \A n \in Name : Has(n) => files'[n] = files[n]
  BY <1>1, FilesGrow
<1>3. \A n \in Name : files[n] = Whole => files'[n] = Whole
  BY <1>2, Distinct DEF Has
<1> QED BY <1>1, <1>2, <1>3 DEF Has, PayloadVerifies

\* Whoever works on under the lock that it has.
LEMMA MoverHeld ==
  ASSUME IInv, NEW p \in Process, Acts(p)
  PROVE  Held(p)'
<1>0. TypeOK /\ Typed /\ Shape(p) /\ Held(p)
  BY DEF IInv, Typed
<1> USE DEF Held, PublishPoint, WritePoint, SyncPoint, EvidencePoint
<1>1. ASSUME pc'[p] \notin WritePoint, pc'[p] # "look", pc'[p] \notin SyncPoint
      PROVE  Held(p)'
  BY <1>1
<1>2. ASSUME Close(p)
      PROVE  Held(p)'
  BY <1>0, <1>1, <1>2, Closes
<1>3. Return(p) => Close(p)
  BY DEF Return
<1>4. ASSUME NEW from, NEW to, Step(p, from, to)
      PROVE  /\ pc[p] = from /\ pc'[p] = to /\ call'[p] = call[p]
  BY <1>0, <1>4, Goes DEF Step
<1>5. CASE EvidenceStep(p)
  <2>1. Return(p) \/ \E to \in EvidencePoint : Goto(p, to)
    BY <1>5 DEF EvidenceStep, StartEvidence, ReadEvidence, LinkEvidence, LinkEncoding,
       UnlinkEvidence, RereadEvidence, SyncEvidence, Move, Announce, Quit, End, Step
  <2>2. ASSUME NEW to \in EvidencePoint, Goto(p, to)
        PROVE  Held(p)'
    BY <1>0, <1>1, <2>2, Goes
  <2> QED BY <1>2, <1>3, <2>1, <2>2
<1>6. CASE StopProcess(p)
  BY <1>2, <1>6 DEF StopProcess, Stop
<1>7. CASE Start(p)
  <2>1. \E to \in {"mkdir", "identify", "open_dir"} : Goto(p, to)
    BY <1>7 DEF Start
  <2> QED BY <1>0, <1>1, <2>1, Goes
<1>8. CASE MakeAttempt(p) \/ OpenAttempt(p) \/ PublishBinding(p) \/ Identify(p) \/ Verify(p)
  <2>1. \/ Return(p)
        \/ \E to \in {"open_dir", "lock", "bind", "verify"} : Goto(p, to)
    BY <1>8 DEF MakeAttempt, MakeDirectory, OpenAttempt, PublishBinding, Identify, Verify, Step
  <2>2. ASSUME NEW to \in {"open_dir", "lock", "bind", "verify"}, Goto(p, to)
        PROVE  Held(p)'
    BY <1>0, <1>1, <2>2, Goes
  <2> QED BY <1>2, <1>3, <2>1, <2>2
<1>9. CASE TakeLock(p)
  <2>1. CASE Return(p)
    BY <1>2, <1>3, <2>1
  <2>2. CASE ~Return(p)
    <3>1. /\ Step(p, "lock", CASE call[p].operation = "publish" -> "mkdir_source"
                               [] call[p].operation = "load" -> "look"
                               [] OTHER -> "sync_source")
          /\ call[p].operation = "publish" => writer' = p
          /\ call[p].operation # "publish" => readers' = readers \cup {p}
      BY <1>9, <2>2 DEF TakeLock
    <3> QED BY <1>4, <3>1
  <2> QED BY <2>1, <2>2
<1>10. ASSUME writer' = writer, readers' = readers, NEW from \in WritePoint \cup {"look"},
              NEW to \in WritePoint \cup {"look"}, Step(p, from, to),
              from = "look" => call[p].operation = "publish"
       PROVE  Held(p)'
  BY <1>0, <1>4, <1>10
<1>11. ASSUME writer' = writer, readers' = readers, NEW from \in SyncPoint,
              NEW to \in SyncPoint, Step(p, from, to)
       PROVE  Held(p)'
  BY <1>0, <1>4, <1>11
<1>12. CASE MakeSource(p) \/ LookAtRecord(p) \/ LinkPayload(p) \/ LinkRecord(p)
            \/ MakeIndex(p) \/ LinkIndexPayload(p) \/ LinkIndexRecord(p)
  <2>1. \/ Close(p)
        \/ \E from \in WritePoint \cup {"look"}, to \in WritePoint \cup {"look"} :
             Step(p, from, to) /\ (from = "look" => call[p].operation = "publish")
    <3>1. CASE MakeSource(p)
      <4>1. Step(p, "mkdir_source", "look")
        BY <3>1 DEF MakeSource, MakeDirectory
      <4> QED BY <4>1
    <3>4. CASE MakeIndex(p)
      <4>1. \/ Step(p, "mkdir_index", "link_index_payload")
            \/ Step(p, "mkdir_index", "link_index_record")
        BY <3>4 DEF MakeIndex, MakeDirectory
      <4> QED BY <4>1
    <3>2. CASE LookAtRecord(p)
      BY <1>0, <1>3, <3>2 DEF LookAtRecord, Shape
    <3>3. CASE LinkPayload(p) \/ LinkRecord(p) \/ LinkIndexPayload(p) \/ LinkIndexRecord(p)
      BY <1>3, <3>3 DEF LinkPayload, LinkRecord, LinkIndexPayload, LinkIndexRecord
    <3> QED BY <1>12, <3>1, <3>2, <3>3, <3>4
  <2>2. CASE Close(p)
    BY <1>2, <2>2
  <2>3. CASE ~Close(p)
    <3>1. ~TakeLock(p)
      BY <1>12 DEF TakeLock, MakeSource, LookAtRecord, LinkPayload, LinkRecord, MakeIndex,
           MakeDirectory, LinkIndexPayload, LinkIndexRecord, Step
    <3> QED BY <1>0, <1>10, <2>1, <2>3, <3>1, LockStep
  <2> QED BY <2>2, <2>3
<1>13. CASE CopyPayload(p)
  <2>1. CASE Copied(p, Whole, TRUE)
    <3>1. /\ pc[p] = "copy" /\ pc'[p] = "link_payload" /\ writer' = writer
      BY <1>0, <1>13, <2>1, Goes DEF CopyPayload, Copied, Unchanged, locks
    <3> QED BY <1>0, <3>1
  <2> QED BY <1>2, <1>3, <1>13, <2>1 DEF CopyPayload
<1>14. CASE SyncSource(p) \/ SyncIndex(p) \/ SyncAttempt(p)
  <2>1. writer' = writer /\ readers' = readers
    BY <1>14 DEF SyncSource, SyncIndex, SyncAttempt, SyncDirectory, locks
  <2> QED BY <1>11, <1>14, <2>1 DEF SyncSource, SyncIndex, SyncAttempt, SyncDirectory
<1>15. CASE SyncStore(p) \/ SyncFails(p)
  BY <1>2, <1>15 DEF SyncStore, SyncFails
<1> QED BY <1>5, <1>6, <1>7, <1>8, <1>9, <1>12, <1>13, <1>14, <1>15 DEF Acts, RunRejected

\* What each call has found or made.
LEMMA MoverReached ==
  ASSUME IInv, NEW p \in Process, Acts(p)
  PROVE  Reached(p)'
<1>0. /\ TypeOK /\ Typed /\ Shape(p) /\ Reached(p) /\ Sound
      /\ \A n \in Name : Has(n) => Has(n)'
      /\ \A n \in Name : PayloadVerifies(n) => PayloadVerifies(n)'
  BY FactsStay DEF IInv, Typed
<1> USE NamesAre DEF Reached, SyncPoint
<1>1. ASSUME NEW to \in EvidencePoint \cup {"idle", "mkdir", "identify", "verify"},
             pc'[p] = to
      PROVE  Reached(p)'
  BY <1>1 DEF EvidencePoint
<1>2. ASSUME Close(p)
      PROVE  Reached(p)'
  BY <1>0, <1>1, <1>2, Closes
<1>3. Return(p) => Close(p)
  BY DEF Return
<1>4. ASSUME NEW from, NEW to, Step(p, from, to)
      PROVE  pc[p] = from /\ pc'[p] = to /\ call'[p] = call[p]
  BY <1>0, <1>4, Goes DEF Step
<1>5. ASSUME NEW from, NEW d \in Name, NEW to, MakeDirectory(p, from, d, to)
      PROVE  Has(d)' /\ pc[p] = from /\ pc'[p] = to /\ call'[p] = call[p]
  <2>1. Step(p, from, to)
    BY <1>5 DEF MakeDirectory
  <2>2. Has(d)'
    BY <1>0, <1>5, Distinct DEF MakeDirectory, Make, Has, TypeOK
  <2> QED BY <1>4, <2>1, <2>2
<1>6. CASE EvidenceStep(p)
  <2>1. Return(p) \/ \E to \in EvidencePoint : Goto(p, to)
    BY <1>6 DEF EvidenceStep, StartEvidence, ReadEvidence, LinkEvidence, LinkEncoding,
       UnlinkEvidence, RereadEvidence, SyncEvidence, Move, Announce, Quit, End, Step,
       EvidencePoint
  <2> QED BY <1>0, <1>1, <1>2, <1>3, <2>1, Goes
<1>7. CASE StopProcess(p)
  BY <1>2, <1>7 DEF StopProcess, Stop
<1>8. CASE Start(p)
  <2>1. PICK operation \in Operation \ {"none"} :
          /\ call' = [call EXCEPT ![p] = Calling(operation)]
          /\ Goto(p, CASE operation = "publish" -> "mkdir"
                       [] operation = "identify" -> "identify"
                       [] OTHER -> "open_dir")
    BY <1>8 DEF Start
  <2>2. call'[p].operation = operation
    BY <1>0, <2>1 DEF TypeOK, Calling
  <2>3. CASE operation \in {"publish", "identify"}
    BY <1>0, <1>1, <2>1, <2>3, Goes
  <2>4. CASE operation \notin {"publish", "identify"}
    <3>1. pc'[p] = "open_dir"
      BY <1>0, <2>1, <2>4, Goes
    <3> QED BY <2>2, <2>4, <3>1
  <2> QED BY <2>3, <2>4
<1>9. CASE MakeAttempt(p)
  BY <1>5, <1>9 DEF MakeAttempt
<1>10. CASE OpenAttempt(p)
  <2>1. \/ Return(p)
        \/ Step(p, "open_dir", "lock") /\ files["binding"] \notin {Absent, Empty}
        \/ Step(p, "open_dir", "bind") /\ call[p].operation = "publish"
    BY <1>10 DEF OpenAttempt
  <2> QED BY <1>0, <1>2, <1>3, <1>4, <2>1 DEF Has
<1>11. CASE PublishBinding(p)
  <2>1. \/ Return(p)
        \/ Step(p, "bind", "lock") /\ (Has("binding") \/ Make("binding", Whole, TRUE))
    BY <1>11, Distinct DEF PublishBinding, Has, Decodes
  <2>2. Has("binding") \/ Make("binding", Whole, TRUE) => Has("binding")'
    BY <1>0, Distinct DEF Make, Has, TypeOK
  <2>3. ASSUME Step(p, "bind", "lock"), Has("binding")'
        PROVE  Reached(p)'
    BY <1>4, <2>3
  <2> QED BY <1>2, <1>3, <2>1, <2>2, <2>3
<1>12. CASE TakeLock(p)
  <2>1. \/ Return(p)
        \/ Step(p, "lock", CASE call[p].operation = "publish" -> "mkdir_source"
                             [] call[p].operation = "load" -> "look"
                             [] OTHER -> "sync_source")
    BY <1>12 DEF TakeLock
  <2>2. ASSUME NEW to \in {"mkdir_source", "look", "sync_source"}, Step(p, "lock", to),
               to = "look" => call[p].operation = "load"
        PROVE  Reached(p)'
    BY <1>0, <1>4, <2>2
  <2> QED BY <1>2, <1>3, <2>1, <2>2
<1>13. CASE MakeSource(p)
  BY <1>0, <1>5, <1>13 DEF MakeSource
<1>14. CASE LookAtRecord(p)
  <2>1. \/ Close(p)
        \/ \E to \in {"copy", "link_record"} :
             /\ Step(p, "look", to) /\ call[p].operation = "publish"
             /\ to = "link_record" => kind # "regular"
        \/ /\ Step(p, "look", "mkdir_index") /\ call[p].operation = "publish"
           /\ Has("record") /\ PayloadVerifies("payload")
    BY <1>0, <1>3, <1>14, Distinct DEF LookAtRecord, Decodes, Shape, Has
  <2>2. kind # "regular" => PayloadVerifies("payload")
    BY DEF PayloadVerifies
  <2> QED BY <1>0, <1>2, <1>4, <2>1, <2>2
<1>15. CASE CopyPayload(p)
  <2>1. CASE Copied(p, Whole, TRUE)
    <3>1. /\ pc[p] = "copy" /\ pc'[p] = "link_payload"
          /\ call'[p].bytes = Whole /\ call'[p].flushed = TRUE
      BY <1>0, <1>15, <2>1, Goes DEF CopyPayload, Copied, TypeOK
    <3> QED BY <1>0, <3>1
  <2> QED BY <1>2, <1>3, <1>15, <2>1 DEF CopyPayload
<1>16. CASE LinkPayload(p)
  <2>1. \/ Return(p)
        \/ /\ Step(p, "link_payload", "link_record")
           /\ files["payload"] = Whole \/ Make("payload", call[p].bytes, call[p].flushed)
    BY <1>16 DEF LinkPayload
  <2>2. pc[p] = "link_payload" => call[p].bytes = Whole
    BY <1>0
  <2>3. /\ Make("payload", Whole, call[p].flushed) => PayloadVerifies("payload")'
        /\ files["payload"] = Whole => PayloadVerifies("payload")'
    BY <1>0 DEF Make, PayloadVerifies, TypeOK
  <2> QED BY <1>0, <1>2, <1>3, <1>4, <2>1, <2>2, <2>3
<1>17. CASE LinkRecord(p)
  <2>1. \/ Return(p)
        \/ Step(p, "link_record", "mkdir_index") /\ Make("record", Whole, TRUE)
    BY <1>17 DEF LinkRecord
  <2>2. Make("record", Whole, TRUE) => Has("record")'
    BY <1>0, Distinct DEF Make, Has, TypeOK
  <2>3. ASSUME Step(p, "link_record", "mkdir_index"), Has("record")'
        PROVE  Reached(p)'
    BY <1>0, <1>4, <2>3
  <2> QED BY <1>2, <1>3, <2>1, <2>2, <2>3
<1>18. CASE MakeIndex(p)
  <2>1. kind # "regular" => PayloadVerifies("index_payload")
    BY DEF PayloadVerifies
  <2>2. CASE kind = "regular"
    BY <1>0, <1>5, <1>18, <2>2 DEF MakeIndex
  <2>3. CASE kind # "regular"
    BY <1>0, <1>5, <1>18, <2>1, <2>3 DEF MakeIndex
  <2> QED BY <2>2, <2>3
<1>19. CASE LinkIndexPayload(p)
  <2>1. /\ pc[p] = "link_index_payload"
        /\ \/ Return(p)
           \/ /\ Step(p, "link_index_payload", "link_index_record")
              /\ Has("index_payload") \/ LinkAgain("payload")
    BY <1>19 DEF LinkIndexPayload, Has
  <2>2. Has("index_payload") => PayloadVerifies("index_payload")
    BY <1>0 DEF Sound, Has, PayloadVerifies
  <2>3. LinkAgain("payload") => PayloadVerifies("index_payload")'
    <3>1. kind' = kind
      BY FactsStay
    <3> QED BY <1>0, <2>1, <3>1 DEF LinkAgain, PayloadVerifies, TypeOK
  <2> QED BY <1>0, <1>2, <1>3, <1>4, <2>1, <2>2, <2>3
<1>20. CASE LinkIndexRecord(p) \/ SyncStore(p) \/ SyncFails(p)
  BY <1>2, <1>3, <1>20 DEF LinkIndexRecord, SyncStore, SyncFails
<1>21. CASE Identify(p) \/ Verify(p)
  BY <1>1, <1>2, <1>3, <1>4, <1>21 DEF Identify, Verify
<1>22. ASSUME NEW from, NEW d, NEW to, SyncDirectory(p, from, d, to)
       PROVE  /\ Flushed(d)' /\ pc[p] = from /\ pc'[p] = to
              /\ \A e : Flushed(e) => Flushed(e)'
  <2>1. files' = files /\ disk' = disk \cup {n \in Present : Parent(n) = d}
    BY <1>22 DEF SyncDirectory
  <2>2. Step(p, from, to)
    BY <1>22 DEF SyncDirectory
  <2> QED BY <1>4, <2>1, <2>2 DEF Flushed, Has, Present
<1>23. CASE SyncSource(p)
  BY <1>0, <1>22, <1>23 DEF SyncSource
<1>24. CASE SyncIndex(p)
  BY <1>0, <1>22, <1>24 DEF SyncIndex
<1>25. CASE SyncAttempt(p)
  BY <1>0, <1>22, <1>25 DEF SyncAttempt
<1> QED BY <1>6, <1>7, <1>8, <1>9, <1>10, <1>11, <1>12, <1>13, <1>14, <1>15, <1>16, <1>17,
           <1>18, <1>19, <1>20, <1>21, <1>23, <1>24, <1>25 DEF Acts, RunRejected

-----------------------------------------------------------------------------
(* The order of the names, and what the engine knows of them.              *)

LEMMA KnownStep ==
  ASSUME Typed, NEW p \in Process, Acts(p)
  PROVE  /\ named' = named \/ (LinkIndexRecord(p) /\ ~Return(p))
         /\ status' \in {status, "unconfirmed"} \/ SyncStore(p)
<1>1. ASSUME Unchanged \/ Return(p)
      PROVE  named' = named /\ status' = status
  BY <1>1 DEF Unchanged, Return, journal
<1>2. ASSUME NEW n, NEW b, NEW f, Make(n, b, f)
      PROVE  named' = named /\ status' = status
  BY <1>2 DEF Make, journal
<1>3. CASE EvidenceStep(p)
  BY <1>3, EvidenceSteps
<1>4. CASE StopProcess(p)
  BY <1>4 DEF StopProcess, Stop, journal
<1>5. CASE MakeAttempt(p) \/ MakeSource(p) \/ MakeIndex(p)
  BY <1>1, <1>2, <1>5 DEF MakeAttempt, MakeSource, MakeIndex, MakeDirectory
<1>6. CASE Start(p) \/ OpenAttempt(p) \/ PublishBinding(p) \/ TakeLock(p)
  BY <1>1, <1>2, <1>6 DEF Start, OpenAttempt, PublishBinding, TakeLock, journal
<1>7. CASE LookAtRecord(p) \/ CopyPayload(p) \/ LinkPayload(p) \/ LinkRecord(p)
  BY <1>1, <1>2, <1>7 DEF LookAtRecord, CopyPayload, Copied, LinkPayload, LinkRecord, journal
<1>8. CASE LinkIndexPayload(p) \/ Identify(p) \/ Verify(p)
  BY <1>1, <1>8 DEF LinkIndexPayload, Identify, Verify, journal
<1>9. CASE LinkIndexRecord(p)
  BY <1>1, <1>9 DEF LinkIndexRecord
<1>10. CASE SyncSource(p) \/ SyncIndex(p) \/ SyncAttempt(p) \/ SyncStore(p) \/ SyncFails(p)
  BY <1>10 DEF SyncSource, SyncIndex, SyncAttempt, SyncDirectory, SyncStore, SyncFails, journal
<1> QED BY <1>3, <1>4, <1>5, <1>6, <1>7, <1>8, <1>9, <1>10 DEF Acts, RunRejected

\* When a publication returns, everything that it publishes is there.
LEMMA AllPublished ==
  ASSUME IInv, ~undone, NEW p \in Process, LinkIndexRecord(p), ~Return(p)
  PROVE  \A n \in Published : Has(n)'
<1>1. TypeOK /\ Reached(p) /\ pc[p] = "link_index_record"
  BY DEF IInv, Typed, LinkIndexRecord
<1>2. /\ Has("record") /\ Has("index") /\ PayloadVerifies("payload")
      /\ PayloadVerifies("index_payload")
  BY <1>1 DEF Reached
<1>3. Has("source") /\ Has("attempt")
  BY <1>2, NamesAre, DirectoriesAre DEF IInv, Sound
<1>4. Has("binding")
  BY <1>3 DEF IInv, Ordered
<1>5. files["record"] = Whole
  BY <1>2, NamesAre DEF IInv, Sound, Has
<1>6. kind = "regular" => Has("payload") /\ Has("index_payload")
  BY <1>2, Distinct DEF PayloadVerifies, Has
<1>7. /\ files' \in {files, [files EXCEPT !["index_record"] = files["record"]]}
      /\ files'["index_record"] # Absent
  BY <1>1, <1>5, Distinct, NamesAre DEF LinkIndexRecord, LinkAgain, storage, TypeOK
<1>8. kind \in Kind
  BY <1>1 DEF TypeOK
<1> QED BY <1>1, <1>2, <1>3, <1>4, <1>6, <1>7, <1>8
        DEF Published, Has, Name, Directory, Kind, TypeOK

LEMMA OrderedStep ==
  ASSUME IInv, NEW p \in Process, Acts(p)
  PROVE  Ordered'
<1>0. /\ Typed /\ TypeOK /\ Shape(p) /\ Adds(p) /\ undone' = undone /\ kind' = kind
      /\ \A n \in Name : Has(n) => Has(n)'
      /\ \A n \in Name : PayloadVerifies(n) => PayloadVerifies(n)'
  BY Effects, FileStep, FactsStay DEF IInv, Typed, RejectedEffect
<1>1. SUFFICES ASSUME ~undone
               PROVE  /\ apart' = {}
                      /\ Has("source")' => Has("binding")'
                      /\ Has("record")' => PayloadVerifies("payload")'
                      /\ Has("index_payload")' => Has("payload")'
                      /\ Has("index_record")' => Has("record")'
                                                   /\ PayloadVerifies("index_payload")'
                      /\ named' => \A n \in Published' : Has(n)'
                      /\ status' = "confirmed" => Published' \subseteq confirmed'
  BY <1>0 DEF Ordered
<1>2. /\ Has("source") => Has("binding")
      /\ Has("record") => PayloadVerifies("payload")
      /\ Has("index_payload") => Has("payload")
      /\ Has("index_record") => Has("record") /\ PayloadVerifies("index_payload")
      /\ named => \A n \in Published : Has(n)
      /\ status = "confirmed" => Published \subseteq confirmed
  BY <1>1 DEF IInv, Ordered
<1>3. ASSUME NEW n \in Name, ~Has(n), Has(n)'
      PROVE  Ready(p, n)
  BY <1>0, <1>3 DEF Adds, Has, TypeOK
<1>4. /\ Has("source")' => Has("binding")'
      /\ Has("record")' => PayloadVerifies("payload")'
      /\ Has("index_payload")' => Has("payload")'
      /\ Has("index_record")' => Has("record")' /\ PayloadVerifies("index_payload")'
  <2>1. Has("source")' => Has("binding")'
    BY <1>0, <1>2, <1>3, NamesAre DEF Ready
  <2>2. Has("record")' => PayloadVerifies("payload")'
    BY <1>0, <1>2, <1>3, NamesAre DEF Ready
  <2>3. Has("index_payload")' => Has("payload")'
    BY <1>0, <1>2, <1>3, NamesAre DEF Ready
  <2>4. Has("index_record")' => Has("record")' /\ PayloadVerifies("index_payload")'
    BY <1>0, <1>2, <1>3, NamesAre DEF Ready
  <2> QED BY <2>1, <2>2, <2>3, <2>4
<1>5. Published' = Published /\ Published \subseteq Name
  BY <1>0 DEF Published
<1>6. named' => \A n \in Published : Has(n)'
  BY <1>0, <1>1, <1>2, <1>5, KnownStep, AllPublished
<1>7. status' = "confirmed" => Published \subseteq confirmed'
  <2>1. CASE SyncStore(p)
    <3>1. named /\ confirmed' = Present
      BY <1>0, <2>1 DEF SyncStore, Shape, SyncPoint
    <3> QED BY <1>2, <1>5, <3>1 DEF Present, Has
  <2>2. CASE ~SyncStore(p)
    BY <1>0, <1>2, <2>2, KnownStep, ConfirmStep
  <2> QED BY <2>1, <2>2
<1>8. apart' = {}
  <2>1. Joined
    BY <1>1, <1>2, NamesAre DEF IInv, Ordered, Joined
  <2> QED BY <2>1, FileStep
<1> QED BY <1>1, <1>4, <1>5, <1>6, <1>7, <1>8

-----------------------------------------------------------------------------
(* A loss of power.                                                        *)

\* What is flushed stays; while nothing is undone, nothing at all is lost.
LEMMA PowerKeeps ==
  ASSUME IInv, LosePower
  PROVE  /\ disk' \subseteq Present
         /\ \A n \in Name : files'[n] = IF n \in disk' THEN files[n] ELSE Absent
         /\ \A n \in disk' : Above(n) \subseteq disk'
         /\ confirmed \subseteq disk'
         /\ ~undone' => ~undone /\ files' = files
<1>1. PICK kept \in SUBSET Present :
        disk \subseteq kept /\ disk' = {n \in kept : Above(n) \subseteq kept}
  BY DEF LosePower, PowerLoss
<1>2. disk' \subseteq Present
  BY <1>1
<1>3. \A n \in Name : files'[n] = IF n \in disk' THEN files[n] ELSE Absent
  BY DEF LosePower, PowerLoss, IInv, Sound
<1>4. \A n \in Name : \A d \in Above(n) : Above(d) \subseteq Above(n)
  BY DirectoriesAre DEF Name, Directory
<1>5. \A n \in disk' : Above(n) \subseteq disk'
  BY <1>1, <1>4 DEF Present
<1>6. confirmed \subseteq disk'
  BY <1>1 DEF IInv, Sound
<1>7. ASSUME ~undone'
      PROVE  ~undone /\ files' = files
  <2>1. ~undone /\ (status = "confirmed" \/ disk' = Present)
    BY <1>7 DEF LosePower, PowerLoss
  <2>2. status = "confirmed" => Present \subseteq disk'
    <3>1. SUFFICES ASSUME status = "confirmed", NEW n \in Present
                   PROVE  n \in Published
      BY <1>6, <2>1 DEF IInv, Ordered
    <3>2. n \in Name /\ (kind = "other" => n \notin {"payload", "index_payload"})
      BY <3>1 DEF IInv, Sound, Present, Has
    <3>3. kind \in {"regular", "other"}
      BY DEF IInv, Typed, TypeOK, Kind
    <3> QED BY <3>2, <3>3 DEF Published
  <2>3. \A n \in Name : files'[n] = files[n]
    BY <1>3, <2>1, <2>2 DEF Present
  <2>4. files \in [Name -> Content] /\ files' \in [Name -> Content]
    BY PowerType DEF IInv, Typed, TypeOK
  <2> QED BY <2>1, <2>3, <2>4
<1> QED BY <1>2, <1>3, <1>5, <1>6, <1>7

LEMMA PowerStep ==
  ASSUME IInv, LosePower
  PROVE  IInv'
<1>0. Typed' /\ kind' = kind
  BY TypedStep DEF IInv, Next, LosePower, PowerLoss
<1>1. Sound'
  <2>1. \A n \in Name : files'[n] \in {Absent, Whole}
    BY PowerKeeps DEF IInv, Sound
  <2>2. loose' = {} /\ confirmed' = confirmed
    BY DEF LosePower, PowerLoss
  <2>3. \A n \in Name : Has(n)' <=> n \in disk'
    BY PowerKeeps DEF Has, Present
  <2>4. disk' \subseteq Name /\ confirmed \subseteq Name
    BY PowerKeeps DEF Present, IInv, Typed, TypeOK
  <2>5. \A n \in Name : Has(n)' => \A d \in Above(n) : Has(d)'
    BY <2>3, <2>4, PowerKeeps
  <2>6. kind' = "other" => ~Has("payload")' /\ ~Has("index_payload")'
    BY <1>0, <2>3, NamesAre, PowerKeeps DEF IInv, Sound, Present, Has
  <2>7. \A n \in confirmed : Above(n) \subseteq confirmed
    BY DEF IInv, Sound
  <2> QED BY <2>1, <2>2, <2>3, <2>4, <2>5, <2>6, <2>7, PowerKeeps DEF Sound
<1>2. Locked'
  BY DEF LosePower, PowerLoss, Locked
<1>3. Ordered'
  <2>1. SUFFICES ASSUME ~undone' PROVE Ordered'
    BY DEF Ordered
  <2>2. /\ ~undone /\ files' = files /\ named' = named /\ status' = status
        /\ confirmed' = confirmed
    BY <2>1, PowerKeeps DEF LosePower, PowerLoss, journal
  <2>3. apart' = {}
    BY <2>2 DEF LosePower, PowerLoss, IInv, Ordered
  <2> QED BY <1>0, <2>2, <2>3 DEF IInv, Ordered, Published, Has, PayloadVerifies
<1>4. Evident'
  <2>1. PICK kept \in SUBSET Stored : evidenceDisk \subseteq kept /\ evidenceDisk' = kept
    BY DEF LosePower
  <2>2. \A f \in Fact : evidence'[f] = IF f \in evidenceDisk' THEN evidence[f] ELSE Absent
    BY DEF LosePower, IInv, Evident
  <2> QED BY <2>1, <2>2 DEF LosePower, IInv, Evident, Stored
<1>5. ASSUME NEW p \in Process
      PROVE  Held(p)' /\ Reached(p)'
  BY DEF LosePower, PowerLoss, Held, Reached, WritePoint, PublishPoint, SyncPoint
<1> QED BY <1>0, <1>1, <1>2, <1>3, <1>4, <1>5 DEF IInv

-----------------------------------------------------------------------------
(* The invariant holds.                                                    *)

LEMMA OthersStep ==
  ASSUME IInv, NEW p \in Process, NEW q \in Process \ {p}, Acts(p)
  PROVE  Held(q)' /\ Reached(q)'
<1>1. /\ TypeOK /\ RejectedEffect(p) /\ EvidenceEffect(p) /\ Adds(p)
      /\ Held(q) /\ Reached(q) /\ disk \subseteq disk'
      /\ \A n \in Name : Has(n) => Has(n)'
      /\ \A n \in Name : PayloadVerifies(n) => PayloadVerifies(n)'
  BY Effects, FileStep, FactsStay DEF IInv, Typed, RejectedEffect
<1>2. /\ pc'[q] = pc[q] /\ call'[q] = call[q]
      /\ q \in readers' <=> q \in readers
      /\ writer = q => writer' = q
  BY <1>1, OthersStay
<1>3. Held(q)'
  BY <1>1, <1>2 DEF Held
<1>4. pc[q] \in SyncPoint => \A d : Flushed(d) => Flushed(d)'
  <2>1. SUFFICES ASSUME pc[q] \in SyncPoint PROVE \A d : Flushed(d) => Flushed(d)'
    OBVIOUS
  <2>2. files' = files
    BY <1>1, <2>1, ReadersKeep DEF Held, Reached
  <2> QED BY <1>1, <2>2 DEF Flushed, Has
<1>5. Reached(q)'
  BY <1>1, <1>2, <1>4, NamesAre DEF Reached, SyncPoint
<1> QED BY <1>3, <1>5

LEMMA InitInv ==
  ASSUME Init
  PROVE  IInv
<1>1. TypeOK
  <2>1. pc \in [Process -> Point \cup EvidencePoint]
    BY DEF Init, RejectedInit, Point
  <2>2. call \in [Process -> CallRecord]
    BY CallsAre DEF Init, RejectedInit
  <2>3. files \in [Name -> Content] /\ evidence \in [Fact -> Content]
        /\ publishing \in [Process -> Fact \cup {"none"}]
    BY DEF Init, RejectedInit, Content
  <2>4. /\ world \in Worlds /\ kind \in Kind /\ disk \subseteq Name /\ loose \subseteq Name
        /\ apart \subseteq {"payload", "record"}
        /\ writer \in Process \cup {NoProcess} /\ readers \subseteq Process
        /\ returned \subseteq Process /\ named \in BOOLEAN /\ status \in Status
        /\ confirmed \subseteq Name /\ undone \in BOOLEAN
        /\ evidenceDisk \subseteq Fact /\ evidenceLoose \subseteq Fact
        /\ announced \subseteq Fact /\ settled \subseteq Fact
    BY DEF Init, RejectedInit, Status
  <2> QED BY <2>1, <2>2, <2>3, <2>4 DEF TypeOK, CallRecord
<1>2. ASSUME NEW p \in Process
      PROVE  Shape(p) /\ Held(p) /\ Reached(p)
  BY <1>2, CallsAre DEF Init, RejectedInit, Shape, Held, Reached, PublishPoint, WritePoint,
       SyncPoint, NamePoint, EvidencePoint
<1>3. Sound
  <2>1. \A n \in Name : files[n] = Absent
    BY DEF Init, RejectedInit
  <2>2. disk = {} /\ loose = {} /\ confirmed = {}
    BY DEF Init, RejectedInit
  <2> QED BY <2>1, <2>2, NamesAre DEF Sound, Has
<1>4. Locked
  BY DEF Init, RejectedInit, Locked
<1>5. Ordered
  BY NamesAre DEF Init, RejectedInit, Ordered, Has
<1>6. Evident
  BY DEF Init, Evident
<1> QED BY <1>1, <1>2, <1>3, <1>4, <1>5, <1>6 DEF IInv, Typed

LEMMA VarsKept ==
  ASSUME UNCHANGED vars
  PROVE  /\ UNCHANGED <<world, kind, files, disk, loose, apart, writer, readers>>
         /\ UNCHANGED <<pc, call, returned, named, status, confirmed, undone>>
         /\ UNCHANGED <<evidence, evidenceDisk, evidenceLoose, publishing, announced, settled>>
BY DEF vars, rejecting, evidencing, storage, locks, working, journal, history

LEMMA InvStep ==
  ASSUME IInv, [Next]_vars
  PROVE  IInv'
<1>1. ASSUME NEW p \in Process, Acts(p)
      PROVE  IInv'
  <2>1. Typed'
    BY <1>1, TypedStep, NextActs DEF IInv
  <2>2. ASSUME NEW q \in Process
        PROVE  Held(q)' /\ Reached(q)'
    BY <1>1, MoverHeld, MoverReached, OthersStep
  <2> QED BY <1>1, <2>1, <2>2, SoundStep, LockedStep, OrderedStep, EvidentStep DEF IInv
<1>2. CASE UNCHANGED vars
  <2>1. Typed'
    BY TypedStep DEF IInv
  <2>2. Sound' /\ Locked' /\ Ordered' /\ Evident'
    BY <1>2, VarsKept DEF IInv, Sound, Locked, Ordered, Evident, Has, PayloadVerifies, Published
  <2>3. ASSUME NEW q \in Process
        PROVE  Held(q)' /\ Reached(q)'
    BY <1>2, VarsKept DEF IInv, Held, Reached, Has, PayloadVerifies, Flushed
  <2> QED BY <2>1, <2>2, <2>3 DEF IInv
<1> QED BY <1>1, <1>2, PowerStep, NextActs

\* Whatever happens, the store and the evidence stay in the invariant: its parts
\* are what each call has found, made or flushed at its point.
THEOREM EvidenceInvariant == Spec => []IInv
<1>1. IInv /\ [Next]_vars => IInv'
  BY InvStep
<1> QED BY <1>1, InitInv, PTL DEF Spec

\* Every variable of the two stores keeps its type.
THEOREM EvidenceTypeCorrect == Spec => []TypeOK
<1>1. IInv => TypeOK
  BY DEF IInv, Typed
<1> QED BY <1>1, EvidenceInvariant, PTL

\* Payload, record, their names in the index and the answer come in that order,
\* for every number of processes, until a loss of power undoes something.
THEOREM OrderIsKept == Spec => []PublishedInOrder
<1>1. IInv => PublishedInOrder
  <2>1. SUFFICES ASSUME IInv, ~undone
                 PROVE  /\ files["record"] = Whole => PayloadVerifies("payload")
                        /\ files["index_record"] = Whole => PayloadVerifies("index_payload")
                        /\ named => files["record"] = Whole /\ files["index_record"] = Whole
    BY DEF PublishedInOrder
  <2>2. "record" \in Published /\ "index_record" \in Published
    BY NamesAre DEF Published
  <2> QED BY <2>1, <2>2, NamesAre, Distinct DEF IInv, Ordered, Sound, Has
<1> QED BY <1>1, EvidenceInvariant, PTL

-----------------------------------------------------------------------------
(* What a publication and a load find.                                     *)

\* What a call has looked for or found, and nobody else has made or removed since.
Met(p) ==
  /\ pc[p] \in {"copy", "link_payload", "link_record"} => ~Has("record")
  /\ pc[p] = "verify" => Has("index_record")
  /\ pc[p] = "reread_evidence" => evidence[publishing[p]] # Absent

LEMMA OthersMet ==
  ASSUME IInv, NEW p \in Process, NEW q \in Process \ {p}, Acts(p), Met(q)
  PROVE  Met(q)'
<1>1. /\ Typed /\ TypeOK /\ RejectedEffect(p) /\ EvidenceEffect(p) /\ Adds(p)
      /\ Held(q) /\ Shape(q) /\ Evident
      /\ \A n \in Name : Has(n) => Has(n)'
  BY Effects, FileStep, FactsStay DEF IInv, Typed
<1>2. pc'[q] = pc[q] /\ publishing'[q] = publishing[q]
  BY <1>1, OthersStay
<1>3. pc[q] \in {"copy", "link_payload", "link_record"} => ~Has("record")'
  <2>1. SUFFICES ASSUME pc[q] \in {"copy", "link_payload", "link_record"}
                 PROVE  ~Has("record")'
    OBVIOUS
  <2>2. writer = q /\ ~Has("record")
    BY <1>1, <2>1 DEF Held, Met, WritePoint, PublishPoint
  <2>3. ~Ready(p, "record")
    BY <2>2 DEF Ready
  <2> QED BY <1>1, <2>2, <2>3, NamesAre DEF Adds, Has, TypeOK
<1>4. pc[q] = "reread_evidence" => evidence'[publishing[q]] # Absent
  <2>1. SUFFICES ASSUME pc[q] = "reread_evidence"
                 PROVE  evidence'[publishing[q]] # Absent
    OBVIOUS
  <2>2. publishing[q] \in Fact /\ evidence[publishing[q]] # Absent
    BY <1>1, <2>1 DEF Shape, NamePoint, EvidencePoint, Met
  <2> QED BY <1>1, <2>2, Distinct DEF EvidenceEffect, TypeOK
<1> QED BY <1>1, <1>2, <1>3, <1>4, NamesAre DEF Met

LEMMA MoverMet ==
  ASSUME IInv, NEW p \in Process, Acts(p), Met(p)
  PROVE  Met(p)'
<1>0. /\ TypeOK /\ Typed /\ Shape(p) /\ Sound
      /\ \A n \in Name : Has(n) => Has(n)'
  BY FactsStay DEF IInv, Typed
<1>1. ASSUME pc'[p] \notin {"copy", "link_payload", "link_record", "verify",
                            "reread_evidence"}
      PROVE  Met(p)'
  BY <1>1 DEF Met
<1>2. ASSUME Close(p)
      PROVE  Met(p)'
  BY <1>0, <1>1, <1>2, Closes
<1>3. Return(p) => Close(p)
  BY DEF Return
<1>4. ASSUME NEW from, NEW to, Step(p, from, to)
      PROVE  pc[p] = from /\ pc'[p] = to
  BY <1>0, <1>4, Goes DEF Step
<1>5. Unchanged => files' = files
  BY DEF Unchanged, storage
<1>6. CASE StartEvidence(p)
  <2>1. pc'[p] \in {"read_evidence", "sync_evidence"}
    BY <1>0, <1>6, Goes DEF StartEvidence
  <2> QED BY <1>1, <2>1
<1>7. CASE ReadEvidence(p)
  <2>1. Return(p) \/ Step(p, "read_evidence", "link_evidence")
    BY <1>7 DEF ReadEvidence, Move, Announce, Quit, End
  <2> QED BY <1>1, <1>2, <1>3, <1>4, <2>1
<1>8. CASE LinkEvidence(p)
  <2>1. \/ Step(p, "link_evidence", "unlink_evidence")
        \/ /\ Step(p, "link_evidence", "reread_evidence")
           /\ evidence[publishing[p]] # Absent /\ evidence' = evidence
           /\ publishing' = publishing
    BY <1>8 DEF LinkEvidence, LinkEncoding, Move
  <2>2. CASE Step(p, "link_evidence", "unlink_evidence")
    BY <1>1, <1>4, <2>2
  <2>3. CASE /\ Step(p, "link_evidence", "reread_evidence")
             /\ evidence[publishing[p]] # Absent /\ evidence' = evidence
             /\ publishing' = publishing
    BY <1>4, <2>3 DEF Met
  <2> QED BY <2>1, <2>2, <2>3
<1>9. CASE UnlinkEvidence(p) \/ RereadEvidence(p) \/ SyncEvidence(p)
  BY <1>2, <1>3, <1>9 DEF UnlinkEvidence, RereadEvidence, SyncEvidence, Announce, Quit, End
<1>10. CASE StopProcess(p)
  BY <1>2, <1>10 DEF StopProcess, Stop
<1>11. CASE Start(p)
  <2>1. \E to \in {"mkdir", "identify", "open_dir"} : Goto(p, to)
    BY <1>11 DEF Start
  <2> QED BY <1>0, <1>1, <2>1, Goes
<1>12. ASSUME NEW from, NEW d,
              NEW to \in {"open_dir", "look", "link_index_payload", "link_index_record"},
              MakeDirectory(p, from, d, to)
       PROVE  Met(p)'
  BY <1>1, <1>4, <1>12 DEF MakeDirectory
<1>13. CASE MakeAttempt(p) \/ MakeSource(p) \/ MakeIndex(p)
  BY <1>12, <1>13 DEF MakeAttempt, MakeSource, MakeIndex
<1>14. CASE OpenAttempt(p) \/ PublishBinding(p) \/ TakeLock(p)
  <2>1. \/ Return(p)
        \/ \E from : \E to \in {"lock", "bind", "mkdir_source", "look", "sync_source"} :
             Step(p, from, to)
    BY <1>14 DEF OpenAttempt, PublishBinding, TakeLock
  <2> QED BY <1>1, <1>2, <1>3, <1>4, <2>1
<1>15. CASE LookAtRecord(p)
  <2>1. \/ Close(p)
        \/ Step(p, "look", "mkdir_index")
        \/ \E to \in {"copy", "link_record"} :
             Step(p, "look", to) /\ Unchanged /\ files["record"] \in {Absent, Empty}
    BY <1>3, <1>15 DEF LookAtRecord
  <2>2. files["record"] \in {Absent, Empty} => ~Has("record")
    BY <1>0, NamesAre, Distinct DEF Sound, Has
  <2> QED BY <1>1, <1>2, <1>4, <1>5, <2>1, <2>2 DEF Met, Has
<1>16. CASE CopyPayload(p)
  <2>1. CASE Copied(p, Whole, TRUE)
    <3>1. pc[p] = "copy" /\ pc'[p] = "link_payload" /\ files' = files
      BY <1>0, <1>5, <1>16, <2>1, Goes DEF CopyPayload, Copied
    <3> QED BY <3>1 DEF Met, Has
  <2> QED BY <1>2, <1>3, <1>16, <2>1 DEF CopyPayload
<1>17. CASE LinkPayload(p)
  <2>1. \/ Return(p)
        \/ /\ Step(p, "link_payload", "link_record")
           /\ Unchanged \/ Make("payload", call[p].bytes, call[p].flushed)
    BY <1>17 DEF LinkPayload
  <2>2. Unchanged \/ Make("payload", call[p].bytes, call[p].flushed)
          => files'["record"] = files["record"]
    BY <1>0, <1>5, NamesAre DEF Make, TypeOK
  <2> QED BY <1>2, <1>3, <1>4, <2>1, <2>2 DEF Met, Has
<1>18. CASE LinkRecord(p) \/ LinkIndexPayload(p) \/ LinkIndexRecord(p) \/ Verify(p)
  <2>1. \/ Close(p)
        \/ \E from : \E to \in {"mkdir_index", "link_index_record"} : Step(p, from, to)
    BY <1>3, <1>18 DEF LinkRecord, LinkIndexPayload, LinkIndexRecord, Verify
  <2> QED BY <1>1, <1>2, <1>4, <2>1
<1>19. CASE Identify(p)
  <2>1. \/ Return(p)
        \/ /\ Step(p, "identify", "verify")
           /\ files["index_record"] # Absent /\ Unchanged
    BY <1>19 DEF Identify
  <2> QED BY <1>2, <1>3, <1>4, <1>5, <2>1 DEF Met, Has
<1>20. CASE SyncSource(p) \/ SyncIndex(p) \/ SyncAttempt(p)
  BY <1>1, <1>4, <1>20 DEF SyncSource, SyncIndex, SyncAttempt, SyncDirectory
<1>21. CASE SyncStore(p) \/ SyncFails(p)
  BY <1>2, <1>21 DEF SyncStore, SyncFails
<1> QED BY <1>6, <1>7, <1>8, <1>9, <1>10, <1>11, <1>13, <1>14, <1>15, <1>16, <1>17, <1>18,
           <1>19, <1>20, <1>21 DEF Acts, EvidenceStep, RunRejected

AllMet == \A p \in Process : Met(p)

LEMMA MetStep ==
  ASSUME IInv, AllMet, [Next]_vars
  PROVE  AllMet'
<1>1. ASSUME NEW p \in Process, Acts(p), NEW q \in Process
      PROVE  Met(q)'
  BY <1>1, MoverMet, OthersMet DEF AllMet
<1>2. CASE LosePower
  BY <1>2 DEF LosePower, PowerLoss, AllMet, Met
<1>3. CASE UNCHANGED vars
  BY <1>3, VarsKept DEF AllMet, Met, Has
<1> QED BY <1>1, <1>2, <1>3, NextActs DEF AllMet

\* The store is not torn.
Intact ==
  /\ Joined
  /\ Has("record") => PayloadVerifies("payload")
  /\ Has("index_record") => PayloadVerifies("index_payload")

LEMMA IntactIs == ~Torn <=> Intact
BY DEF Torn, Intact, Joined, Has

LEMMA IntactFinds ==
  ASSUME IInv, AllMet, NEW p \in Process
  PROVE  /\ Intact => ~Refused(p)
         /\ Refused(p) => pc[p] \notin EvidencePoint
<1>1. /\ Sound /\ Evident /\ Met(p) /\ Shape(p)
      /\ \A n \in Name : files[n] \in {Absent, Whole}
      /\ \A f \in Fact : evidence[f] \in {Absent, Whole}
  BY DEF IInv, Typed, Sound, Evident, AllMet
<1>2. pc[p] \in {"read_evidence", "reread_evidence"} => publishing[p] \in Fact
  BY <1>1 DEF Shape, NamePoint, EvidencePoint
<1>3. /\ pc[p] = "read_evidence" => evidence[publishing[p]] \in {Absent, Whole}
      /\ pc[p] = "reread_evidence" => evidence[publishing[p]] = Whole
  BY <1>1, <1>2 DEF Met
<1>4. Refused(p) => pc[p] \notin EvidencePoint
  BY <1>3 DEF Refused, EvidencePoint
<1>5. ASSUME Intact
      PROVE  ~Refused(p)
  <2>1. apart = {}
    BY <1>5 DEF Intact, Joined
  <2>2. /\ files["binding"] \in {Absent, Whole} /\ files["payload"] \in {Absent, Whole}
        /\ files["record"] \in {Absent, Whole}
    BY <1>1, NamesAre
  <2>3. pc[p] = "look" /\ files["record"] # Absent
          => Decodes("record") /\ PayloadVerifies("payload")
    BY <1>5, <2>2 DEF Intact, Has, Decodes
  <2>4. pc[p] = "link_record" => files["record"] = Absent
    BY <1>1 DEF Met, Has
  <2>5. pc[p] = "verify" => PayloadVerifies("index_payload")
    BY <1>1, <1>5 DEF Met, Intact
  <2> QED BY <1>3, <2>1, <2>2, <2>3, <2>4, <2>5 DEF Refused
<1> QED BY <1>4, <1>5

\* Nothing that a process does, or leaves undone, tears the store.
LEMMA ActsIntact ==
  ASSUME IInv, NEW p \in Process, Acts(p), Intact
  PROVE  Intact'
<1>1. /\ TypeOK /\ Adds(p)
      /\ \A n \in Name : Has(n) => Has(n)'
      /\ \A n \in Name : PayloadVerifies(n) => PayloadVerifies(n)'
  BY FileStep, FactsStay DEF IInv, Typed
<1>2. ASSUME NEW n \in Name, ~Has(n), Has(n)'
      PROVE  Ready(p, n)
  BY <1>1, <1>2 DEF Adds, Has, TypeOK
<1>3. apart' = {}
  BY FileStep DEF Intact
<1>4. Has("index_payload")' => Has("payload")'
  BY <1>1, <1>2, NamesAre DEF Ready, Intact, Joined
<1>5. Has("index_record")' => Has("record")'
  BY <1>1, <1>2, NamesAre DEF Ready, Intact, Joined
<1>6. Has("record")' => PayloadVerifies("payload")'
  BY <1>1, <1>2, NamesAre DEF Ready, Intact
<1>7. Has("index_record")' => PayloadVerifies("index_payload")'
  BY <1>1, <1>2, NamesAre DEF Ready, Intact
<1> QED BY <1>3, <1>4, <1>5, <1>6, <1>7, NamesAre DEF Intact, Joined

\* Nor does a loss of power once synchronize has covered all that is there.
LEMMA PowerIntact ==
  ASSUME IInv, LosePower, Intact, Present \subseteq confirmed
  PROVE  Intact'
<1>1. files \in [Name -> Content] /\ files' \in [Name -> Content]
  BY PowerType DEF IInv, Typed, TypeOK
<1>2. \A n \in Name : files'[n] = files[n]
  BY PowerKeeps DEF Present
<1>3. files' = files /\ kind' = kind
  BY <1>1, <1>2 DEF LosePower, PowerLoss
<1>4. apart' = {}
  BY DEF LosePower, PowerLoss, Intact, Joined
<1> QED BY <1>3, <1>4 DEF Intact, Joined, Has, PayloadVerifies

\* Whatever deaths, failing calls and overlapping processes leave, publication
\* completes it and neither publish nor load throws on what it finds; only a loss of
\* power, of what synchronize has not covered yet, may tear the store, and the
\* evidence is not refused even then.
THEOREM RepublicationIsPossible == Spec => RepublicationRepairs
<1>1. Init => AllMet
  BY DEF Init, RejectedInit, AllMet, Met
<1>2. IInv /\ AllMet /\ [Next]_vars => AllMet'
  BY MetStep
<1>3. IInv /\ AllMet => (~Torn => \A p \in Process : ~Refused(p))
  BY IntactFinds, IntactIs
<1>4. IInv /\ AllMet => (\A p \in Process : Refused(p) => pc[p] \notin EvidencePoint)
  BY IntactFinds
<1>5. IInv /\ [Next]_vars =>
        [Torn' => Torn \/ (PowerLoss /\ ~(Present \subseteq confirmed))]_vars
  <2>1. SUFFICES ASSUME IInv, [Next]_vars, Torn', ~Torn, vars' # vars
                 PROVE  PowerLoss /\ ~(Present \subseteq confirmed)
    OBVIOUS
  <2>2. Intact /\ ~Intact'
    BY <2>1, IntactIs, PTL
  <2>3. LosePower
    BY <2>1, <2>2, ActsIntact, NextActs
  <2>4. PowerLoss
    BY <2>3 DEF LosePower
  <2> QED BY <2>1, <2>2, <2>3, <2>4, PowerIntact
<1> QED BY <1>1, <1>2, <1>3, <1>4, <1>5, EvidenceInvariant, PTL DEF Spec, RepublicationRepairs

-----------------------------------------------------------------------------
(* What synchronize has covered.                                           *)

\* What synchronize has covered is there for ever, after any number of losses of
\* power.
THEOREM SynchronizedStays == Spec => []SynchronizedSurvives
<1>1. IInv => SynchronizedSurvives
  BY DEF IInv, SynchronizedSurvives, Sound, Evident, Present, Stored, Has, Typed, TypeOK
<1> QED BY <1>1, EvidenceInvariant, PTL

-----------------------------------------------------------------------------
(* The identity of the record leads to the object.                         *)

Found ==
  IF files["index_record"] \in {Absent, Empty} THEN "nothing"
  ELSE IF PayloadVerifies("index_payload") THEN "object" ELSE "broken"

Settled ==
  "index_record" \in confirmed /\ (kind = "regular" => "index_payload" \in confirmed)

LEMMA FoundIs ==
  ASSUME Sound
  PROVE  Found = IF Has("index_record")
                   THEN IF PayloadVerifies("index_payload") THEN "object" ELSE "broken"
                   ELSE "nothing"
<1>1. files["index_record"] \in {Absent, Whole}
  BY NamesAre DEF Sound
<1> QED BY <1>1, Distinct DEF Found, Has

\* What leads to the object, or is covered by synchronize, stays so while the
\* machine stays up; the record is indexed once its payload is.
LEMMA ActsFound ==
  ASSUME IInv, IInv', NEW p \in Process, Acts(p)
  PROVE  Found' = Found \/ (Found # "object" /\ Found' = "object")
<1>1. /\ Sound /\ Sound' /\ Adds(p) /\ TypeOK
      /\ \A n \in Name : Has(n) => Has(n)'
      /\ \A n \in Name : PayloadVerifies(n) => PayloadVerifies(n)'
      /\ kind' = kind
  BY FileStep, FactsStay DEF IInv, Typed
<1>2. Found = (IF Has("index_record")
                 THEN IF PayloadVerifies("index_payload") THEN "object" ELSE "broken"
                 ELSE "nothing")
  BY <1>1, FoundIs
<1>3. Found' = (IF Has("index_record")'
                  THEN IF PayloadVerifies("index_payload")' THEN "object" ELSE "broken"
                  ELSE "nothing")
  <2>1. files'["index_record"] \in {Absent, Whole}
    BY <1>1, NamesAre DEF Sound
  <2> QED BY <2>1, Distinct DEF Found, Has
<1>4. ~Has("index_record") /\ Has("index_record")' => PayloadVerifies("index_payload")
  <2>1. SUFFICES ASSUME ~Has("index_record"), Has("index_record")'
                 PROVE  PayloadVerifies("index_payload")
    OBVIOUS
  <2>2. Ready(p, "index_record")
    BY <1>1, <2>1, NamesAre DEF Adds, Has, TypeOK
  <2> QED BY <2>2 DEF Ready
<1> QED BY <1>1, <1>2, <1>3, <1>4, NamesAre

LEMMA ActsSettled ==
  ASSUME IInv, IInv', NEW p \in Process, Acts(p)
  PROVE  \/ Settled' = Settled
         \/ Found = "object" /\ Found' = Found /\ Settled' = TRUE /\ ~Settled
<1>1. Settled \in BOOLEAN /\ Settled' \in BOOLEAN
  BY DEF Settled
<1>2. kind' = kind /\ Sound /\ Sound'
  BY FactsStay DEF IInv
<1>3. CASE confirmed' = confirmed
  BY <1>2, <1>3 DEF Settled
<1>4. CASE SyncStore(p)
  <2>1. confirmed' = Present /\ files' = files
    BY <1>4 DEF SyncStore
  <2>2. confirmed \subseteq Present
    BY DEF IInv, Sound, Present, Has, Typed, TypeOK
  <2>3. Settled => Settled'
    BY <1>2, <2>1, <2>2 DEF Settled
  <2>4. Settled' => Has("index_record") /\ (kind = "regular" => Has("index_payload"))
    BY <1>2, <2>1 DEF Settled, Present, Has
  <2>5. Settled' => Found = "object"
    BY <1>2, <2>4, FoundIs, NamesAre DEF Sound, PayloadVerifies, Has
  <2>6. Found' = Found
    BY <1>2, <2>1 DEF Found, PayloadVerifies
  <2> QED BY <1>1, <2>3, <2>5, <2>6
<1> QED BY <1>3, <1>4, ConfirmStep DEF IInv

\* A loss of power takes nothing that is settled, and nothing without a trace.
LEMMA PowerFound ==
  ASSUME IInv, IInv', LosePower
  PROVE  /\ Settled' = Settled
         /\ Found' \in IF Settled THEN {Found} ELSE {Found, "nothing", "broken"}
         /\ undone' = TRUE \/ (Found' = Found /\ undone' = undone)
<1>1. kind' = kind /\ confirmed' = confirmed /\ Sound /\ Sound'
  BY DEF LosePower, PowerLoss, IInv
<1>2. Settled' = Settled
  BY <1>1 DEF Settled
<1>3. undone \in BOOLEAN /\ undone' \in BOOLEAN
  BY DEF IInv, Typed, TypeOK
<1>4. ~undone' => Found' = Found /\ undone' = undone
  <2>1. ~undone' => ~undone /\ files' = files
    BY PowerKeeps
  <2> QED BY <1>1, <1>3, <2>1 DEF Found, PayloadVerifies
<1>5. \A n \in Name : files'[n] = IF n \in disk' THEN files[n] ELSE Absent
  BY PowerKeeps
<1>6. Settled => Found' = Found
  <2>1. SUFFICES ASSUME Settled PROVE Found' = Found
    OBVIOUS
  <2>2. files'["index_record"] = files["index_record"]
    BY <1>5, <2>1, NamesAre, PowerKeeps DEF Settled
  <2>3. kind = "regular" => files'["index_payload"] = files["index_payload"]
    BY <1>5, <2>1, NamesAre, PowerKeeps DEF Settled
  <2> QED BY <1>1, <2>2, <2>3 DEF Found, PayloadVerifies
<1>7. Found' \in {Found, "nothing", "broken"}
  <2>1. Found' = "object" => Found = "object"
    <3>1. SUFFICES ASSUME Found' = "object" PROVE Found = "object"
      OBVIOUS
    <3>5. files'["index_record"] \in {Absent, Whole}
      BY <1>1, NamesAre DEF Sound
    <3>6. files'["index_record"] # Absent /\ PayloadVerifies("index_payload")'
      BY <3>1, <3>5 DEF Found
    <3>2. /\ files'["index_record"] \notin {Absent, Empty}
          /\ kind = "regular" => files'["index_payload"] = Whole
      BY <1>1, <3>5, <3>6, Distinct DEF PayloadVerifies
    <3>3. files["index_record"] = files'["index_record"]
      BY <1>5, <3>2, NamesAre
    <3>4. kind = "regular" => files["index_payload"] = Whole
      BY <1>5, <3>2, NamesAre, Distinct
    <3> QED BY <3>2, <3>3, <3>4 DEF Found, PayloadVerifies
  <2>2. Found' \in {"nothing", "object", "broken"}
    BY DEF Found
  <2> QED BY <2>1, <2>2
<1> QED BY <1>2, <1>3, <1>4, <1>6, <1>7

LEMMA ActsUndone ==
  ASSUME Typed, NEW p \in Process, Acts(p)
  PROVE  undone' = undone
BY Effects DEF RejectedEffect

\* The store implements IdentitySpec: in whatever order processes publish, die and
\* lose power, the identity of a record leads nowhere or to the whole object, begins
\* to lead there in one step and, once synchronize has returned, leads there for
\* ever.
THEOREM StoreKeepsIdentity == Spec => KeepsIdentity
<1>1. Init => Identity!Init
  <2>1. SUFFICES ASSUME Init PROVE Found = "nothing" /\ Settled = FALSE /\ undone = FALSE
    BY DEF Identity!Init, Found, Settled
  <2>2. files["index_record"] = Absent /\ confirmed = {} /\ undone = FALSE
    BY <2>1, NamesAre DEF Init, RejectedInit
  <2>3. Found = "nothing"
    BY <2>2 DEF Found
  <2> QED BY <2>2, <2>3 DEF Settled
<1>2. IInv /\ IInv' /\ [Next]_vars => [Identity!Next]_(Identity!vars)
  <2>1. SUFFICES ASSUME IInv, IInv', [Next]_vars
                 PROVE  \/ Found # "object" /\ Found' = "object"
                             /\ Settled' = Settled /\ undone' = undone
                        \/ Found = "object" /\ Settled' = TRUE
                             /\ Found' = Found /\ undone' = undone
                        \/ /\ Found' \in IF Settled THEN {Found}
                                         ELSE {Found, "nothing", "broken"}
                           /\ undone' = TRUE /\ Settled' = Settled
                        \/ Found' = Found /\ Settled' = Settled /\ undone' = undone
    BY DEF Identity!Next, Identity!vars, Identity!Publish, Identity!Settle,
           Identity!LosePower, Found, Settled
  <2>2. ASSUME NEW p \in Process, Acts(p)
        PROVE  \/ Found # "object" /\ Found' = "object"
                    /\ Settled' = Settled /\ undone' = undone
               \/ Found = "object" /\ Settled' = TRUE
                    /\ Found' = Found /\ undone' = undone
               \/ Found' = Found /\ Settled' = Settled /\ undone' = undone
    BY <2>1, <2>2, ActsFound, ActsSettled, ActsUndone DEF IInv
  <2>3. CASE LosePower
    BY <2>1, <2>3, PowerFound
  <2>4. CASE UNCHANGED vars
    BY <2>4, VarsKept DEF Found, Settled, PayloadVerifies
  <2> QED BY <2>1, <2>2, <2>3, <2>4, NextActs
<1> QED BY <1>1, <1>2, EvidenceInvariant, PTL DEF Spec, KeepsIdentity, Identity!Spec
=============================================================================
