---------------------------- MODULE EvidenceStore ----------------------------
(***************************************************************************)
(* The completed evidence of the attempt (completed_evidence_store.cpp),   *)
(* one file per identity, beside the rejected object that it names by its   *)
(* record's identity (RejectedStore). The engine writes into the evidence  *)
(* what it was told of the durability of the rejected-object store: that is *)
(* what evidence differs in here, and so its identity.                      *)
(***************************************************************************)
EXTENDS RejectedStore

VARIABLES
  evidence,       \* the files of completed evidence as processes see them
  evidenceDisk,   \* the names of them that are flushed
  evidenceLoose,  \* the files whose bytes are not flushed
  publishing,     \* the evidence each process is publishing
  announced,      \* the engine has kept that it is published
  settled         \* history: the evidence there when synchronize returned

evidencing == <<evidence, evidenceDisk, evidenceLoose, publishing, announced, settled>>
vars == <<rejecting, evidencing>>

Fact == {"unconfirmed", "confirmed"}
EvidencePoint == {"read_evidence", "link_evidence", "unlink_evidence",
                  "reread_evidence", "sync_evidence"}

Init ==
  /\ RejectedInit
  /\ evidence = [f \in Fact |-> Absent]
  /\ evidenceDisk = {} /\ evidenceLoose = {}
  /\ publishing = [p \in Process |-> "none"]
  /\ announced = {} /\ settled = {}

-----------------------------------------------------------------------------
Stored == {f \in Fact : evidence[f] # Absent}

Move(p, from, to) ==
  /\ Step(p, from, to)
  /\ Unchanged

\* The call ends with nothing kept of it.
End(p) ==
  /\ Return(p)
  /\ publishing' = [publishing EXCEPT ![p] = "none"]

Quit(p) == End(p) /\ UNCHANGED <<evidence, evidenceDisk, evidenceLoose, announced, settled>>

Unpublished == UNCHANGED evidencing

\* The engine publishes the evidence once it knows about the store's
\* durability, and has it synchronized when it knows it published.
StartEvidence(p) ==
  /\ pc[p] = "idle" /\ Alone(p) /\ p \in returned
  /\ \/ /\ status \in Fact
        /\ Goto(p, "read_evidence")
        /\ publishing' = [publishing EXCEPT ![p] = status]
     \/ /\ announced # {}
        /\ Goto(p, "sync_evidence")
        /\ UNCHANGED publishing
  /\ UNCHANGED <<call, returned, evidence, evidenceDisk, evidenceLoose, announced, settled>>
  /\ Unchanged

\* publish_completed_evidence returns, and the engine keeps it.
Announce(p) ==
  /\ End(p)
  /\ announced' = announced \cup {publishing[p]}
  /\ UNCHANGED <<evidence, evidenceDisk, evidenceLoose, settled>>

\* read_encoding: what is there must be the same bytes.
ReadEvidence(p) ==
  LET current == evidence[publishing[p]]
  IN /\ pc[p] = "read_evidence"
     /\ CASE current = Absent -> Move(p, "read_evidence", "link_evidence") /\ Unpublished
          [] current = Whole -> Announce(p)
          [] OTHER -> Quit(p)

LinkEncoding(p, flushed) ==
  LET f == publishing[p]
  IN /\ pc[p] = "link_evidence"
     /\ IF evidence[f] = Absent
          THEN /\ Move(p, "link_evidence", "unlink_evidence")
               /\ evidence' = [evidence EXCEPT ![f] = Whole]
               /\ evidenceLoose' = IF flushed THEN evidenceLoose ELSE evidenceLoose \cup {f}
          ELSE /\ Move(p, "link_evidence", "reread_evidence")
               /\ UNCHANGED <<evidence, evidenceLoose>>
     /\ UNCHANGED <<evidenceDisk, publishing, announced, settled>>

\* Mutant: the temporary file is not flushed.
LinkEvidenceLoose(p) == LinkEncoding(p, FALSE)

\* publish_encoding: a temporary file is written, flushed and linked.
LinkEvidence(p) == LinkEncoding(p, TRUE)

UnlinkEvidence(p) == pc[p] = "unlink_evidence" /\ Announce(p)

RereadEvidence(p) ==
  /\ pc[p] = "reread_evidence"
  /\ IF evidence[publishing[p]] = Whole THEN Announce(p) ELSE Quit(p)

\* Mutant: nothing is flushed.
SyncEvidenceSkipped(p) ==
  /\ pc[p] = "sync_evidence"
  /\ End(p)
  /\ settled' = Stored
  /\ UNCHANGED <<evidence, evidenceDisk, evidenceLoose, announced>>

SyncEvidence(p) ==
  /\ pc[p] = "sync_evidence"
  /\ End(p)
  /\ evidenceDisk' = Stored
  /\ settled' = Stored
  /\ UNCHANGED <<evidence, evidenceLoose, announced>>

-----------------------------------------------------------------------------
\* A call fails and the operation throws, or the process dies; a failure to
\* remove the temporary file leaves the evidence visible.
StopProcess(p) ==
  /\ Stop(p)
  /\ publishing' = [publishing EXCEPT ![p] = "none"]
  /\ UNCHANGED <<evidence, evidenceDisk, evidenceLoose, announced, settled>>

LosePower ==
  /\ PowerLoss
  /\ \E kept \in SUBSET Stored :
       /\ evidenceDisk \subseteq kept
       /\ evidenceDisk' = kept
  /\ evidence' = [f \in Fact |-> IF f \notin evidenceDisk' THEN Absent
                                 ELSE IF f \in evidenceLoose THEN Empty ELSE evidence[f]]
  /\ evidenceLoose' = {}
  /\ publishing' = [p \in Process |-> "none"]
  /\ UNCHANGED <<announced, settled>>

Next ==
  \/ \E p \in Process :
       \/ RunRejected(p) /\ UNCHANGED evidencing
       \/ StartEvidence(p) \/ ReadEvidence(p) \/ LinkEvidence(p)
       \/ UnlinkEvidence(p) \/ RereadEvidence(p) \/ SyncEvidence(p)
       \/ StopProcess(p)
  \/ LosePower

Spec == Init /\ [][Next]_vars

-----------------------------------------------------------------------------
TypeOK ==
  /\ world \in Worlds /\ kind \in Kind
  /\ files \in [Name -> Content]
  /\ disk \subseteq Name /\ loose \subseteq Name /\ apart \subseteq {"payload", "record"}
  /\ writer \in Process \cup {NoProcess} /\ readers \subseteq Process
  /\ pc \in [Process -> Point \cup EvidencePoint]
  /\ call \in [Process -> [operation : Operation, bytes : Content, flushed : BOOLEAN]]
  /\ returned \subseteq Process /\ named \in BOOLEAN /\ status \in Status
  /\ confirmed \subseteq Name /\ undone \in BOOLEAN
  /\ evidence \in [Fact -> Content]
  /\ evidenceDisk \subseteq Fact /\ evidenceLoose \subseteq Fact
  /\ publishing \in [Process -> Fact \cup {"none"}]
  /\ announced \subseteq Fact /\ settled \subseteq Fact

\* Payload, record, their names in the index and the answer come in that order:
\* whoever finds the record, in the attempt or by its identity and without a lock,
\* finds the object, and once a publication returned, the identity it returned
\* leads there for every process, also when the record had been left by a process
\* that died before it indexed it. A power loss before the store is known to be
\* durable may break it.
PublishedInOrder ==
  ~undone =>
    /\ files["record"] = Whole => PayloadVerifies("payload")
    /\ files["index_record"] = Whole => PayloadVerifies("index_payload")
    /\ named => files["record"] = Whole /\ files["index_record"] = Whole

\* What a publication or a load would throw on, now or once it gets there: a name
\* without the file that it goes with, or a second name of another inode.
Torn ==
  \/ files["record"] # Absent /\ ~PayloadVerifies("payload")
  \/ files["index_record"] # Absent /\ ~PayloadVerifies("index_payload")
  \/ \E n \in {"payload", "record"} : files[Indexed(n)] # Absent /\ files[n] = Absent
  \/ apart # {}

\* What process p finds makes its next call throw.
Refused(p) ==
  \/ pc[p] = "bind" /\ files["binding"] \notin {Absent, Whole}
  \/ pc[p] = "look" /\ files["record"] # Absent
       /\ ~(Decodes("record") /\ PayloadVerifies("payload"))
  \/ pc[p] = "link_payload" /\ files["payload"] \notin {Absent, Whole}
  \/ pc[p] = "link_record" /\ files["record"] # Absent
  \/ pc[p] = "link_index_payload" /\ files["index_payload"] # Absent /\ "payload" \in apart
  \/ pc[p] = "link_index_record" /\ "record" \in apart
  \/ pc[p] = "verify" /\ ~PayloadVerifies("index_payload")
  \/ pc[p] = "read_evidence" /\ evidence[publishing[p]] \notin {Absent, Whole}
  \/ pc[p] = "reread_evidence" /\ evidence[publishing[p]] # Whole

\* Deaths, failing calls and processes that overlap leave the store so that
\* publication completes it and neither publish nor load throws on what it finds, at
\* any of its calls: only a loss of power tears it, and only while something is
\* there that synchronize has not covered. Evidence is never refused at all.
RepublicationRepairs ==
  /\ [](~Torn => \A p \in Process : ~Refused(p))
  /\ [](\A p \in Process : Refused(p) => pc[p] \notin EvidencePoint)
  /\ [][Torn' => Torn \/ (PowerLoss /\ ~(Present \subseteq confirmed))]_vars

\* What was there when synchronize returned, of the rejected object or of its
\* evidence, is there after every power loss, with the directories it is reached
\* through.
SynchronizedSurvives == confirmed \subseteq Present /\ settled \subseteq Stored

\* Evidence that says the rejected object is durable names an identity that
\* leads to it, whatever deaths, failures and power losses come before and
\* after.
EvidenceResolves ==
  "confirmed" \in Stored =>
    files["index_record"] = Whole /\ PayloadVerifies("index_payload")

\* The identity of the record leads to the object as promised.
Identity == INSTANCE IdentitySpec
              WITH found <- IF files["index_record"] \in {Absent, Empty} THEN "nothing"
                            ELSE IF PayloadVerifies("index_payload") THEN "object"
                            ELSE "broken",
                   settled <- "index_record" \in confirmed
                                /\ (kind = "regular" => "index_payload" \in confirmed),
                   lost <- undone
KeepsIdentity == Identity!Spec
=============================================================================
