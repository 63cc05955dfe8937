----------------------------- MODULE JournalSpec ----------------------------
(***************************************************************************)
(* What application_journal_store promises its callers while the machine   *)
(* stays up: journal_store.h and docs/mechanisms.md say it in words.  Each *)
(* name changes in one atomic step, an immutable name at most once, a      *)
(* cursor only from the value the call expected, a locator only towards a  *)
(* declaration that is there; and the result a call reports is true of the *)
(* store at the moment it returns.                                         *)
(***************************************************************************)
EXTENDS JournalTypes

VARIABLES
  retained,  \* the bytes under every declaration, step, cursor and locator name
  job,       \* per caller: the call it has not returned from
  ret        \* per caller: how its last call ended

vars == <<retained, job, ret>>

ValueName == Name \ ({JournalDir(d) : d \in Declaration}
                       \cup {StepsDir(d) : d \in Declaration})

Init ==
  /\ retained = [n \in ValueName |-> Absent]
  /\ job = [c \in Caller |-> NoJob]
  /\ ret = [c \in Caller |-> "none"]

Begin(c) ==
  /\ job[c] = NoJob
  /\ \E j \in Job : job' = [job EXCEPT ![c] = j]
  /\ ret' = [ret EXCEPT ![c] = "none"]
  /\ UNCHANGED retained

Retain(n, bytes) ==
  /\ retained' = [retained EXCEPT ![n] = bytes]
  /\ UNCHANGED <<job, ret>>

\* An immutable name takes a value once.
Publish(c) ==
  /\ job[c] \in DeclarationJob \cup StepJob
  /\ retained[job[c].name] = Absent
  /\ Retain(job[c].name, job[c].bytes)

\* The locator of a request follows a retained declaration of that request.
Locate(c) ==
  /\ job[c] \in DeclarationJob
  /\ retained[job[c].name] = job[c].of
  /\ Retain(ActiveRef(RequestOf[job[c].of]), job[c].of)

\* Compare and publish are one step.
Swap(c) ==
  /\ job[c] \in CursorJob
  /\ retained[DeclarationFile(job[c].of)] = job[c].of
  /\ retained[job[c].name] = job[c].expected
  /\ Retain(job[c].name, job[c].bytes)

\* What each result says of the store when the call returns.
Truthful(j, code) ==
  \/ /\ code = "ok"
     /\ j.op # "active" => retained[j.name] = j.bytes
     /\ j.op = "active" => retained[j.name] # Absent
  \/ code = "absent" /\ retained[j.name] = Absent
  \/ /\ code = "immutable_conflict"
     /\ j.op \in {"declaration", "step"}
     /\ retained[j.name] \notin {Absent, j.bytes}
  \/ /\ code = "cursor_conflict"
     /\ j.op = "cursor"
     /\ retained[j.name] \notin {j.bytes, j.expected}
  \/ /\ code \in {"namespace_open_failed", "value_corrupt"}
     /\ j.op \in {"step", "cursor"}
     /\ retained[DeclarationFile(j.of)] = Absent
  \/ code \in {"io_error", "directory_sync_failed"}

End(c) ==
  /\ job[c] # NoJob
  /\ \E code \in Code : Truthful(job[c], code) /\ ret' = [ret EXCEPT ![c] = code]
  /\ job' = [job EXCEPT ![c] = NoJob]
  /\ UNCHANGED retained

\* Callers die with their process.
Abandon ==
  /\ \E dead \in SUBSET Caller :
       /\ job' = [c \in Caller |-> IF c \in dead THEN NoJob ELSE job[c]]
       /\ ret' = [c \in Caller |-> IF c \in dead THEN "none" ELSE ret[c]]
  /\ UNCHANGED retained

Next ==
  \/ \E c \in Caller : Begin(c) \/ Publish(c) \/ Locate(c) \/ Swap(c) \/ End(c)
  \/ Abandon

Spec == Init /\ [][Next]_vars
=============================================================================
