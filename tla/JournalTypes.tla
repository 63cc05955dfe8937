---------------------------- MODULE JournalTypes ----------------------------
(***************************************************************************)
(* The names, contents and calls of application_journal_store              *)
(* (src/src/journal_store.cpp), shared by the store and by the abstract    *)
(* specification it implements.                                            *)
(***************************************************************************)
EXTENDS Naturals, FiniteSets

CONSTANTS
  Caller,       \* threads of control that hold an open store
  Declaration,  \* declaration identities: each one fixes its own bytes
  Request,      \* application requests
  RequestOf,    \* the request named by the header of each declaration
  Sequence,     \* step sequence numbers
  StepValue,    \* encodings a step may have
  Cursor,       \* cursor values
  Absent        \* no such name (std::nullopt)

ASSUME JournalTypesAssumption ==
  /\ RequestOf \in [Declaration -> Request]
  /\ Absent \notin Declaration \cup StepValue \cup Cursor \cup {"directory"}

-----------------------------------------------------------------------------
(* Names and contents. *)

Root               == <<"root">>
JournalDir(d)      == <<"journal", d>>
StepsDir(d)        == <<"steps", d>>
DeclarationFile(d) == <<"declaration.bin", d>>
CursorFile(d)      == <<"cursor.bin", d>>
StepFile(d, s)     == <<"step", d, s>>
ActiveRef(r)       == <<"active-request", r>>

Immutable == {DeclarationFile(d) : d \in Declaration}
               \cup {StepFile(d, s) : d \in Declaration, s \in Sequence}
Name == Immutable
          \cup {JournalDir(d) : d \in Declaration}
          \cup {StepsDir(d) : d \in Declaration}
          \cup {CursorFile(d) : d \in Declaration}
          \cup {ActiveRef(r) : r \in Request}

Parent(n) ==
  CASE n[1] \in {"journal", "active-request"}                 -> Root
    [] n[1] \in {"steps", "declaration.bin", "cursor.bin"}    -> JournalDir(n[2])
    [] n[1] = "step"                                          -> StepsDir(n[2])

\* The directories below the root a name is reached through.
Containing(n) ==
  CASE n[1] \in {"steps", "declaration.bin", "cursor.bin"} -> {JournalDir(n[2])}
    [] n[1] = "step"  -> {JournalDir(n[2]), StepsDir(n[2])}
    [] OTHER          -> {}

Bytes == Declaration \cup StepValue \cup Cursor \cup {"directory"}

-----------------------------------------------------------------------------
(* Calls: the operation, the declaration it is about, the name it          *)
(* publishes or reads, the bytes, and the cursor a compare expects.        *)

DeclarationJob ==
  {[op |-> "declaration", of |-> d, name |-> DeclarationFile(d), bytes |-> d,
    expected |-> Absent] : d \in Declaration}
StepJob ==
  {[op |-> "step", of |-> d, name |-> StepFile(d, s), bytes |-> v,
    expected |-> Absent] : d \in Declaration, s \in Sequence, v \in StepValue}
CursorJob ==
  {[op |-> "cursor", of |-> d, name |-> CursorFile(d), bytes |-> v,
    expected |-> e] : d \in Declaration, v \in Cursor, e \in Cursor \cup {Absent}}
ActiveJob ==
  {[op |-> "active", of |-> Absent, name |-> ActiveRef(r), bytes |-> Absent,
    expected |-> Absent] : r \in Request}

NoJob == [op |-> "none", of |-> Absent, name |-> Root, bytes |-> Absent,
          expected |-> Absent]
Job == DeclarationJob \cup StepJob \cup CursorJob \cup ActiveJob \cup {NoJob}

Code == {"none", "ok", "absent", "io_error",
         "namespace_open_failed", "value_corrupt",
         "immutable_conflict", "cursor_conflict", "index_corrupt",
         "directory_sync_failed"}
=============================================================================
