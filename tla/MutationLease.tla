--------------------------- MODULE MutationLease ---------------------------
(***************************************************************************)
(* The target mutation lease: an advisory lock on the file that a fixed    *)
(* name of the lock directory stands for (mutation_lease.cpp), and the     *)
(* commands of the backend that run under it (ensure_live_lease).          *)
(*                                                                         *)
(* The name and the file are two things: anyone who may write the lock     *)
(* directory can unlink the file, put another one in its place or move it  *)
(* away and back, between any two system calls of acquire() and at any     *)
(* time afterwards. A process is one acquirer with its own open file; the  *)
(* kernel gives a file's lock to one open file, and takes it back when     *)
(* that is closed.                                                         *)
(***************************************************************************)
EXTENDS Naturals, FiniteSets

CONSTANTS
  Process,     \* who acquires the lease of one exclusion domain
  Inode,       \* the files there can be
  Regular,     \* those that are regular; the others are devices, fifos
  NoInode,
  NoProcess,
  Faults       \* what may happen: "replace", "move", "nonce", "crash"

ASSUME MutationLeaseAssumption ==
  /\ Regular \subseteq Inode
  /\ NoInode \notin Inode
  /\ NoProcess \notin Process

VARIABLES
  named,    \* the file that lock_name stands for
  linked,   \* the files that have some name (st_nlink > 0)
  holder,   \* the process whose open file has the lock of a file
  file,     \* lock_ and file_: the file a process has open
  pc        \* how far the process is

vars == <<named, linked, holder, file, pc>>

Point == {"none", "opened", "inspected", "locked", "leased", "working"}

\* Past the flock call.
Engaged == {"locked", "leased", "working"}

-----------------------------------------------------------------------------
\* A number that a new file may get: an open file keeps its number in use.
Free(i) == i \notin linked /\ \A p \in Process : file[p] # i

\* S_ISREG(st_mode) and st_nlink # 0.
LinkedRegular(i) == i \in Regular /\ i \in linked

\* implementation::held().
Held(p) ==
  /\ pc[p] \in {"leased", "working"}
  /\ LinkedRegular(file[p])
  /\ named = file[p]

\* The owned_fd of the lock goes out of scope, or the process ends.
Close(p) ==
  /\ holder' = [i \in Inode |-> IF holder[i] = p THEN NoProcess ELSE holder[i]]
  /\ file' = [file EXCEPT ![p] = NoInode]
  /\ pc' = [pc EXCEPT ![p] = "none"]
  /\ UNCHANGED <<named, linked>>

Becomes(p, point) == pc' = [pc EXCEPT ![p] = point]

-----------------------------------------------------------------------------
(* acquire(), one action for each system call. *)

Opens(p, i) == file' = [file EXCEPT ![p] = i] /\ Becomes(p, "opened")

\* openat with O_CREAT when there is no such file.
CreateFile(p, i) ==
  /\ pc[p] = "none"
  /\ named = NoInode
  /\ i \in Regular /\ Free(i)
  /\ named' = i
  /\ linked' = linked \cup {i}
  /\ Opens(p, i)
  /\ UNCHANGED holder

OpenFile(p) ==
  /\ pc[p] = "none"
  /\ named # NoInode
  /\ Opens(p, named)
  /\ UNCHANGED <<named, linked, holder>>

\* The first fstat.
Inspect(p) ==
  /\ pc[p] = "opened"
  /\ IF LinkedRegular(file[p])
     THEN Becomes(p, "inspected") /\ UNCHANGED <<named, linked, holder, file>>
     ELSE Close(p)

\* Mutant: the lock is taken from whoever has it.
LockShared(p) ==
  /\ pc[p] = "inspected"
  /\ holder' = [holder EXCEPT ![file[p]] = p]
  /\ Becomes(p, "locked")
  /\ UNCHANGED <<named, linked, file>>

\* flock with LOCK_EX | LOCK_NB.
Lock(p) ==
  /\ pc[p] = "inspected"
  /\ IF holder[file[p]] = NoProcess
     THEN /\ holder' = [holder EXCEPT ![file[p]] = p]
          /\ Becomes(p, "locked")
          /\ UNCHANGED <<named, linked, file>>
     ELSE Close(p)

\* Mutant: a failed comparison does not close the file.
VerifyLeaking(p) ==
  /\ pc[p] = "locked"
  /\ IF LinkedRegular(file[p]) /\ named = file[p]
     THEN Becomes(p, "leased")
     ELSE Becomes(p, "none")
  /\ UNCHANGED <<named, linked, holder, file>>

\* The fstatat after the lock: is the name still that of the locked file?
Verify(p) ==
  /\ pc[p] = "locked"
  /\ IF LinkedRegular(file[p]) /\ named = file[p]
     THEN \/ Becomes(p, "leased") /\ UNCHANGED <<named, linked, holder, file>>
          \/ "nonce" \in Faults /\ Close(p)
     ELSE Close(p)

-----------------------------------------------------------------------------
(* The lease in use. *)

\* Mutant: a command does not ask held().
StartUnchecked(p) ==
  /\ pc[p] = "leased"
  /\ Becomes(p, "working")
  /\ UNCHANGED <<named, linked, holder, file>>

\* A command of the backend begins with ensure_live_lease; one that finds
\* the lease lost throws and changes nothing.
StartCommand(p) ==
  /\ pc[p] = "leased"
  /\ Held(p)
  /\ Becomes(p, "working")
  /\ UNCHANGED <<named, linked, holder, file>>

FinishCommand(p) ==
  /\ pc[p] = "working"
  /\ Becomes(p, "leased")
  /\ UNCHANGED <<named, linked, holder, file>>

\* The destructor of the lease: no command is running then.
Release(p) == pc[p] = "leased" /\ Close(p)

Crash(p) == "crash" \in Faults /\ pc[p] # "none" /\ Close(p)

-----------------------------------------------------------------------------
(* Whoever else writes the lock directory. *)

Unlink ==
  /\ "replace" \in Faults
  /\ named # NoInode
  /\ named' = NoInode
  /\ linked' = linked \ {named}

\* A new file is renamed over the name.
Replace(i) ==
  /\ "replace" \in Faults
  /\ Free(i)
  /\ named' = i
  /\ linked' = (linked \ {named}) \cup {i}

MoveAway ==
  /\ "move" \in Faults
  /\ named # NoInode
  /\ named' = NoInode
  /\ UNCHANGED linked

\* A file that was moved away comes back, over what is there now.
MoveBack(i) ==
  /\ "move" \in Faults
  /\ i \in linked /\ i # named
  /\ named' = i
  /\ linked' = linked \ {named}

Others ==
  /\ \/ Unlink
     \/ MoveAway
     \/ \E i \in Inode : Replace(i) \/ MoveBack(i)
  /\ UNCHANGED <<holder, file, pc>>

-----------------------------------------------------------------------------
\* The domain was never locked before, or its file is there and never removed.
Init ==
  /\ named \in Regular \cup {NoInode}
  /\ linked = {named} \ {NoInode}
  /\ holder = [i \in Inode |-> NoProcess]
  /\ file = [p \in Process |-> NoInode]
  /\ pc = [p \in Process |-> "none"]

Acquire(p) ==
  \/ OpenFile(p)
  \/ \E i \in Inode : CreateFile(p, i)
  \/ Inspect(p)
  \/ Lock(p)
  \/ Verify(p)

Use(p) == StartCommand(p) \/ FinishCommand(p) \/ Release(p) \/ Crash(p)

Next == Others \/ \E p \in Process : Acquire(p) \/ Use(p)

Spec == Init /\ [][Next]_vars

-----------------------------------------------------------------------------
\* Types: a process has a file open exactly while it is in acquire() or holds
\* a lease object, and the name stands for a file that has a name.
TypeOK ==
  /\ named \in Inode \cup {NoInode}
  /\ linked \subseteq Inode
  /\ named # NoInode => named \in linked
  /\ holder \in [Inode -> Process \cup {NoProcess}]
  /\ file \in [Process -> Inode \cup {NoInode}]
  /\ pc \in [Process -> Point]
  /\ \A p \in Process : pc[p] = "none" <=> file[p] = NoInode

\* At most one lease answers held() with true, whoever replaces the lock file
\* during its acquisition or later (held, acquire).
AtMostOneHeld == \A p, q \in Process : Held(p) /\ Held(q) => p = q

\* A lock is never left behind: lock_busy means that somebody is just now past
\* flock on that file, although the file itself is never removed and whoever
\* failed or died on the way closed nothing in an orderly manner.
NoStaleLock ==
  \A i \in Inode :
    holder[i] # NoProcess =>
      file[holder[i]] = i /\ pc[holder[i]] \in Engaged

\* A command never starts beside another process' command, unless that one's
\* lock file was replaced while it ran (ensure_live_lease): the check at the
\* start of a command is all the exclusion there is.
StartsAlone ==
  [][\A p, q \in Process :
       pc[p] # "working" /\ pc'[p] = "working" /\ q # p /\ pc[q] = "working"
         => file[q] # named]_vars
=============================================================================
