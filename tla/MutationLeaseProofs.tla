------------------------ MODULE MutationLeaseProofs ------------------------
(***************************************************************************)
(* Theorems about MutationLease for every set of processes and files and   *)
(* every kind of interference with the lock directory.                     *)
(***************************************************************************)
EXTENDS MutationLease, TLAPS

USE MutationLeaseAssumption

-----------------------------------------------------------------------------
(* The inductive invariant: types, no lock without a process past flock,   *)
(* and no process past flock without the lock of its file. The last is     *)
(* what held() cannot see and relies on: it looks only at names.           *)

EngagedOwns == \A p \in Process : pc[p] \in Engaged => holder[file[p]] = p

LeaseInv == TypeOK /\ NoStaleLock /\ EngagedOwns

\* Closing a file frees its lock and no other.
LEMMA ClosePreserves ==
  ASSUME LeaseInv, NEW p \in Process, Close(p)
  PROVE  LeaseInv'
<1>1. /\ named' = named /\ linked' = linked
      /\ file' = [file EXCEPT ![p] = NoInode] /\ pc' = [pc EXCEPT ![p] = "none"]
      /\ \A i \in Inode : /\ holder[i] = p => holder'[i] = NoProcess
                          /\ holder[i] # p => holder'[i] = holder[i]
      /\ holder' \in [Inode -> Process \cup {NoProcess}]
  BY DEF Close, LeaseInv, TypeOK
<1>2. TypeOK'
  BY <1>1 DEF LeaseInv, TypeOK, Point
<1>3. NoStaleLock'
  <2> SUFFICES ASSUME NEW i \in Inode, holder'[i] # NoProcess
               PROVE  file'[holder'[i]] = i /\ pc'[holder'[i]] \in Engaged
    BY DEF NoStaleLock
  <2>1. holder'[i] = holder[i] /\ holder[i] # p /\ holder[i] \in Process
    BY <1>1 DEF LeaseInv, TypeOK
  <2> QED BY <1>1, <2>1 DEF LeaseInv, NoStaleLock, TypeOK
<1>4. EngagedOwns'
  <2> SUFFICES ASSUME NEW q \in Process, pc'[q] \in Engaged
               PROVE  holder'[file'[q]] = q
    BY DEF EngagedOwns
  <2>1. q # p /\ pc'[q] = pc[q] /\ file'[q] = file[q]
    BY <1>1 DEF LeaseInv, TypeOK, Engaged
  <2>2. file[q] \in Inode
    BY <2>1 DEF LeaseInv, TypeOK, Engaged
  <2> QED BY <1>1, <2>1, <2>2 DEF LeaseInv, EngagedOwns
<1> QED BY <1>2, <1>3, <1>4 DEF LeaseInv

\* Opening a file engages nobody.
LEMMA OpenPreserves ==
  ASSUME LeaseInv, NEW p \in Process, NEW i \in Inode, pc[p] = "none",
         named' \in Inode, linked' \subseteq Inode, named' \in linked',
         Opens(p, i), holder' = holder
  PROVE  LeaseInv'
<1>1. TypeOK'
  BY DEF LeaseInv, TypeOK, Opens, Becomes, Point
<1>2. \A j \in Inode : holder[j] # p
  BY DEF LeaseInv, TypeOK, NoStaleLock, Engaged
<1>3. \A q \in Process : q # p => file'[q] = file[q] /\ pc'[q] = pc[q]
  BY DEF LeaseInv, TypeOK, Opens, Becomes
<1>4. NoStaleLock'
  BY <1>2, <1>3 DEF LeaseInv, TypeOK, NoStaleLock
<1>5. pc'[p] \notin Engaged
  BY DEF LeaseInv, TypeOK, Opens, Becomes, Engaged
<1>6. EngagedOwns'
  BY <1>3, <1>5 DEF LeaseInv, EngagedOwns
<1> QED BY <1>1, <1>4, <1>6 DEF LeaseInv

\* A move from one point past flock to another keeps the lock.
LEMMA MovePreserves ==
  ASSUME LeaseInv, NEW p \in Process, NEW point \in Point \ {"none"},
         Becomes(p, point), pc[p] # "none", pc[p] \in Engaged <=> point \in Engaged,
         UNCHANGED <<named, linked, holder, file>>
  PROVE  LeaseInv'
BY DEF LeaseInv, TypeOK, NoStaleLock, EngagedOwns, Becomes

LEMMA NextPreserves == LeaseInv /\ [Next]_vars => LeaseInv'
<1> SUFFICES ASSUME LeaseInv, [Next]_vars PROVE LeaseInv'
  OBVIOUS
<1>1. CASE Others
  <2>1. /\ named' \in Inode \cup {NoInode} /\ linked' \subseteq Inode
        /\ named' # NoInode => named' \in linked'
        /\ UNCHANGED <<holder, file, pc>>
    BY <1>1 DEF Others, Unlink, MoveAway, Replace, MoveBack, LeaseInv, TypeOK
  <2> QED BY <2>1 DEF LeaseInv, TypeOK, NoStaleLock, EngagedOwns
<1>2. ASSUME NEW p \in Process, Acquire(p) PROVE LeaseInv'
  <2>1. CASE OpenFile(p)
    BY <2>1, OpenPreserves DEF OpenFile, LeaseInv, TypeOK
  <2>2. ASSUME NEW i \in Inode, CreateFile(p, i) PROVE LeaseInv'
    BY <2>2, OpenPreserves DEF CreateFile, LeaseInv, TypeOK
  <2>3. CASE Inspect(p)
    BY <2>3, ClosePreserves, MovePreserves DEF Inspect, Point, Engaged
  <2>4. CASE Lock(p)
    <3>1. CASE holder[file[p]] # NoProcess
      BY <2>4, <3>1, ClosePreserves DEF Lock
    <3>2. CASE holder[file[p]] = NoProcess
      <4>1. /\ file[p] \in Inode /\ pc[p] = "inspected"
            /\ holder' = [holder EXCEPT ![file[p]] = p]
            /\ pc' = [pc EXCEPT ![p] = "locked"]
            /\ UNCHANGED <<named, linked, file>>
        BY <2>4, <3>2 DEF Lock, Becomes, LeaseInv, TypeOK
      <4>2. TypeOK'
        BY <4>1 DEF LeaseInv, TypeOK, Point
      <4>3. NoStaleLock'
        BY <4>1 DEF LeaseInv, TypeOK, NoStaleLock, Engaged
      <4>4. EngagedOwns'
        BY <3>2, <4>1 DEF LeaseInv, TypeOK, EngagedOwns, Engaged
      <4> QED BY <4>2, <4>3, <4>4 DEF LeaseInv
    <3> QED BY <3>1, <3>2
  <2>5. CASE Verify(p)
    BY <2>5, ClosePreserves, MovePreserves DEF Verify, Point, Engaged
  <2> QED BY <1>2, <2>1, <2>2, <2>3, <2>4, <2>5 DEF Acquire
<1>3. ASSUME NEW p \in Process, Use(p) PROVE LeaseInv'
  <2>1. CASE StartCommand(p)
    BY <2>1, MovePreserves DEF StartCommand, Point, Engaged
  <2>2. CASE FinishCommand(p)
    BY <2>2, MovePreserves DEF FinishCommand, Point, Engaged
  <2>3. CASE Release(p)
    BY <2>3, ClosePreserves DEF Release
  <2>4. CASE Crash(p)
    BY <2>4, ClosePreserves DEF Crash
  <2> QED BY <1>3, <2>1, <2>2, <2>3, <2>4 DEF Use
<1>4. CASE UNCHANGED vars
  BY <1>4 DEF vars, LeaseInv, TypeOK, NoStaleLock, EngagedOwns
<1> QED BY <1>1, <1>2, <1>3, <1>4 DEF Next

LEMMA InitEstablishes == Init => LeaseInv
BY DEF Init, LeaseInv, TypeOK, NoStaleLock, EngagedOwns, Point, Engaged

LEMMA AlwaysLeaseInv == Spec => []LeaseInv
BY InitEstablishes, NextPreserves, PTL DEF Spec

-----------------------------------------------------------------------------
\* Every variable has its type, and no open file is leaked: whatever acquire()
\* fails on, the file it opened is closed.
THEOREM LeaseTypeCorrect == Spec => []TypeOK
<1>1. LeaseInv => TypeOK
  BY DEF LeaseInv
<1> QED BY <1>1, AlwaysLeaseInv, PTL

\* No lock outlives the process that took it or the acquire() that failed.
THEOREM LocksHaveOwners == Spec => []NoStaleLock
<1>1. LeaseInv => NoStaleLock
  BY DEF LeaseInv
<1> QED BY <1>1, AlwaysLeaseInv, PTL

\* Mutual exclusion of held(): two holders would have the file under the name
\* open, and the kernel gave the lock of that file to one of them.
THEOREM LeaseIsExclusive == Spec => []AtMostOneHeld
<1>1. LeaseInv => AtMostOneHeld
  <2> SUFFICES ASSUME LeaseInv, NEW p \in Process, NEW q \in Process, Held(p), Held(q)
               PROVE  p = q
    BY DEF AtMostOneHeld
  <2>1. holder[named] = p /\ holder[named] = q
    BY DEF Held, LeaseInv, EngagedOwns, Engaged
  <2> QED BY <2>1
<1> QED BY <1>1, AlwaysLeaseInv, PTL

\* A command starts beside a running one only if that one has lost the lease.
THEOREM CommandsStartAlone == Spec => StartsAlone
<1> DEFINE Alone == \A p, q \in Process :
             pc[p] # "working" /\ pc'[p] = "working" /\ q # p /\ pc[q] = "working"
               => file[q] # named
<1>1. LeaseInv /\ [Next]_vars => [Alone]_vars
  <2> SUFFICES ASSUME LeaseInv, Next,
                      NEW p \in Process, NEW q \in Process,
                      pc[p] # "working", pc'[p] = "working", q # p, pc[q] = "working"
               PROVE  file[q] # named
    BY DEF vars
  <2>1. pc[p] = "leased" /\ Held(p)
    <3>1. ASSUME NEW r \in Process, Close(r) PROVE FALSE
      BY <3>1 DEF Close, LeaseInv, TypeOK
    <3>2. ASSUME NEW r \in Process, NEW point \in Point, Becomes(r, point)
          PROVE  r = p /\ point = "working"
      BY <3>2 DEF Becomes, LeaseInv, TypeOK
    <3>3. ~Others
      BY DEF Others
    <3>4. ASSUME NEW r \in Process, Acquire(r) PROVE FALSE
      BY <3>1, <3>2, <3>4 DEF Acquire, OpenFile, CreateFile, Opens, Inspect, Lock, Verify, Point
    <3>5. ASSUME NEW r \in Process, Use(r) PROVE StartCommand(p)
      BY <3>1, <3>2, <3>5 DEF Use, StartCommand, FinishCommand, Release, Crash, Point
    <3> QED BY <3>3, <3>4, <3>5 DEF Next, StartCommand
  <2>2. holder[named] = p
    BY <2>1 DEF Held, LeaseInv, EngagedOwns, Engaged
  <2>3. holder[file[q]] = q
    BY DEF LeaseInv, EngagedOwns, Engaged
  <2> QED BY <2>2, <2>3
<1>2. Spec => [][Alone]_vars
  BY <1>1, AlwaysLeaseInv, PTL DEF Spec
<1> QED BY <1>2 DEF StartsAlone
=============================================================================
