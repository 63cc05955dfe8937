---------------------------- MODULE BackendProofs ----------------------------
(***************************************************************************)
(* Theorems about Backend for every set of paths, every plan and every     *)
(* combination of faults: no stage runs on authority it lacks, and what a  *)
(* process goes on with is in the stores.                                  *)
(***************************************************************************)
EXTENDS Backend, TLAPS

USE ActiveNamespaceAssumption, BackendAssumption

-----------------------------------------------------------------------------
(* The inductive invariant.                                                *)

Early == Domain \ {"completed_evidence"}

\* What a restarted process, or this one, can know of an effect on the target.
Begun ==
  \/ active
  \/ call # NoCall
  \/ Intended # {}
  \/ \E p \in Path : terminal[p] # "none" \/ undone[p] # "none"

\* The command has been executed by this process or is recorded as completed.
Got(domain, k) ==
  \/ result[domain][k] = "completed"
  \/ reply = [domain |-> domain, path |-> k, outcome |-> "completed"]

Typed ==
  /\ plan \in Plans
  /\ up \in {"up", "down", "refused"}
  /\ result \in [Domain -> [Key -> Outcomes]]
  /\ stored \in [Domain -> [Key -> {"absent", "visible", "durable"}]]
  /\ facts \in [Domain -> {"none", "not_attempted", "confirmed", "unconfirmed"}]
  /\ reply = NoReply \/ reply \in [domain : Domain, path : Key,
                                   outcome : {"completed", "failed"}]
  /\ sealed \in BOOLEAN
  /\ active \in BOOLEAN
  /\ held \subseteq Path /\ bound \subseteq Path

\* Only what the plan asks for is executed, once, and answered to a living process.
ResultsAsked == \A domain \in Domain, k \in Key :
                  result[domain][k] # "none" => k \in Keys(domain)
ReplyAwaited == reply # NoReply => up = "up" /\ Lacking(reply.domain, reply.path)

\* Nothing happens on the target before the stores are done with.
StoresFirst == Begun => \A domain \in Early : Done(domain)

\* A process that runs the attempt has what it made or reopened, and gave its
\* captures to the active namespace all at once.
SealedKnown == up = "up" => (sealed <=> Got("incoming_staging", Root))
HeldKnown   == up = "up" /\ ~active => held = {k \in Key : Got("recovery_staging", k)}
BoundKnown  == active => up = "up" /\ bound = plan.captured
GotStored   == up = "up" => \A domain \in Domain, k \in Key :
                              Got(domain, k) => stored[domain][k] # "absent"

BackendInv ==
  /\ Typed
  /\ ResultsAsked
  /\ ReplyAwaited
  /\ StoresFirst
  /\ SealedKnown
  /\ HeldKnown
  /\ BoundKnown
  /\ GotStored

-----------------------------------------------------------------------------
(* Facts the steps share. *)

\* When the captures are done, they are those of the plan.
LEMMA CapturesOfPlan ==
  ASSUME BackendInv, Done("recovery_staging")
  PROVE  Captured = plan.captured
<1>1. plan.captured \subseteq Path
  BY DEF BackendInv, Typed, Plan
<1>2. Keys("recovery_staging") = plan.captured
  BY DEF Keys
<1>3. "recovery_staging" \in Domain
  BY DEF Domain
<1> QED BY <1>1, <1>2, <1>3 DEF BackendInv, ResultsAsked, Captured, Done, Completes, Key

\* Only paths are captured.
LEMMA CapturesArePaths ==
  ASSUME BackendInv
  PROVE  /\ Captured \subseteq Path
         /\ \A k \in Key : Lacking("recovery_staging", k) => k \in Path
<1>1. plan.captured \subseteq Path
  BY DEF BackendInv, Typed, Plan
<1>2. "recovery_staging" \in Domain /\ Keys("recovery_staging") = plan.captured
  BY DEF Keys, Domain
<1>3. Captured \subseteq Path
  BY <1>1, <1>2 DEF BackendInv, ResultsAsked, Captured
<1> QED BY <1>1, <1>2, <1>3 DEF Lacking

\* A step of the active namespace belongs to a call and keeps the plan.
LEMMA MechanismKeeps ==
  ASSUME NEW p \in Path, Mechanism(p)
  PROVE  plan' = plan /\ call # NoCall
<1>1. ASSUME NEW point \in At, point # "idle", Running(p, point)
      PROVE  call # NoCall
  BY <1>1 DEF Running, NoCall
<1>2. CASE PublishIncoming(p)
  BY <1>2, <1>1 DEF PublishIncoming, Refuse, Answer, Goto, At
<1>3. CASE Prepare(p)
  BY <1>3, <1>1 DEF Prepare, Abandon, Fails, Refuse, Answer, Goto, At
<1>4. CASE Displace(p)
  BY <1>4, <1>1 DEF Displace, Abandon, Answer, Goto, At
<1>5. CASE Activate(p)
  BY <1>5, <1>1 DEF Activate, Abandon, Answer, Goto, At
<1>6. CASE UpdateDirectory(p)
  BY <1>6, <1>1 DEF UpdateDirectory, Updated, Fails, Refuse, Answer, Goto, At
<1>7. CASE FinishUpdate(p)
  BY <1>7, <1>1 DEF FinishUpdate, Updated, Fails, Refuse, Answer, Goto, At
<1>8. CASE Remove(p)
  BY <1>8, <1>1 DEF Remove, Refuse, Answer, Goto, At
<1>9. CASE Take(p)
  BY <1>9, <1>1 DEF Take, Fails, Refuse, Answer, Goto, At
<1>10. CASE Recover(p)
  BY <1>10, <1>1 DEF Recover, Refuse, Answer, Goto, At
<1>11. CASE Clean(p)
  BY <1>11, <1>1 DEF Clean, Fails, Refuse, Answer, Goto, At
<1>12. CASE Unpublish(p)
  BY <1>12, <1>1 DEF Unpublish, Fails, Refuse, Answer, Goto, At
<1>13. CASE Restore(p)
  BY <1>13, <1>1 DEF Restore, Fails, Refuse, Answer, Goto, At
<1>14. CASE Withdraw(p)
  BY <1>14, <1>1 DEF Withdraw, Fails, Refuse, Answer, Goto, At
<1>15. CASE Copy(p)
  BY <1>15, <1>1 DEF Copy, Abandon, Fails, Refuse, Answer, Goto, At
<1>16. CASE Vacate(p)
  BY <1>16, <1>1 DEF Vacate, Abandon, Answer, Goto, At
<1>17. CASE Install(p)
  BY <1>17, <1>1 DEF Install, Abandon, Answer, Goto, At
<1>18. CASE Readmit(p)
  BY <1>18, <1>1 DEF Readmit, Refreshed, Refuse, Answer, At
<1>19. CASE Refresh(p)
  BY <1>19, <1>1 DEF Refresh, Refreshed, Answer, At
<1>20. CASE DiscardRecovery(p)
  BY <1>20, <1>1 DEF DiscardRecovery, Refuse, Answer, Goto, At
<1>21. CASE DropBelow(p)
  BY <1>21, <1>1 DEF DropBelow, At
<1>22. CASE Drop(p)
  BY <1>22, <1>1 DEF Drop, Fails, Refuse, Answer, Goto, At
<1> QED
  BY <1>2, <1>3, <1>4, <1>5, <1>6, <1>7, <1>8, <1>9, <1>10, <1>11, <1>12, <1>13,
     <1>14, <1>15, <1>16, <1>17, <1>18, <1>19, <1>20, <1>21, <1>22 DEF Mechanism

\* Steps that leave the stores and the backend alone keep the invariant when they
\* begin nothing on the target.
LEMMA QuietPreserves ==
  ASSUME BackendInv, UNCHANGED <<plan, up, backend>>, Begun' => Begun
  PROVE  BackendInv'
<1>1. /\ result' = result /\ stored' = stored /\ facts' = facts /\ reply' = reply
      /\ sealed' = sealed /\ held' = held /\ active' = active /\ bound' = bound
      /\ plan' = plan /\ up' = up
  BY DEF backend, authority
<1>2. \A domain \in Domain : Keys(domain)' = Keys(domain)
  BY <1>1 DEF Keys, HasImage
<1>3. \A domain \in Domain : Done(domain)' = Done(domain)
  BY <1>1, <1>2 DEF Done, Completes
<1>4. Typed'
  BY <1>1 DEF BackendInv, Typed
<1>5. ResultsAsked'
  BY <1>1, <1>2 DEF BackendInv, ResultsAsked
<1>6. ReplyAwaited'
  <2>1. reply # NoReply => reply.domain \in Domain
    BY DEF BackendInv, Typed
  <2> QED BY <1>1, <1>2, <2>1 DEF BackendInv, ReplyAwaited, Lacking
<1>7. StoresFirst'
  BY <1>3 DEF BackendInv, StoresFirst, Early
<1>8. SealedKnown' /\ HeldKnown' /\ BoundKnown' /\ GotStored'
  BY <1>1 DEF BackendInv, SealedKnown, HeldKnown, BoundKnown, GotStored, Got
<1> QED BY <1>4, <1>5, <1>6, <1>7, <1>8 DEF BackendInv

LEMMA ActiveStepQuiet ==
  ASSUME ActiveStep
  PROVE  plan' = plan /\ up' = up /\ (Begun' => Begun \/ active')
<1>1. ASSUME NEW p \in Path, Mechanism(p) /\ UNCHANGED owner
      PROVE  plan' = plan /\ up' = up /\ Begun
  BY <1>1, MechanismKeeps DEF owner, Begun
<1>2. ASSUME NEW p \in Path, RecordEffect(p)
      PROVE  plan' = plan /\ up' = up /\ Begun
  BY <1>2 DEF RecordEffect, Returned, Begun, NoCall
<1>3. ASSUME NEW p \in Path, RecordRecovery(p)
      PROVE  plan' = plan /\ up' = up /\ Begun
  BY <1>3 DEF RecordRecovery, Returned, Begun, NoCall
<1>4. ASSUME NEW p \in Path, DiscardPath(p)
      PROVE  plan' = plan /\ up' = up /\ Begun
  BY <1>4 DEF DiscardPath, Issue, owner, Displacing, Begun
<1>5. ASSUME NEW p \in Path, RecordDiscard(p)
      PROVE  plan' = plan /\ up' = up /\ Begun
  BY <1>5 DEF RecordDiscard, Returned, Begun, NoCall
<1>6. ASSUME NEW p \in Path, Lose(p)
      PROVE  plan' = plan /\ up' = up /\ (Begun' => Begun \/ active')
  BY <1>6 DEF Lose, owner, Begun, Intended
<1>7. CASE Cancel
  BY <1>7 DEF Cancel, namespace, Begun
<1> QED BY <1>1, <1>2, <1>3, <1>4, <1>5, <1>6, <1>7 DEF ActiveStep

-----------------------------------------------------------------------------
(* Commands on the stores. *)

LEMMA VarsKept ==
  ASSUME UNCHANGED vars
  PROVE  /\ plan' = plan /\ up' = up /\ call' = call /\ phase' = phase /\ fact' = fact
         /\ Intended' = Intended /\ terminal' = terminal /\ undone' = undone
BY DEF vars, namespace, owner, Intended

\* A command that leaves its object in the store.
LEMMA KeepPreserves ==
  ASSUME BackendInv, NEW domain \in Domain, NEW k \in Key,
         Ready(domain), Lacking(domain, k), Keep(domain, k),
         active' = active, bound' = bound,
         sealed' = (sealed \/ domain = "incoming_staging"),
         held' = IF domain = "recovery_staging" THEN held \cup {k} ELSE held
  PROVE  BackendInv'
<1>1. /\ result' = result /\ facts' = facts /\ plan' = plan /\ up' = up /\ up = "up"
      /\ reply = NoReply
      /\ reply' = [domain |-> domain, path |-> k, outcome |-> "completed"]
  BY VarsKept DEF Keep, Reply, Ready
<1>2. \A d \in Domain : Keys(d)' = Keys(d) /\ Done(d)' = Done(d)
  BY <1>1 DEF Keys, HasImage, Done, Completes
<1>3. /\ stored' \in [Domain -> [Key -> {"absent", "visible", "durable"}]]
      /\ stored'[domain][k] # "absent"
      /\ \A d \in Domain, j \in Key : stored[d][j] # "absent" => stored'[d][j] # "absent"
  BY DEF BackendInv, Typed, Keep
<1>4. Typed'
  <2>1. held' \subseteq Path
    BY CapturesArePaths DEF BackendInv, Typed
  <2>2. sealed' \in BOOLEAN /\ bound' \subseteq Path /\ active' \in BOOLEAN
    BY DEF BackendInv, Typed
  <2>3. reply' \in [domain : Domain, path : Key, outcome : {"completed", "failed"}]
    BY <1>1
  <2> QED BY <1>1, <1>3, <2>1, <2>2, <2>3 DEF BackendInv, Typed
<1>5. ResultsAsked' /\ ReplyAwaited'
  BY <1>1, <1>2 DEF BackendInv, ResultsAsked, ReplyAwaited, Lacking
<1>6. StoresFirst'
  BY <1>1, <1>2, VarsKept DEF BackendInv, StoresFirst, Begun, Early, Keep
<1>7. \A d \in Domain, j \in Key : Got(d, j)' <=> Got(d, j) \/ (d = domain /\ j = k)
  BY <1>1 DEF Got, NoReply
<1>8. SealedKnown' /\ HeldKnown' /\ BoundKnown'
  <2>1. "incoming_staging" \in Domain /\ "recovery_staging" \in Domain /\ Root \in Key
    BY DEF Domain, Key
  <2>2. domain = "incoming_staging" => k = Root
    BY DEF Lacking, Keys
  <2>3. SealedKnown'
    BY <1>1, <1>7, <2>1, <2>2 DEF BackendInv, Typed, SealedKnown
  <2>4. HeldKnown' /\ BoundKnown'
    BY <1>1, <1>7, <2>1 DEF BackendInv, HeldKnown, BoundKnown
  <2> QED BY <2>3, <2>4
<1>9. GotStored'
  BY <1>1, <1>3, <1>7 DEF BackendInv, GotStored
<1> QED BY <1>4, <1>5, <1>6, <1>8, <1>9 DEF BackendInv

\* A command that fails leaves nothing but its result.
LEMMA FailurePreserves ==
  ASSUME BackendInv, NEW domain \in Domain, NEW k \in Key,
         Ready(domain), Lacking(domain, k), StoreFails(domain, k)
  PROVE  BackendInv'
<1>1. /\ result' = result /\ facts' = facts /\ plan' = plan /\ up' = up /\ up = "up"
      /\ reply = NoReply /\ stored' = stored /\ sealed' = sealed /\ held' = held
      /\ active' = active /\ bound' = bound
      /\ reply' = [domain |-> domain, path |-> k, outcome |-> "failed"]
  BY VarsKept DEF StoreFails, Reply, Ready, authority
<1>2. \A d \in Domain : Keys(d)' = Keys(d) /\ Done(d)' = Done(d)
  BY <1>1 DEF Keys, HasImage, Done, Completes
<1>3. Typed'
  BY <1>1 DEF BackendInv, Typed
<1>4. ResultsAsked' /\ ReplyAwaited'
  BY <1>1, <1>2 DEF BackendInv, ResultsAsked, ReplyAwaited, Lacking
<1>5. StoresFirst'
  BY <1>1, <1>2, VarsKept DEF BackendInv, StoresFirst, Begun, Early, StoreFails
<1>6. \A d \in Domain, j \in Key : Got(d, j)' <=> Got(d, j)
  BY <1>1 DEF Got, NoReply
<1>7. "incoming_staging" \in Domain /\ "recovery_staging" \in Domain /\ Root \in Key
  BY DEF Domain, Key
<1>8. SealedKnown' /\ HeldKnown' /\ BoundKnown' /\ GotStored'
  BY <1>1, <1>6, <1>7 DEF BackendInv, SealedKnown, HeldKnown, BoundKnown, GotStored
<1> QED BY <1>3, <1>4, <1>5, <1>8 DEF BackendInv

LEMMA RecordPreserves ==
  ASSUME BackendInv, RecordResult
  PROVE  BackendInv'
<1> DEFINE domain == reply.domain
           k == reply.path
<1>1. /\ domain \in Domain /\ k \in Key /\ Lacking(domain, k) /\ up = "up"
      /\ reply.outcome \in {"completed", "failed"}
      /\ reply = [domain |-> domain, path |-> k, outcome |-> reply.outcome]
  BY DEF BackendInv, Typed, ReplyAwaited, RecordResult
<1>2. /\ plan' = plan /\ up' = up /\ facts' = facts /\ stored' = stored /\ reply' = NoReply
      /\ sealed' = sealed /\ held' = held /\ active' = active /\ bound' = bound
      /\ call' = call /\ Intended' = Intended /\ terminal' = terminal /\ undone' = undone
  BY DEF RecordResult, namespace, authority, Intended
<1>3. /\ result' \in [Domain -> [Key -> Outcomes]]
      /\ result'[domain][k] = reply.outcome
      /\ \A d \in Domain, j \in Key : d # domain \/ j # k => result'[d][j] = result[d][j]
  BY <1>1 DEF BackendInv, Typed, RecordResult, Outcomes
<1>4. \A d \in Domain : Keys(d)' = Keys(d) /\ Keys(d) \subseteq Key
  <2>1. \A d \in Domain : Keys(d)' = Keys(d)
    BY <1>2 DEF Keys, HasImage
  <2>2. plan.captured \subseteq Path
    BY DEF BackendInv, Typed, Plan
  <2> QED BY <2>1, <2>2 DEF Keys, Key, Domain
<1>5. \A d \in Domain : Done(d) => Done(d)'
  <2>1. ~Done(domain)
    BY <1>1 DEF Done, Completes, Lacking
  <2>2. ASSUME NEW d \in Domain, d # domain, Done(d)
        PROVE  Done(d)'
    BY <1>2, <1>3, <1>4, <2>2 DEF Done, Completes
  <2> QED BY <2>1, <2>2
<1>6. \A d \in Domain, j \in Key : Got(d, j)' <=> Got(d, j)
  <2>1. ASSUME NEW d \in Domain, NEW j \in Key
        PROVE  Got(d, j)' <=> result'[d][j] = "completed"
    BY <1>2 DEF Got, NoReply
  <2>2. ASSUME NEW d \in Domain, NEW j \in Key, d # domain \/ j # k
        PROVE  Got(d, j) <=> result[d][j] = "completed"
    BY <1>1, <2>2 DEF Got
  <2>3. Got(domain, k) <=> reply.outcome = "completed"
    BY <1>1 DEF Got, Lacking
  <2> QED BY <1>3, <2>1, <2>2, <2>3
<1>7. Typed'
  BY <1>2, <1>3 DEF BackendInv, Typed
<1>8. ResultsAsked' /\ ReplyAwaited'
  BY <1>1, <1>2, <1>3, <1>4 DEF BackendInv, ResultsAsked, ReplyAwaited, Lacking
<1>9. StoresFirst'
  BY <1>2, <1>5 DEF BackendInv, StoresFirst, Begun, Early
<1>10. "incoming_staging" \in Domain /\ "recovery_staging" \in Domain /\ Root \in Key
  BY DEF Domain, Key
<1>11. SealedKnown' /\ HeldKnown' /\ BoundKnown' /\ GotStored'
  BY <1>2, <1>6, <1>10 DEF BackendInv, SealedKnown, HeldKnown, BoundKnown, GotStored
<1> QED BY <1>7, <1>8, <1>9, <1>11 DEF BackendInv

LEMMA SynchronizePreserves ==
  ASSUME BackendInv, NEW domain \in Domain, SynchronizeStore(domain)
  PROVE  BackendInv'
<1>1. /\ plan' = plan /\ up' = up /\ result' = result /\ reply' = reply
      /\ sealed' = sealed /\ held' = held /\ active' = active /\ bound' = bound
  BY VarsKept DEF SynchronizeStore, authority
<1>2. /\ facts' \in [Domain -> {"none", "not_attempted", "confirmed", "unconfirmed"}]
      /\ \A d \in Domain : facts[d] # "none" => facts'[d] # "none"
  BY DEF SynchronizeStore, BackendInv, Typed
<1>3. /\ stored' \in [Domain -> [Key -> {"absent", "visible", "durable"}]]
      /\ \A d \in Domain, k \in Key : stored[d][k] # "absent" => stored'[d][k] # "absent"
  <2>1. CASE stored' = stored
    BY <2>1 DEF BackendInv, Typed
  <2>2. CASE stored' = [stored EXCEPT ![domain] =
               [k \in Key |-> IF stored[domain][k] = "visible" THEN "durable"
                                                             ELSE stored[domain][k]]]
    <3>1. [k \in Key |-> IF stored[domain][k] = "visible" THEN "durable"
                                                         ELSE stored[domain][k]]
            \in [Key -> {"absent", "visible", "durable"}]
      BY DEF BackendInv, Typed
    <3> QED BY <2>2, <3>1 DEF BackendInv, Typed
  <2> QED BY <2>1, <2>2 DEF SynchronizeStore
<1>4. \A d \in Domain : Keys(d)' = Keys(d) /\ (Done(d) => Done(d)')
  <2>1. \A d \in Domain : Keys(d)' = Keys(d)
    BY <1>1 DEF Keys, HasImage
  <2> QED BY <1>1, <1>2, <2>1 DEF Done, Completes
<1>5. Typed'
  <2>1. Typed
    BY DEF BackendInv
  <2>2. /\ plan' \in Plans /\ up' \in {"up", "down", "refused"}
        /\ result' \in [Domain -> [Key -> Outcomes]]
        /\ reply' = NoReply \/ reply' \in [domain : Domain, path : Key,
                                           outcome : {"completed", "failed"}]
    BY <1>1, <2>1 DEF Typed
  <2>3. /\ sealed' \in BOOLEAN /\ active' \in BOOLEAN
        /\ held' \subseteq Path /\ bound' \subseteq Path
    BY <1>1, <2>1 DEF Typed
  <2> QED BY <1>2, <1>3, <2>2, <2>3 DEF Typed
<1>6. ResultsAsked' /\ ReplyAwaited'
  <2>1. reply # NoReply => reply.domain \in Domain
    BY DEF BackendInv, Typed
  <2> QED BY <1>1, <1>4, <2>1 DEF BackendInv, ResultsAsked, ReplyAwaited, Lacking
<1>7. StoresFirst'
  BY <1>1, <1>4, VarsKept DEF BackendInv, StoresFirst, Begun, Early, SynchronizeStore
<1>8. \A d \in Domain, k \in Key : Got(d, k)' <=> Got(d, k)
  BY <1>1 DEF Got
<1>9. "incoming_staging" \in Domain /\ "recovery_staging" \in Domain /\ Root \in Key
  BY DEF Domain, Key
<1>10. SealedKnown' /\ HeldKnown' /\ BoundKnown' /\ GotStored'
  BY <1>1, <1>3, <1>8, <1>9 DEF BackendInv, SealedKnown, HeldKnown, BoundKnown, GotStored
<1> QED BY <1>5, <1>6, <1>7, <1>10 DEF BackendInv

-----------------------------------------------------------------------------
(* Commands on the target. *)

\* Binding the namespace moves all captures of the plan into it, or finds them
\* there.
LEMMA EnsurePreserves ==
  ASSUME BackendInv, \A domain \in Early : Done(domain), EnsureActiveNamespace,
         up = "up", reply = NoReply, plan' = plan, up' = up,
         UNCHANGED <<result, stored, facts, reply, sealed>>
  PROVE  BackendInv'
<1>1. Typed'
  <2>1. held \subseteq Path /\ bound \subseteq Path
    BY DEF BackendInv, Typed
  <2>2. /\ active' = TRUE
        /\ bound' = IF active THEN bound ELSE held
        /\ held' = IF active THEN held ELSE {}
    BY DEF EnsureActiveNamespace
  <2>3. held' \subseteq Path /\ bound' \subseteq Path
    BY <2>1, <2>2
  <2> QED BY <2>2, <2>3 DEF BackendInv, Typed
<1>2. \A domain \in Domain : Keys(domain)' = Keys(domain) /\ Done(domain)' = Done(domain)
  BY DEF Keys, HasImage, Done, Completes
<1>3. ResultsAsked' /\ ReplyAwaited' /\ StoresFirst'
  BY <1>2 DEF BackendInv, ResultsAsked, ReplyAwaited, StoresFirst, Early
<1>4. SealedKnown' /\ GotStored'
  BY DEF BackendInv, SealedKnown, GotStored, Got
<1>5. HeldKnown' /\ BoundKnown'
  <2>1. active'
    BY DEF EnsureActiveNamespace
  <2>2. Done("recovery_staging")
    BY DEF Early, Domain
  <2>3. ASSUME NEW k \in Key
        PROVE  Got("recovery_staging", k) <=> result["recovery_staging"][k] = "completed"
    BY DEF Got, NoReply
  <2>4. ASSUME ~active
        PROVE  held = plan.captured
    <3>1. held = {k \in Key : Got("recovery_staging", k)}
      BY <2>4 DEF BackendInv, HeldKnown
    <3>2. held = Captured
      BY <2>3, <3>1 DEF Captured
    <3> QED BY <2>2, <3>2, CapturesOfPlan
  <2> QED BY <2>1, <2>4 DEF EnsureActiveNamespace, BackendInv, HeldKnown, BoundKnown
<1> QED BY <1>1, <1>3, <1>4, <1>5 DEF BackendInv

-----------------------------------------------------------------------------
(* Crash and restart. *)

LEMMA ForgetPreserves ==
  ASSUME BackendInv, ForgetAuthority, Forget, plan' = plan, up' = "down",
         UNCHANGED <<turn, terminal, undone>>
  PROVE  BackendInv'
<1>1. \A domain \in Domain : Keys(domain)' = Keys(domain) /\ Done(domain)' = Done(domain)
  BY DEF Keys, HasImage, Done, Completes, ForgetAuthority
<1>2. Typed'
  BY DEF BackendInv, Typed, ForgetAuthority
<1>3. ResultsAsked' /\ ReplyAwaited'
  BY <1>1 DEF BackendInv, ResultsAsked, ReplyAwaited, ForgetAuthority
<1>4. StoresFirst'
  BY <1>1 DEF BackendInv, StoresFirst, Begun, Intended, Early, ForgetAuthority, Forget
<1>5. SealedKnown' /\ HeldKnown' /\ BoundKnown' /\ GotStored'
  BY DEF SealedKnown, HeldKnown, BoundKnown, GotStored, ForgetAuthority
<1> QED BY <1>2, <1>3, <1>4, <1>5 DEF BackendInv

LEMMA LosePowerPreserves ==
  ASSUME BackendInv, LosePower
  PROVE  BackendInv'
<1>1. /\ plan' = plan /\ up' = up /\ up = "down" /\ result' = result /\ reply' = reply
      /\ sealed' = sealed /\ held' = held /\ active' = active /\ bound' = bound
      /\ facts' = facts
  BY VarsKept DEF LosePower, authority
<1>2. stored' \in [Domain -> [Key -> {"absent", "visible", "durable"}]]
  BY DEF LosePower, BackendInv, Typed
<1>3. \A d \in Domain : Keys(d)' = Keys(d) /\ Done(d)' = Done(d)
  BY <1>1 DEF Keys, HasImage, Done, Completes
<1>4. Typed'
  BY <1>1, <1>2 DEF BackendInv, Typed
<1>5. ResultsAsked' /\ ReplyAwaited'
  BY <1>1, <1>3 DEF BackendInv, ResultsAsked, ReplyAwaited
<1>6. StoresFirst'
  BY <1>1, <1>3, VarsKept DEF BackendInv, StoresFirst, Begun, Early, LosePower
<1>7. SealedKnown' /\ HeldKnown' /\ BoundKnown' /\ GotStored'
  BY <1>1 DEF BackendInv, SealedKnown, HeldKnown, BoundKnown, GotStored
<1> QED BY <1>4, <1>5, <1>6, <1>7 DEF BackendInv

LEMMA LoadRestartPreserves ==
  ASSUME BackendInv, LoadRestart
  PROVE  BackendInv'
<1>1. up = "down" /\ reply = NoReply /\ ~active
  BY DEF BackendInv, ReplyAwaited, BoundKnown, LoadRestart, Restart
<1>2. /\ plan' = plan /\ result' = result /\ stored' = stored /\ facts' = facts
      /\ reply' = reply /\ call' = call /\ Intended' = Intended
      /\ terminal' = terminal /\ undone' = undone
  <2>1. CASE UNCHANGED <<namespace, phase, turn, terminal, undone, fact, backend>>
    BY <2>1 DEF namespace, backend, Intended
  <2>2. CASE Restart /\ UNCHANGED <<result, stored, facts, reply>>
    BY <2>2 DEF Restart, Intended
  <2> QED BY <2>1, <2>2 DEF LoadRestart
<1>3. \A d \in Domain : Keys(d)' = Keys(d) /\ Done(d)' = Done(d)
  BY <1>2 DEF Keys, HasImage, Done, Completes
<1>4. ResultsAsked' /\ ReplyAwaited'
  BY <1>1, <1>2, <1>3 DEF BackendInv, ResultsAsked, ReplyAwaited
<1>5. ASSUME NEW d \in Domain, NEW k \in Key
      PROVE  Got(d, k)' <=> result[d][k] = "completed"
  BY <1>1, <1>2 DEF Got, NoReply
<1>6. CASE up' = "refused"
  <2>1. /\ active' = active /\ sealed' = sealed
        /\ held' = held /\ bound' = bound
    BY <1>6 DEF LoadRestart, backend, authority
  <2>2. Typed'
    BY <1>2, <1>6, <2>1 DEF BackendInv, Typed
  <2>3. StoresFirst'
    BY <1>2, <1>3, <2>1 DEF BackendInv, StoresFirst, Begun, Early
  <2>4. SealedKnown' /\ HeldKnown' /\ BoundKnown' /\ GotStored'
    BY <1>1, <1>6, <2>1 DEF SealedKnown, HeldKnown, BoundKnown, GotStored
  <2> QED BY <1>4, <2>2, <2>3, <2>4 DEF BackendInv
<1>7. CASE up' # "refused"
  <2>1. /\ Revalidated /\ up' = "up"
        /\ sealed' = (result["incoming_staging"][Root] = "completed")
        /\ active' = \E p \in Path : terminal[p] # "none" \/ undone[p] # "none"
        /\ bound' = (IF active' THEN Captured ELSE {})
        /\ held' = Captured \ bound'
    BY <1>7 DEF LoadRestart, Restart
  <2>2. Typed'
    <3>1. held' \subseteq Path /\ bound' \subseteq Path
      BY <1>2, <2>1, CapturesArePaths DEF Captured
    <3>2. sealed' \in BOOLEAN /\ active' \in BOOLEAN
      BY <2>1
    <3> QED BY <1>1, <1>2, <2>1, <3>1, <3>2 DEF BackendInv, Typed
  <2>3. Begun' => Begun
    BY <1>2, <2>1 DEF Begun
  <2>4. StoresFirst'
    BY <1>3, <2>3 DEF BackendInv, StoresFirst, Early
  <2>5. SealedKnown'
    BY <1>5, <2>1 DEF SealedKnown, Domain, Key
  <2>6. HeldKnown'
    BY <1>5, <2>1 DEF HeldKnown, Captured, Domain
  <2>7. BoundKnown'
    <3>1. active' => Done("recovery_staging")
      BY <2>1 DEF BackendInv, StoresFirst, Begun, Early, Domain
    <3> QED BY <1>2, <2>1, <3>1, CapturesOfPlan DEF BoundKnown
  <2>8. GotStored'
    BY <1>2, <1>5, <2>1 DEF GotStored, Revalidated
  <2> QED BY <1>4, <2>2, <2>4, <2>5, <2>6, <2>7, <2>8 DEF BackendInv
<1> QED BY <1>6, <1>7

-----------------------------------------------------------------------------
(* The invariant and what follows from it. *)

LEMMA InitSatisfies == BackendInit => BackendInv
<1> SUFFICES ASSUME BackendInit PROVE BackendInv
  OBVIOUS
<1>1. Typed
  BY DEF BackendInit, Init, Typed, Outcomes
<1>2. ~Begun
  BY DEF BackendInit, Init, Begun, Intended, NoCall
<1>3. \A domain \in Domain, k \in Key : ~Got(domain, k)
  BY DEF BackendInit, Got, NoReply, Domain
<1>4. ResultsAsked /\ ReplyAwaited /\ StoresFirst /\ BoundKnown
  BY <1>2 DEF BackendInit, ResultsAsked, ReplyAwaited, StoresFirst, BoundKnown
<1>5. SealedKnown /\ HeldKnown /\ GotStored
  BY <1>3 DEF BackendInit, SealedKnown, HeldKnown, GotStored, Domain, Key
<1> QED BY <1>1, <1>4, <1>5 DEF BackendInv

LEMMA NextPreserves == BackendInv /\ [BackendNext]_<<vars, backend>> => BackendInv'
<1> SUFFICES ASSUME BackendInv, [BackendNext]_<<vars, backend>> PROVE BackendInv'
  OBVIOUS
<1>1. CASE StagePayloads
  <2>1. "incoming_staging" \in Domain /\ Root \in Key
    BY DEF Domain, Key
  <2>2. CASE StoreFails("incoming_staging", Root)
    BY <1>1, <2>1, <2>2, FailurePreserves DEF StagePayloads
  <2>3. CASE Keep("incoming_staging", Root) /\ sealed' = TRUE
             /\ UNCHANGED <<held, active, bound>>
    BY <1>1, <2>1, <2>3, KeepPreserves DEF StagePayloads
  <2> QED BY <1>1, <2>2, <2>3 DEF StagePayloads
<1>2. ASSUME NEW p \in Path, CaptureOld(p)
      PROVE  BackendInv'
  <2>1. "recovery_staging" \in Domain /\ p \in Key
    BY DEF Domain, Key
  <2>2. CASE StoreFails("recovery_staging", p)
    BY <1>2, <2>1, <2>2, FailurePreserves DEF CaptureOld
  <2>3. CASE Keep("recovery_staging", p) /\ held' = held \cup {p}
             /\ UNCHANGED <<sealed, active, bound>>
    <3>1. sealed' = (sealed \/ "recovery_staging" = "incoming_staging")
      BY <2>3 DEF BackendInv, Typed
    <3> QED BY <1>2, <2>1, <2>3, <3>1, KeepPreserves DEF CaptureOld
  <2> QED BY <1>2, <2>2, <2>3 DEF CaptureOld
<1>3. ASSUME NEW p \in Path, ExecuteRejected(p)
      PROVE  BackendInv'
  <2>1. "rejected_object_store" \in Domain /\ p \in Key
    BY DEF Domain, Key
  <2>2. CASE StoreFails("rejected_object_store", p)
    BY <1>3, <2>1, <2>2, FailurePreserves DEF ExecuteRejected
  <2>3. CASE Keep("rejected_object_store", p) /\ UNCHANGED authority
    <3>1. sealed' = (sealed \/ "rejected_object_store" = "incoming_staging")
      BY <2>3 DEF BackendInv, Typed, authority
    <3> QED BY <1>3, <2>1, <2>3, <3>1, KeepPreserves DEF ExecuteRejected, authority
  <2> QED BY <1>3, <2>2, <2>3 DEF ExecuteRejected
<1>4. CASE PublishCompletedEvidence
  <2>1. "completed_evidence" \in Domain /\ Root \in Key
    BY DEF Domain, Key
  <2>2. sealed' = (sealed \/ "completed_evidence" = "incoming_staging")
    BY <1>4 DEF PublishCompletedEvidence, BackendInv, Typed, authority
  <2> QED BY <1>4, <2>1, <2>2, KeepPreserves DEF PublishCompletedEvidence, authority
<1>5. CASE RecordResult
  BY <1>5, RecordPreserves
<1>6. ASSUME NEW domain \in Domain, SynchronizeStore(domain)
      PROVE  BackendInv'
  BY <1>6, SynchronizePreserves
<1>7. ASSUME NEW p \in Path, BackendExecuteActive(p)
      PROVE  BackendInv'
  BY <1>7, EnsurePreserves DEF BackendExecuteActive, ExecuteActive, Issue, Early
<1>8. ASSUME NEW p \in Path, BackendRecover(p)
      PROVE  BackendInv'
  <2>1. up = "up" /\ up' = up /\ plan' = plan /\ Begun /\ reply = NoReply
    BY <1>8 DEF BackendRecover, RecoverPath, Issue, owner, Begun
  <2>2. \A domain \in Early : Done(domain)
    BY <2>1 DEF BackendInv, StoresFirst
  <2> QED BY <1>8, <2>1, <2>2, EnsurePreserves DEF BackendRecover
<1>9. CASE SynchronizeActive
  BY <1>9, QuietPreserves
     DEF SynchronizeActive, Synchronize, Begun, Intended, backend, authority, namespace
<1>10. CASE BackendConclude
  BY <1>10, QuietPreserves
     DEF BackendConclude, Conclude, Begun, Intended, backend, authority, namespace
<1>11. CASE ActiveStep /\ UNCHANGED backend
  BY <1>11, ActiveStepQuiet, QuietPreserves DEF backend, authority, Begun
<1>12. CASE Crash /\ ForgetAuthority
  BY <1>12, ForgetPreserves DEF Crash
<1>13. CASE Throw /\ ForgetAuthority
  BY <1>13, ForgetPreserves DEF Throw
<1>14. CASE LosePower
  BY <1>14, LosePowerPreserves
<1>15. CASE LoadRestart
  BY <1>15, LoadRestartPreserves
<1>16. CASE UNCHANGED <<vars, backend>>
  BY <1>16, VarsKept, QuietPreserves DEF Begun, backend, authority
<1> QED
  BY <1>1, <1>2, <1>3, <1>4, <1>5, <1>6, <1>7, <1>8, <1>9, <1>10, <1>11, <1>12,
     <1>13, <1>14, <1>15, <1>16 DEF BackendNext

LEMMA BackendInvHolds == Spec => []BackendInv
<1> QED BY InitSatisfies, NextPreserves, PTL DEF Spec

\* No stage of an attempt runs on authority it lacks: captures, payloads and the
\* sources of rejected objects are at hand in every process that gets to use them.
THEOREM AlwaysHasAuthority == Spec => []WorkHasAuthority
<1>1. BackendInv => WorkHasAuthority
  <2> SUFFICES ASSUME BackendInv PROVE WorkHasAuthority
    OBVIOUS
  <2>1. "incoming_staging" \in Domain /\ Root \in Key
    BY DEF Domain, Key
  <2>2. ASSUME up = "up", HasImage, Done("incoming_staging")
        PROVE  sealed
    BY <2>1, <2>2 DEF BackendInv, SealedKnown, Got, Done, Completes, Keys
  <2>3. active => bound = plan.captured /\ (HasImage => sealed)
    BY <2>2 DEF BackendInv, BoundKnown, StoresFirst, Begun, Early, Domain
  <2>4. ASSUME NEW p \in Path,
               Ready("rejected_object_store"), Lacking("rejected_object_store", p)
        PROVE  HasAuthority(p)
    <3>1. /\ up = "up" /\ reply = NoReply
          /\ Done("incoming_staging") /\ Done("recovery_staging")
      BY <2>4 DEF Ready, Before
    <3>2. ~active
      BY <2>4 DEF BackendInv, StoresFirst, Begun, Early, Domain, Done, Completes, Lacking
    <3>3. held = plan.captured
      <4>1. held = {k \in Key : Got("recovery_staging", k)}
        BY <3>1, <3>2 DEF BackendInv, HeldKnown
      <4>2. held = Captured
        BY <3>1, <4>1 DEF Captured, Got, NoReply
      <4> QED BY <3>1, <4>2, CapturesOfPlan
    <3>4. Rejects[plan][p] \in {"incoming", "old"}
      BY <2>4 DEF Lacking, Keys, BackendInv, Typed
    <3>5. CASE Rejects[plan][p] = "old"
      BY <3>3, <3>5 DEF HasAuthority, BackendInv, Typed
    <3>6. CASE Rejects[plan][p] = "incoming"
      BY <2>2, <3>1, <3>6 DEF HasAuthority, HasImage
    <3> QED BY <3>4, <3>5, <3>6
  <2> QED BY <2>3, <2>4 DEF WorkHasAuthority
<1> QED BY <1>1, BackendInvHolds, PTL

\* A process that runs the attempt finds every completed result in its store, after
\* whatever loss of power it was restarted.
THEOREM AlwaysAcceptedIsStored == Spec => []AcceptedIsStored
<1>1. BackendInv => AcceptedIsStored
  BY DEF BackendInv, GotStored, Got, AcceptedIsStored
<1> QED BY <1>1, BackendInvHolds, PTL
=============================================================================
