------------------------------- MODULE Backend -------------------------------
(***************************************************************************)
(* The transaction of src/src/backend.cpp: it passes the commands of one   *)
(* attempt on to the payload stage, the capture store, the rejected store, *)
(* the active namespace and the evidence store, hands each result to the   *)
(* engine, and a restarted process rebuilds its authority from the results *)
(* the engine kept and from what the stores still hold (load_restart).     *)
(*                                                                         *)
(* The active namespace is ActiveAttempt. A store is what it promises the  *)
(* backend: an object is absent, visible or, once the store is             *)
(* synchronized, durable, and a repeated command finds the one that is     *)
(* there; PayloadStage, CaptureStore and EvidenceStore are the stores.     *)
(* The results the engine keeps are in its journal and survive.            *)
(***************************************************************************)
EXTENDS ActiveAttempt

CONSTANT Rejects  \* which side of each path a plan keeps as a rejected object

ASSUME BackendAssumption ==
  /\ Rejects \in [Plans -> [Path -> {"none", "incoming", "old"}]]
  /\ \A p \in Path, plan_ \in Plans :
       Rejects[plan_][p] = "old" => p \in plan_.captured

Domain == {"incoming_staging", "recovery_staging", "rejected_object_store",
           "completed_evidence"}

\* What a domain keeps: an object for a path, or one for the whole attempt,
\* which is under Root.
Key == Path \cup {Root}

VARIABLES
  result,  \* durable: the recorded result of each command of a domain
  stored,  \* the objects in the stores
  facts,   \* durable: durability_ of the domains
  reply,   \* a result the engine has not recorded yet
  sealed,  \* sealed_payloads_
  held,    \* captured_objects_: captures not yet given to the active namespace
  active,  \* active_namespace_ is bound
  bound    \* the captures it was bound to

authority == <<sealed, held, active, bound>>
backend   == <<result, stored, facts, reply, authority>>

NoReply == [domain |-> "none", path |-> Root, outcome |-> "none"]

BackendInit ==
  /\ Init
  /\ result = [d \in Domain |-> [k \in Key |-> "none"]]
  /\ stored = [d \in Domain |-> [k \in Key |-> "absent"]]
  /\ facts = [d \in Domain |-> "none"]
  /\ reply = NoReply
  /\ sealed = FALSE
  /\ held = {}
  /\ active = FALSE
  /\ bound = {}

-----------------------------------------------------------------------------
(* The engine's order: payloads, captures, rejected objects, the target,   *)
(* evidence, and each domain is synchronized before the next one begins.   *)

HasImage ==
  \E p \in Path : plan.effect[p] = "incoming" \/ Rejects[plan][p] = "incoming"

Keys(domain) ==
  CASE domain = "incoming_staging"      -> IF HasImage THEN {Root} ELSE {}
    [] domain = "recovery_staging"      -> plan.captured
    [] domain = "rejected_object_store" -> {p \in Path : Rejects[plan][p] # "none"}
    [] domain = "completed_evidence"    -> {Root}

Before(domain) ==
  CASE domain = "incoming_staging"      -> {}
    [] domain = "recovery_staging"      -> {"incoming_staging"}
    [] domain = "rejected_object_store" -> {"incoming_staging", "recovery_staging"}
    [] domain = "completed_evidence"    -> Domain \ {domain}

Completes(domain) == \A k \in Keys(domain) : result[domain][k] = "completed"
Done(domain)      == Completes(domain) /\ facts[domain] # "none"

Ready(domain) ==
  /\ up = "up"
  /\ reply = NoReply
  /\ call = NoCall
  /\ IF domain = "completed_evidence" THEN phase = "applied" /\ fact # "none"
                                      ELSE phase = "forward" /\ Intended = {}
  /\ \A earlier \in Before(domain) : Done(earlier)

Lacking(domain, k) == k \in Keys(domain) /\ result[domain][k] = "none"

-----------------------------------------------------------------------------
(* Commands on the stores. *)

Reply(domain, k, outcome) ==
  reply' = [domain |-> domain, path |-> k, outcome |-> outcome]

\* The store ends with the object, its own or that of an earlier call.
Keep(domain, k) ==
  /\ stored' = [stored EXCEPT ![domain][k] = IF @ = "absent" THEN "visible" ELSE @]
  /\ Reply(domain, k, "completed")
  /\ UNCHANGED <<vars, result, facts>>

StoreFails(domain, k) ==
  /\ "store" \in faults
  /\ Reply(domain, k, "failed")
  /\ UNCHANGED <<vars, result, stored, facts, authority>>

\* tracked_payload_stage::seal and retain_sealed_payloads.
StagePayloads ==
  /\ Ready("incoming_staging")
  /\ Lacking("incoming_staging", Root)
  /\ \/ /\ Keep("incoming_staging", Root)
        /\ sealed' = TRUE
        /\ UNCHANGED <<held, active, bound>>
     \/ StoreFails("incoming_staging", Root)

CaptureOld(p) ==
  /\ Ready("recovery_staging")
  /\ Lacking("recovery_staging", p)
  /\ \/ /\ Keep("recovery_staging", p)
        /\ held' = held \cup {p}
        /\ UNCHANGED <<sealed, active, bound>>
     \/ StoreFails("recovery_staging", p)

\* The old side is copied out of its capture, the incoming side out of the
\* sealed payloads; without them the call throws.
HasAuthority(p) == IF Rejects[plan][p] = "old" THEN p \in held ELSE sealed

ExecuteRejected(p) ==
  /\ Ready("rejected_object_store")
  /\ Lacking("rejected_object_store", p)
  /\ HasAuthority(p)
  /\ \/ Keep("rejected_object_store", p) /\ UNCHANGED authority
     \/ StoreFails("rejected_object_store", p)

\* A failure to publish evidence throws.
PublishCompletedEvidence ==
  /\ Ready("completed_evidence")
  /\ Lacking("completed_evidence", Root)
  /\ Keep("completed_evidence", Root)
  /\ UNCHANGED authority

RecordResult ==
  /\ up = "up"
  /\ reply # NoReply
  /\ result' = [result EXCEPT ![reply.domain][reply.path] = reply.outcome]
  /\ phase' = IF reply.outcome = "failed" THEN "recover" ELSE phase
  /\ reply' = NoReply
  /\ UNCHANGED <<namespace, turn, terminal, undone, fact, up, stored, facts, authority>>

\* incoming_payload_result_, captures_, rejected_effects_, completed_evidence_.
Retained(domain) == {k \in Key : result[domain][k] # "none"}

SynchronizeStore(domain) ==
  /\ Ready(domain)
  /\ Completes(domain)
  /\ facts[domain] = "none"
  /\ \/ /\ Retained(domain) = {}
        /\ facts' = [facts EXCEPT ![domain] = "not_attempted"]
        /\ UNCHANGED stored
     \/ /\ Retained(domain) # {}
        /\ facts' = [facts EXCEPT ![domain] = "confirmed"]
        /\ stored' = [stored EXCEPT ![domain] =
                        [k \in Key |-> IF @[k] = "visible" THEN "durable" ELSE @[k]]]
     \/ /\ Retained(domain) # {}
        /\ "store" \in faults
        /\ facts' = [facts EXCEPT ![domain] = "unconfirmed"]
        /\ UNCHANGED stored
  /\ UNCHANGED <<vars, result, reply, authority>>

-----------------------------------------------------------------------------
(* Commands on the target. *)

\* Mutant: every command binds the namespace to the captures at hand.
BindEachTime ==
  /\ active' = TRUE
  /\ bound' = held
  /\ held' = {}

\* ensure_active_namespace: the captures move into the namespace.
EnsureActiveNamespace ==
  /\ active' = TRUE
  /\ bound' = IF active THEN bound ELSE held
  /\ held' = IF active THEN held ELSE {}

BackendExecuteActive(p) ==
  /\ reply = NoReply
  /\ \A domain \in Domain \ {"completed_evidence"} : Done(domain)
  /\ ExecuteActive(p)
  /\ EnsureActiveNamespace
  /\ UNCHANGED <<result, stored, facts, reply, sealed>>

BackendRecover(p) ==
  /\ reply = NoReply
  /\ RecoverPath(p)
  /\ EnsureActiveNamespace
  /\ UNCHANGED <<result, stored, facts, reply, sealed>>

BackendConclude ==
  /\ phase = "forward" => \A domain \in Domain \ {"completed_evidence"} : Done(domain)
  /\ Conclude
  /\ UNCHANGED backend

SynchronizeActive ==
  /\ \/ active /\ Synchronize
     \/ /\ ~active
        /\ up = "up"
        /\ phase \in {"applied", "restored"}
        /\ call = NoCall
        /\ fact = "none"
        /\ fact' = "not_attempted"
        /\ UNCHANGED <<namespace, phase, turn, terminal, undone, up>>
  /\ UNCHANGED backend

-----------------------------------------------------------------------------
(* Crash, power loss and restart. *)

ForgetAuthority ==
  /\ reply' = NoReply
  /\ sealed' = FALSE
  /\ held' = {}
  /\ active' = FALSE
  /\ bound' = {}
  /\ UNCHANGED <<result, stored, facts>>

\* The stores lose any part of what was not synchronized.
LosePower ==
  /\ "power" \in faults
  /\ up = "down"
  /\ LET loose == {at \in Domain \X Key : stored[at[1]][at[2]] = "visible"}
     IN  /\ loose # {}
         /\ \E lost \in SUBSET loose :
              stored' = [domain \in Domain |-> [k \in Key |->
                CASE <<domain, k>> \in lost         -> "absent"
                  [] <<domain, k>> \in loose \ lost -> "durable"
                  [] OTHER                          -> stored[domain][k]]]
  /\ UNCHANGED <<vars, result, facts, reply, authority>>

\* Mutant: rejected objects are taken as they were recorded.
RevalidatedUnrejected ==
  \A domain \in Domain \ {"rejected_object_store"}, k \in Key :
    result[domain][k] = "completed" => stored[domain][k] # "absent"

\* Mutant: an object is looked for that a failed command never made.
RevalidatedFailures ==
  \A domain \in Domain, k \in Key :
    result[domain][k] # "none" => stored[domain][k] # "absent"

\* Every completed result is found again in its store.
Revalidated ==
  \A domain \in Domain, k \in Key :
    result[domain][k] = "completed" => stored[domain][k] # "absent"

Captured == {k \in Key : result["recovery_staging"][k] = "completed"}

LoadRestart ==
  \/ /\ up = "down"
     /\ ~Revalidated
     /\ up' = "refused"
     /\ UNCHANGED <<namespace, phase, turn, terminal, undone, fact, backend>>
  \/ /\ Revalidated
     /\ Restart
     /\ IF up' = "refused" THEN UNCHANGED authority
        ELSE /\ sealed' = (result["incoming_staging"][Root] = "completed")
             /\ active' = \E p \in Path : terminal[p] # "none" \/ undone[p] # "none"
             /\ bound' = IF active' THEN Captured ELSE {}
             /\ held' = Captured \ bound'
     /\ UNCHANGED <<result, stored, facts, reply>>

BackendNext ==
  \/ StagePayloads
  \/ \E p \in Path : CaptureOld(p) \/ ExecuteRejected(p)
  \/ PublishCompletedEvidence
  \/ RecordResult
  \/ \E domain \in Domain : SynchronizeStore(domain)
  \/ \E p \in Path : BackendExecuteActive(p) \/ BackendRecover(p)
  \/ SynchronizeActive
  \/ BackendConclude
  \/ reply = NoReply /\ ActiveStep /\ UNCHANGED backend
  \/ (Crash \/ Throw) /\ ForgetAuthority
  \/ LosePower
  \/ LoadRestart

Spec == BackendInit /\ [][BackendNext]_<<vars, backend>>
-----------------------------------------------------------------------------
(* Properties. *)

Outcomes == {"none", "completed", "failed"}

\* The transaction keeps to its types, and so does the attempt under it.
BackendTypeOK ==
  /\ TypeOK
  /\ result \in [Domain -> [Key -> Outcomes]]
  /\ stored \in [Domain -> [Key -> {"absent", "visible", "durable"}]]
  /\ facts \in [Domain -> {"none", "not_attempted", "confirmed", "unconfirmed"}]
  /\ reply \in [domain : Domain \cup {"none"}, path : Key, outcome : Outcomes]
  /\ sealed \in BOOLEAN
  /\ held \subseteq Path
  /\ active \in BOOLEAN
  /\ bound \subseteq Path

\* No stage runs on authority it lacks, however often the process died before:
\* the active namespace is bound to every capture of the plan and to the sealed
\* payloads of an image, and a rejected object that is to be published has its
\* source (capture_old, execute_rejected, ensure_active_namespace, load_restart).
WorkHasAuthority ==
  /\ active => bound = plan.captured /\ (HasImage => sealed)
  /\ \A p \in Path :
       Ready("rejected_object_store") /\ Lacking("rejected_object_store", p)
         => HasAuthority(p)

\* While a process runs the attempt, every object that a completed result stands
\* for is in its store: a restart after power was lost does not go on without one
\* (load_restart: "cannot be revalidated").
AcceptedIsStored ==
  up = "up" =>
    \A domain \in Domain, k \in Key :
      result[domain][k] = "completed" => stored[domain][k] # "absent"

\* A restart is refused for one of two reasons only: the results of a domain that
\* was not confirmed may be gone, or recovery had begun to undo completed effects
\* (synchronize, load_restart).
ConfirmedRestarts ==
  up = "refused" =>
    \/ phase \in {"recover", "restored"} /\ Completed # {}
    \/ \E domain \in Domain :
         /\ facts[domain] \in {"none", "unconfirmed"}
         /\ \E k \in Key : result[domain][k] = "completed"

Verdict ==
  CASE phase \in {"forward", "recover"} -> "open"
    [] phase = "applied" ->
         IF \A p \in Intended : terminal[p] = "completed" THEN "applied" ELSE "partly"
    [] phase = "restored" ->
         IF \A p \in Intended : undone[p] = "completed" THEN "restored" ELSE "uncertain"

\* The results of an attempt are true of the whole tree when it ends, and nothing
\* that happens afterwards, a restart included, makes them untrue.
Promise == INSTANCE AttemptSpec
             WITH before  <- plan.before,
                  planned <- [p \in Path |-> Final(p)],
                  scope   <- Planned,
                  tree    <- [p \in Path |-> fs[p].leaf],
                  extra   <- {p \in Path : ~Clear(p)},
                  verdict <- Verdict
KeepsPromise == Promise!Spec
=============================================================================
