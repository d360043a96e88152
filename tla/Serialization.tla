----------------------------- MODULE Serialization -----------------------------
(***************************************************************************)
(* `ecsc serialize`: src/src/ecs_contract/serialization.py.                *)
(*                                                                         *)
(* Each invocation runs one deployment command under a lock item in a      *)
(* DynamoDB table: it inserts the item if there is none, reads the live    *)
(* revision, runs the command, waits for the service to be stable and      *)
(* deletes the item if it is still its own.  The item never expires.       *)
(*                                                                         *)
(* Around the code, as it uses them: the table, reached by requests that   *)
(* can be late, lost or answered to nobody, and are retried by the client  *)
(* library; the deployment command, whose process tree outlives a killed   *)
(* runner; the ECS rollout it starts, which may still change the service   *)
(* (a rollback) when the wait for it has failed; and the operator, who     *)
(* follows docs/serialization.md.                                          *)
(***************************************************************************)
EXTENDS Naturals

CONSTANTS Invocations,  \* runs of `ecsc serialize`; each has an owner id of its own
          Revisions,    \* task definition ARNs the service may run
          None,         \* no owner, no plan, nothing read yet
          MaxAttempts   \* how often the client library sends one request

ASSUME ConstantsAssumption ==
  /\ None \notin Invocations
  /\ None \notin Revisions
  /\ MaxAttempts \in Nat \ {0}

VARIABLES
  lock,       \* the owner attribute of the lock item, or None: there is no item
  net,        \* requests on their way to the table
  live,       \* the revision the service runs
  pc,         \* where run_serialized is
  sent,       \* attempts made at each request
  answer,     \* the table's answer to the last attempt
  plan,       \* --expect-task-definition, or None
  seen,       \* what revision() returned, or None
  writers,    \* what an invocation started and can still change the service
  wrote,      \* the command has changed the service
  outcome,    \* how the invocation ends
  recovered   \* the operator has removed this invocation's lock

client == <<pc, sent, answer, outcome>>
service == <<live, writers, wrote>>
vars == <<lock, net, live, pc, sent, answer, plan, seen, writers, wrote, outcome, recovered>>

Locations == {"idle", "planned", "acquire", "read", "execute", "command", "settle",
              "release", "done"}
Outcomes == {"none", "arguments", "busy", "acquire_failed", "target_unknown", "stale",
             "execution_failed", "command_failed", "completion_unknown", "ok",
             "release_failed", "lost", "interrupted"}
Ops == {"put", "delete"}
Request == [op : Ops, owner : Invocations, attempt : 1..MaxAttempts]

Init == /\ lock = None
        /\ net = {}
        /\ live \in Revisions
        /\ pc = [i \in Invocations |-> "idle"]
        /\ sent = [i \in Invocations |-> [op \in Ops |-> 0]]
        /\ answer = [i \in Invocations |-> "none"]
        /\ plan = [i \in Invocations |-> None]
        /\ seen = [i \in Invocations |-> None]
        /\ writers = [i \in Invocations |-> {}]
        /\ wrote = [i \in Invocations |-> FALSE]
        /\ outcome = [i \in Invocations |-> "none"]
        /\ recovered = [i \in Invocations |-> FALSE]

-------------------------------------------------------------------------------
\* Steps of run_serialized

Goto(i, from, to) == pc[i] = from /\ pc' = [pc EXCEPT ![i] = to]

Waited(i) == answer' = [answer EXCEPT ![i] = "none"]

\* run_serialized raises or returns.
End(i, how) == /\ pc' = [pc EXCEPT ![i] = "done"]
               /\ outcome' = [outcome EXCEPT ![i] = how]
               /\ Waited(i)
               /\ UNCHANGED <<lock, net, service, sent, plan, seen, recovered>>

\* mutex.release() is called, and if it succeeds the invocation ends like this.
GiveBack(i, from, how) == /\ Goto(i, from, "release")
                          /\ outcome' = [outcome EXCEPT ![i] = how]
                          /\ UNCHANGED <<lock, net, service, sent, answer, plan, recovered>>

\* A plan is synthesized, and names the revision it was made from.
SavePlan(i) == /\ Goto(i, "idle", "planned")
               /\ plan' = [plan EXCEPT ![i] = live]
               /\ UNCHANGED <<lock, net, service, sent, answer, seen, outcome, recovered>>

Launch(i) == /\ pc[i] \in {"idle", "planned"}
             /\ pc' = [pc EXCEPT ![i] = "acquire"]
             /\ UNCHANGED <<lock, net, service, sent, answer, plan, seen, outcome, recovered>>

\* No command, a malformed expected revision or service ARN: refused before the table is asked.
RefuseArguments(i) == pc[i] \in {"idle", "planned"} /\ End(i, "arguments")

\* Not the code: retries without a bound.
SendUnbounded(i, op) ==
  /\ answer[i] = "none"
  /\ sent' = [sent EXCEPT ![i][op] = @ + 1]
  /\ net' = net \cup {[op |-> op, owner |-> i, attempt |-> sent[i][op] + 1]}
  /\ UNCHANGED <<lock, service, pc, answer, plan, seen, outcome, recovered>>

\* The first attempt at a request, and the client library's retries of it.
Send(i, op) == /\ answer[i] = "none"
               /\ sent[i][op] < MaxAttempts
               /\ sent' = [sent EXCEPT ![i][op] = @ + 1]
               /\ net' = net \cup {[op |-> op, owner |-> i, attempt |-> sent[i][op] + 1]}
               /\ UNCHANGED <<lock, service, pc, answer, plan, seen, outcome, recovered>>

SendPut(i) == pc[i] = "acquire" /\ Send(i, "put")

Acquired(i) == /\ answer[i] = "done"
               /\ Goto(i, "acquire", "read")
               /\ Waited(i)
               /\ UNCHANGED <<lock, net, service, sent, plan, seen, outcome, recovered>>

LockBusy(i) == pc[i] = "acquire" /\ answer[i] = "refused" /\ End(i, "busy")

\* Any other exception: a timeout after the retries, a fault, a refused credential.  What
\* became of the request is unknown.
AcquireFails(i) == /\ pc[i] = "acquire" /\ sent[i]["put"] > 0 /\ answer[i] = "none"
                   /\ End(i, "acquire_failed")

\* Not the code: the expected revision is not compared.
ReadRevisionUncompared(i) ==
  /\ Goto(i, "read", "execute")
  /\ seen' = [seen EXCEPT ![i] = live]
  /\ UNCHANGED <<lock, net, service, sent, answer, plan, outcome, recovered>>

ReadRevision(i) == /\ plan[i] \in {None, live}
                   /\ Goto(i, "read", "execute")
                   /\ seen' = [seen EXCEPT ![i] = live]
                   /\ UNCHANGED <<lock, net, service, sent, answer, plan, outcome, recovered>>

RefuseStale(i) == /\ plan[i] \notin {None, live}
                  /\ seen' = [seen EXCEPT ![i] = live]
                  /\ GiveBack(i, "read", "stale")

\* DescribeServices fails, or does not answer with the one active service of the lock.
TargetUnknown(i) == GiveBack(i, "read", "target_unknown") /\ seen' = seen

Execute(i) == /\ Goto(i, "execute", "command")
              /\ writers' = [writers EXCEPT ![i] = {"command"}]
              /\ UNCHANGED <<lock, net, live, wrote, sent, answer, plan, seen, outcome, recovered>>

\* The executable cannot be started, or running it raises part-way.
ExecutionFails(i) == pc[i] \in {"execute", "command"} /\ End(i, "execution_failed")

\* Not the code: a failed command gives the lock back.
CommandFailsReleasing(i) == GiveBack(i, "command", "command_failed") /\ seen' = seen

CommandFails(i) == pc[i] = "command" /\ End(i, "command_failed")

\* Exit code zero: the command has waited for everything it submitted but the ECS rollout.
CommandSucceeds(i) ==
  /\ Goto(i, "command", "settle")
  /\ writers' = [writers EXCEPT ![i] = @ \ {"command"}]
  /\ UNCHANGED <<lock, net, live, wrote, sent, answer, plan, seen, outcome, recovered>>

\* The services_stable waiter returns once no rollout is in progress.
Settled(i) == writers[i] = {} /\ GiveBack(i, "settle", "ok") /\ seen' = seen

\* Not the code: a failed wait gives the lock back once the rollout has ended.
SettleFailsReleasing(i) ==
  writers[i] = {} /\ GiveBack(i, "settle", "completion_unknown") /\ seen' = seen

\* Not the code: the wait has no limit.
SettleWaitsForever(i) == FALSE /\ UNCHANGED vars

\* The waiter gives up after its polls, or a poll raises.
SettleFails(i) == pc[i] = "settle" /\ End(i, "completion_unknown")

SendDelete(i) == pc[i] = "release" /\ Send(i, "delete")

\* Not the code: an exception of DeleteItem is ignored.
ReleasedRegardless(i) == /\ sent[i]["delete"] > 0
                         /\ Goto(i, "release", "done")
                         /\ Waited(i)
                         /\ UNCHANGED <<lock, net, service, sent, plan, seen, outcome, recovered>>

Released(i) == /\ answer[i] = "done"
               /\ Goto(i, "release", "done")
               /\ Waited(i)
               /\ UNCHANGED <<lock, net, service, sent, plan, seen, outcome, recovered>>

\* Not the code: waits for an answer to DeleteItem without a timeout.
ReleaseFailsIfRefused(i) ==
  pc[i] = "release" /\ answer[i] = "refused" /\ End(i, "release_failed")

\* Any exception of DeleteItem, a failed owner condition included, replaces what run_serialized
\* was going to report.
ReleaseFails(i) == /\ pc[i] = "release" /\ sent[i]["delete"] > 0 /\ answer[i] # "done"
                   /\ End(i, "release_failed")

\* The runner is killed, or KeyboardInterrupt passes the `except Exception` clauses: nothing
\* is released.  "lost" tells an invocation that knew it held the lock.
Interrupted(i) ==
  /\ pc[i] \notin {"idle", "planned", "done"}
  /\ End(i, IF pc[i] \in {"read", "execute", "command", "settle"} THEN "lost" ELSE "interrupted")

-------------------------------------------------------------------------------
\* The lock table

\* The client still waits for the answer to this attempt.
Awaited(r) == /\ pc[r.owner] = IF r.op = "put" THEN "acquire" ELSE "release"
              /\ sent[r.owner][r.op] = r.attempt
              /\ answer[r.owner] = "none"

\* The table answers; the answer to an attempt nobody waits for, or one that is lost, is dropped.
Reply(r, a) == \/ Awaited(r) /\ answer' = [answer EXCEPT ![r.owner] = a]
               \/ answer' = answer

\* Not the code: PutItem without its condition.
ServePutUnconditionally(r) ==
  /\ r.op = "put"
  /\ lock' = r.owner
  /\ Reply(r, "done")
  /\ net' = net \ {r}
  /\ UNCHANGED <<service, pc, sent, plan, seen, outcome, recovered>>

\* PutItem with attribute_not_exists(pk).
ServePut(r) == /\ r.op = "put"
               /\ lock' = IF lock = None THEN r.owner ELSE lock
               /\ Reply(r, IF lock = None THEN "done" ELSE "refused")
               /\ net' = net \ {r}
               /\ UNCHANGED <<service, pc, sent, plan, seen, outcome, recovered>>

\* Not the code: DeleteItem without its condition.
ServeDeleteUnconditionally(r) ==
  /\ r.op = "delete"
  /\ lock' = None
  /\ Reply(r, "done")
  /\ net' = net \ {r}
  /\ UNCHANGED <<service, pc, sent, plan, seen, outcome, recovered>>

\* DeleteItem with owner = :owner.
ServeDelete(r) == /\ r.op = "delete"
                  /\ lock' = IF lock = r.owner THEN None ELSE lock
                  /\ Reply(r, IF lock = r.owner THEN "done" ELSE "refused")
                  /\ net' = net \ {r}
                  /\ UNCHANGED <<service, pc, sent, plan, seen, outcome, recovered>>

\* A request never reaches the table, or is throttled or refused by it.
LoseRequest(r) == /\ net' = net \ {r}
                  /\ UNCHANGED <<lock, service, client, plan, seen, recovered>>

-------------------------------------------------------------------------------
\* What the command started, and the operator

\* UpdateService: the new revision is live at once and its rollout begins.
CommandWrites(i) ==
  /\ "command" \in writers[i]
  /\ live' \in Revisions
  /\ writers' = [writers EXCEPT ![i] = @ \cup {"rollout"}]
  /\ wrote' = [wrote EXCEPT ![i] = TRUE]
  /\ UNCHANGED <<lock, net, client, plan, seen, recovered>>

\* The rollout completes, or is rolled back to an earlier revision.
RolloutEnds(i) ==
  /\ "rollout" \in writers[i]
  /\ live' \in Revisions
  /\ writers' = [writers EXCEPT ![i] = @ \ {"rollout"}]
  /\ UNCHANGED <<lock, net, client, plan, seen, wrote, recovered>>

\* The processes and jobs that a failed or killed command left behind end.
OrphanEnds(i) ==
  /\ pc[i] = "done"
  /\ "command" \in writers[i]
  /\ writers' = [writers EXCEPT ![i] = @ \ {"command"}]
  /\ UNCHANGED <<lock, net, client, plan, seen, live, wrote, recovered>>

\* The operator has verified that the runner and all it started have ended, and deletes the
\* lock if the owner is still that runner.
Recover(i) == /\ pc[i] = "done"
              /\ writers[i] = {}
              /\ lock = i
              /\ lock' = None
              /\ recovered' = [recovered EXCEPT ![i] = TRUE]
              /\ UNCHANGED <<net, service, client, plan, seen>>

-------------------------------------------------------------------------------
\* What run_serialized does by itself once it has been launched
Step(i) == \/ SendPut(i) \/ Acquired(i) \/ LockBusy(i) \/ AcquireFails(i)
           \/ ReadRevision(i) \/ RefuseStale(i) \/ TargetUnknown(i)
           \/ Execute(i) \/ ExecutionFails(i) \/ CommandFails(i) \/ CommandSucceeds(i)
           \/ Settled(i) \/ SettleFails(i)
           \/ SendDelete(i) \/ Released(i) \/ ReleaseFails(i)

Caller(i) == SavePlan(i) \/ Launch(i) \/ RefuseArguments(i) \/ Interrupted(i)

Table(r) == ServePut(r) \/ ServeDelete(r) \/ LoseRequest(r)

Deployment(i) == CommandWrites(i) \/ RolloutEnds(i) \/ OrphanEnds(i)

Next == \/ \E i \in Invocations : Step(i) \/ Caller(i) \/ Deployment(i) \/ Recover(i)
        \/ \E r \in net : Table(r)

Spec == Init /\ [][Next]_vars

\* run_serialized keeps running, and so does the command while it is waited for; nothing is
\* assumed of the network, of rollouts or of the operator.
RunFairness == \A i \in Invocations : WF_vars(Step(i))

\* What recovery needs besides: a request arrives or is lost, what a command started ends, and
\* the operator recovers abandoned locks.
RecoveryFairness ==
  /\ \A r \in Request : WF_vars(r \in net /\ Table(r))
  /\ \A i \in Invocations : WF_vars(RolloutEnds(i)) /\ WF_vars(OrphanEnds(i)) /\ WF_vars(Recover(i))

RunSpec == Spec /\ RunFairness

-------------------------------------------------------------------------------
TypeOK ==
  /\ lock \in Invocations \cup {None}
  /\ net \subseteq Request
  /\ live \in Revisions
  /\ pc \in [Invocations -> Locations]
  /\ sent \in [Invocations -> [Ops -> 0..MaxAttempts]]
  /\ answer \in [Invocations -> {"none", "done", "refused"}]
  /\ plan \in [Invocations -> Revisions \cup {None}]
  /\ seen \in [Invocations -> Revisions \cup {None}]
  /\ writers \in [Invocations -> SUBSET {"command", "rollout"}]
  /\ wrote \in [Invocations -> BOOLEAN]
  /\ outcome \in [Invocations -> Outcomes]
  /\ recovered \in [Invocations -> BOOLEAN]

\* An invocation is at work on the service: it is past the check of the live revision, or
\* something it started can still write.
AtWork(i) == pc[i] \in {"execute", "command", "settle"} \/ writers[i] # {}

\* Whoever is at work on the service owns the lock item, the commands and rollouts a killed
\* or failed runner left behind included (serialization.py:102-117 keeps the lock on every
\* uncertain path); so no two invocations are ever at work at once.
WorkHoldsLock == \A i \in Invocations : AtWork(i) => lock = i

\* Until a command first writes, the live revision is the one run_serialized compared under
\* the lock (lines 94-97), and the one the saved plan was made from: no plan is applied on
\* top of a change it has not seen.
UnwrittenSinceRead(i) == \/ pc[i] = "execute"
                         \/ "command" \in writers[i] /\ ~wrote[i]
AppliedOnItsPlan == \A i \in Invocations :
  UnwrittenSinceRead(i) => live = seen[i] /\ plan[i] \in {None, seen[i]}

\* An invocation that reports success, a stale plan or an unknown target has given the lock
\* back (release, lines 60-71, turns every failure into an error): if it owns the lock again,
\* that is a retried insert of its own that reached the table late.
Reported == {"ok", "stale", "target_unknown"}
ReleaseReportedTruly == \A i \in Invocations :
  pc[i] = "done" /\ outcome[i] \in Reported /\ lock = i => sent[i]["put"] > 1

\* "A nonzero command, uncertain stability result, interruption, lost process [...] keeps the
\* lock" (docs/serialization.md; lines 104-116), until the operator has removed it.
Uncertain == {"execution_failed", "command_failed", "completion_unknown", "lost"}
UncertaintyKeepsLock == \A i \in Invocations :
  outcome[i] \in Uncertain => lock = i \/ recovered[i]

\* "A nonzero command, uncertain stability result, interruption, lost process or ambiguous AWS
\* response keeps the lock" (docs/serialization.md), said of a DeleteItem whose answer is lost.
AmbiguousReleaseKeepsLock == \A i \in Invocations :
  outcome[i] = "release_failed" => lock = i \/ recovered[i]

\* There is no takeover and no expiry: a lock item goes away only when the table serves a
\* delete of its owner, or by the operator, and never straight to another owner (lines 60-68).
OnlyOwnerOrOperatorClears ==
  [][\A i \in Invocations : lock = i /\ lock' # i =>
       /\ lock' = None
       /\ \/ \E r \in net \ net' : r.op = "delete" /\ r.owner = i
          \/ recovered'[i] /\ net' = net]_vars

\* Whatever the network, the rollouts and the table do, a launched invocation ends: no step
\* of run_serialized waits for an answer without a bound.
EveryRunEnds == \A i \in Invocations : pc[i] = "acquire" ~> pc[i] = "done"

\* With an operator who follows the recovery rules, no lock is held for ever: every state that
\* run_serialized can leave behind is one that those rules allow to be cleared.
LocksAreFreed == RecoveryFairness => \A i \in Invocations : lock = i ~> lock # i

-------------------------------------------------------------------------------
\* Why the invariants hold: what run_serialized and the messages of an invocation say about
\* the lock at each place it can be.

\* Once the table has answered that the item is inserted, and until mutex.release() is called,
\* the invocation owns the lock; what it started to write belongs to that span, or to an end
\* of the invocation that keeps the lock.
LockDiscipline == \A i \in Invocations :
  /\ pc[i] = "read" \/ (pc[i] = "acquire" /\ answer[i] = "done") => lock = i
  /\ AtWork(i) => lock = i
  /\ pc[i] \notin {"acquire", "release"} => answer[i] = "none"
  /\ pc[i] \in {"idle", "planned", "acquire", "read", "execute", "release"} => writers[i] = {}
  /\ pc[i] = "settle" => "command" \notin writers[i]
  /\ "rollout" \in writers[i] => wrote[i]
  /\ pc[i] = "idle" => plan[i] = None
  /\ pc[i] \notin {"release", "done"} => outcome[i] = "none"
  /\ pc[i] = "release" => outcome[i] \in Reported

\* A delete on its way is one that mutex.release() sent.
DeletesAreReleases == \A r \in net : r.op = "delete" =>
  /\ pc[r.owner] \in {"release", "done"}
  /\ writers[r.owner] = {}
  /\ outcome[r.owner] \notin Uncertain

\* An insert on its way is not the one whose answer was heard, so only a retried insert is
\* still on its way after the lock has been acquired.
InsertsOnTheirWay == \A r \in net : r.op = "put" =>
  /\ r.attempt <= sent[r.owner]["put"]
  /\ pc[r.owner] = "acquire" /\ answer[r.owner] # "none" => r.attempt < sent[r.owner]["put"]
  /\ \/ pc[r.owner] \in {"read", "execute", "command", "settle", "release"}
     \/ outcome[r.owner] \in Reported
     => sent[r.owner]["put"] > 1

GivenBack == \A i \in Invocations :
  /\ \/ pc[i] = "release" /\ answer[i] = "done"
     \/ pc[i] = "done" /\ outcome[i] \in Reported
  /\ lock = i
  => sent[i]["put"] > 1

Discipline == /\ LockDiscipline
              /\ AppliedOnItsPlan
              /\ DeletesAreReleases
              /\ InsertsOnTheirWay
              /\ GivenBack
              /\ UncertaintyKeepsLock

-------------------------------------------------------------------------------
\* Serialized deployment is deployment in turns
Turn == IF \E i \in Invocations : AtWork(i) THEN CHOOSE i \in Invocations : AtWork(i) ELSE None
Turns == INSTANCE DeploymentTurn WITH Jobs <- Invocations, turn <- Turn, base <- seen

\* Every behaviour of the code is a sequence of turns (see DeploymentTurn).
ImplementsTurns == Turns!Spec
===============================================================================
