-------------------------------- MODULE Deploy --------------------------------
(***************************************************************************)
(* Two writers of one service: the application's deploy jobs               *)
(* (src/.github/workflows/deploy.yml, calling ecsc check, render, guard    *)
(* and sync) and infrastructure deploys whose template pins the revision   *)
(* that was live when it was synthesized (ServiceFromLiveRevision of       *)
(* src/src/ecs_contract/cdk.py).  Beside them anyone can change the        *)
(* service by hand.                                                        *)
(*                                                                         *)
(* The deploy jobs of one repository share a concurrency group and none of *)
(* the writers takes the lock of Serialization.  The sync step of a job is *)
(* ConfigSync.                                                             *)
(***************************************************************************)
EXTENDS Naturals, Sequences, FiniteSets

CONSTANTS Jobs,         \* runs of deploy.yml for the service
          Infra,        \* infrastructure deploys
          Versions,     \* contract and image of the application at some commit
          FirstVersion, \* what the service runs to begin with
          VaultKeys,    \* the vault-sourced keys of each version's contract
          Rest,         \* the task definition around the container's three fields
          VaultBackend, \* the vault-backend input is not empty
          MaxByHand,    \* bound on the changes made by hand
          Keys, Values, Absent, Unusable  \* of ConfigSync

ASSUME DeployAssumption == /\ FirstVersion \in Versions
                           /\ VaultKeys \in [Versions -> SUBSET Keys]
                           /\ VaultBackend \in BOOLEAN
                           /\ MaxByHand \in Nat
                           /\ IsFiniteSet(Jobs)

VARIABLES defs,     \* registered task definitions; the index is the revision number
          live,     \* the revision the service names
          stable,   \* the last revision whose rollout was completed
          rollout,  \* a rollout is in progress
          stage,    \* where each deploy job is
          version,  \* what each job's checkout holds
          base,     \* the revision each job rendered from: the live-task-definition output
          new,      \* the revision each job registered, or 0
          moved,    \* another writer moved the service after the job's guard had passed
          template, \* where each infrastructure deploy is: "none", "synthesized", "applied"
          pinned,   \* the revision in each infrastructure template, or 0
          vault, document, args, at, tried, read, existing  \* of ConfigSync

Sync == INSTANCE ConfigSync WITH Syncs <- Jobs, Exclusive <- FALSE

ecs == <<defs, live, stable, rollout>>
job == <<stage, version, base, new, moved>>
infra == <<template, pinned>>
secret == <<vault, document, args, at, tried, read, existing>>
vars == <<ecs, job, infra, secret>>

Revisions == 1..Len(defs)
TaskDefinitions == [content : Versions, rest : Rest]

\* task-definition.json: the container's fields from the contract, the rest from the revision
\* the job rendered from.
Rendered(j) == [content |-> version[j], rest |-> defs[base[j]].rest]

Init == /\ \E r \in Rest : defs = <<[content |-> FirstVersion, rest |-> r]>>
        /\ live = 1 /\ stable = 1 /\ rollout = FALSE
        /\ stage = [j \in Jobs |-> "new"]
        /\ version \in [Jobs -> Versions]
        /\ base = [j \in Jobs |-> 0]
        /\ new = [j \in Jobs |-> 0]
        /\ moved = [j \in Jobs |-> FALSE]
        /\ template = [i \in Infra |-> "none"]
        /\ pinned = [i \in Infra |-> 0]
        /\ Sync!Init
        /\ vault \in [Keys -> Values]
        /\ document \in Sync!Documents
        /\ \A k \in Keys : document[k] # Absent <=> k \in VaultKeys[FirstVersion]
        /\ args = [j \in Jobs |->
                     [names |-> VaultKeys[version[j]], prune |-> FALSE, dryRun |-> FALSE]]

-------------------------------------------------------------------------------
\* The service.  What moves it under a job that has passed its guard is remembered.

PastGuard(j) == stage[j] \in {"sync", "register", "update"}
MovedUnder == moved' = [j \in Jobs |-> moved[j] \/ PastGuard(j)]

RolloutCompletes == /\ rollout
                    /\ rollout' = FALSE
                    /\ stable' = live
                    /\ UNCHANGED <<defs, live, job, infra, secret>>

\* The deployment circuit breaker restores the last revision that was stable.
RolloutFails == /\ rollout
                /\ rollout' = FALSE
                /\ live' = stable
                /\ MovedUnder
                /\ UNCHANGED <<defs, stable, stage, version, base, new, infra, secret>>

\* Someone else registers a revision, from the live one, that differs around the container.
ByHand == /\ Len(defs) < 1 + MaxByHand + Cardinality({j \in Jobs : new[j] # 0})
          /\ \E r \in Rest \ {defs[live].rest} : defs' = Append(defs, [defs[live] EXCEPT !.rest = r])
          /\ live' = Len(defs) + 1
          /\ rollout' = TRUE
          /\ MovedUnder
          /\ UNCHANGED <<stable, stage, version, base, new, infra, secret>>

-------------------------------------------------------------------------------
\* A deploy job

Goto(j, from, to) == stage[j] = from /\ stage' = [stage EXCEPT ![j] = to]

Ended == {"deployed", "unstable", "failed", "cancelled"}

\* At most one job of the group waits: a newer one cancels it.
Queue(j) == /\ stage[j] = "new"
            /\ stage' = [k \in Jobs |-> IF k = j THEN "queued"
                                        ELSE IF stage[k] = "queued" THEN "cancelled" ELSE stage[k]]
            /\ UNCHANGED <<ecs, version, base, new, moved, infra, secret>>

\* The job gets the group's place, and checks its contract.
Start(j) == /\ \A k \in Jobs : stage[k] \in {"new", "queued"} \cup Ended
            /\ Goto(j, "queued", "render")
            /\ UNCHANGED <<ecs, version, base, new, moved, infra, secret>>

\* ecsc render reads the live revision.
Render(j) == /\ Goto(j, "render", "guard")
             /\ base' = [base EXCEPT ![j] = live]
             /\ UNCHANGED <<ecs, version, new, moved, infra, secret>>

\* Not the code: the guard does not look at the service again.
GuardUnread(j) == /\ Goto(j, "guard", IF VaultBackend THEN "sync" ELSE "register")
                  /\ UNCHANGED <<ecs, version, base, new, moved, infra, secret>>

\* ecsc guard --expect-task-definition: the service still names the revision rendered from.
\* Without a vault backend the next step, sync, is skipped.
Guard(j) == /\ live = base[j]
            /\ Goto(j, "guard", IF VaultBackend THEN "sync" ELSE "register")
            /\ UNCHANGED <<ecs, version, base, new, moved, infra, secret>>

\* ecsc sync, a step at a time; it ends the job unless it has nothing to write or has written.
SyncStep(j) == /\ stage[j] = "sync"
               /\ Sync!Start(j) \/ Sync!Step(j)
               /\ stage' = [stage EXCEPT ![j] =
                              IF at'[j] \in {"nothing", "current", "written"} THEN "register"
                              ELSE IF at'[j] \in Sync!Ends THEN "failed" ELSE @]
               /\ UNCHANGED <<ecs, version, base, new, moved, infra>>

\* Not the code: a registration is repeated.
RegisterAgain(j) == /\ stage[j] = "register"
                    /\ \E next \in {"register", "update"} : Goto(j, "register", next)
                    /\ defs' = Append(defs, Rendered(j))
                    /\ new' = [new EXCEPT ![j] = Len(defs) + 1]
                    /\ UNCHANGED <<live, stable, rollout, version, base, moved, infra, secret>>

\* amazon-ecs-deploy-task-definition: RegisterTaskDefinition, UpdateService, wait.
Register(j) == /\ Goto(j, "register", "update")
               /\ defs' = Append(defs, Rendered(j))
               /\ new' = [new EXCEPT ![j] = Len(defs) + 1]
               /\ UNCHANGED <<live, stable, rollout, version, base, moved, infra,
                              secret>>

Update(j) == /\ Goto(j, "update", "wait")
             /\ live' = new[j]
             /\ rollout' = TRUE
             /\ UNCHANGED <<defs, stable, version, base, new, moved, infra, secret>>

Waited(j) == /\ ~rollout
             /\ Goto(j, "wait", "deployed")
             /\ UNCHANGED <<ecs, version, base, new, moved, infra, secret>>

\* Not the code: a job that waits for the service has no limit.
FailsBeforeWait(j) == /\ stage[j] \in {"render", "guard", "register", "update"}
                      /\ stage' = [stage EXCEPT ![j] = "failed"]
                      /\ UNCHANGED <<ecs, version, base, new, moved, infra, secret>>

\* A step refuses, an AWS call fails, wait-minutes or timeout-minutes pass, or somebody cancels
\* the job; what it has done stays done.
Fails(j) == /\ stage[j] \in {"render", "guard", "register", "update", "wait"}
            /\ stage' = [stage EXCEPT ![j] = IF @ = "wait" THEN "unstable" ELSE "failed"]
            /\ UNCHANGED <<ecs, version, base, new, moved, infra, secret>>

JobStep(j) == \/ Start(j) \/ Render(j) \/ Guard(j) \/ SyncStep(j) \/ Register(j) \/ Update(j)
              \/ Waited(j) \/ Fails(j)

-------------------------------------------------------------------------------
\* An infrastructure deploy

\* ServiceFromLiveRevision puts the live revision into the template, as a literal.
Synthesize(i) == /\ template[i] = "none"
                 /\ template' = [template EXCEPT ![i] = "synthesized"]
                 /\ pinned' = [pinned EXCEPT ![i] = live]
                 /\ UNCHANGED <<ecs, job, secret>>

\* CloudFormation updates the service with the template's revision.
Apply(i) == /\ template[i] = "synthesized"
            /\ template' = [template EXCEPT ![i] = "applied"]
            /\ live' = pinned[i]
            /\ rollout' = (rollout \/ live # pinned[i])
            /\ IF live = pinned[i] THEN moved' = moved ELSE MovedUnder
            /\ UNCHANGED <<defs, stable, stage, version, base, new, pinned, secret>>

-------------------------------------------------------------------------------
Next == \/ RolloutCompletes \/ RolloutFails \/ ByHand
        \/ \E j \in Jobs : Queue(j) \/ JobStep(j)
        \/ \E i \in Infra : Synthesize(i) \/ Apply(i)

\* The runner goes on with a job's steps, and ends the job when its time is up; nothing is
\* assumed of rollouts or of the other writers.
Spec == Init /\ [][Next]_vars /\ \A j \in Jobs : WF_vars(JobStep(j))

TypeOK == /\ defs \in Seq(TaskDefinitions) /\ Len(defs) <= 1 + MaxByHand + Cardinality(Jobs)
          /\ {live, stable} \subseteq Revisions
          /\ rollout \in BOOLEAN
          /\ stage \in [Jobs -> {"new", "queued", "render", "guard", "sync", "register", "update",
                                 "wait"} \cup Ended]
          /\ base \in [Jobs -> Revisions \cup {0}]
          /\ new \in [Jobs -> Revisions \cup {0}]
          /\ moved \in [Jobs -> BOOLEAN]
          /\ template \in [Infra -> {"none", "synthesized", "applied"}]
          /\ pinned \in [Infra -> Revisions \cup {0}]

\* "What lets fields the contract does not mention, added by someone else for a good reason,
\* survive a deploy" (SPEC.md 5): a deploy job never undoes what another writer did around the
\* container, whoever interleaves with it and wherever, unless that was done in the window
\* that the guard leaves open between its own look and UpdateService (deploy.yml:153-185).
FieldsSurviveDeploy ==
  [][\A j \in Jobs : stage[j] = "update" /\ stage'[j] = "wait" =>
       defs[live'].rest = defs[live].rest \/ moved[j]]_vars

\* Every revision the service ever named finds the vault keys that it binds in the config
\* secret, so the live one can start tasks and a rollback to any earlier one still binds
\* (SPEC.md 4.2): sync comes before UpdateService and keeps the keys of other versions, and
\* jobs that fail part-way, are cancelled or cancel each other do not lose any.
EveryRevisionBinds ==
  \A r \in Revisions \ {new[j] : j \in {k \in Jobs : stage[k] \in {"update", "failed"}}} :
     \A k \in VaultKeys[defs[r].content] : document[k] # Absent

\* Every job that has been queued ends, and with it the group's place is free again, whatever
\* becomes of the rollouts and the other writers.
QueuedJobsEnd == \A j \in Jobs : stage[j] = "queued" ~> stage[j] \in Ended

\* "The synthesized template contains no task definition, so an infrastructure deploy cannot
\* change application content" (SPEC.md 2.1).
InfraKeepsContent ==
  [][\A i \in Infra : template[i] = "synthesized" /\ template'[i] = "applied" =>
       defs[live'].content = defs[live].content]_vars
===============================================================================
