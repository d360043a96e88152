----------------------------- MODULE DeployProofs -----------------------------
(***************************************************************************)
(* Theorems about Deploy, for any jobs, infrastructure deploys, versions   *)
(* and keys.                                                               *)
(***************************************************************************)
EXTENDS Deploy, FiniteSetTheorems, TLAPS

\* The group's place is one job's.
Active(j) == stage[j] \in {"render", "guard", "sync", "register", "update", "wait"}
OneAtATime == \A j, k \in Jobs : Active(j) /\ Active(k) => j = k

\* A job registers once, so that there are no more revisions than registrations.
Registered == {j \in Jobs : new[j] # 0}
RegistersOnce == /\ \A j \in Jobs : new[j] # 0 => stage[j] \in {"update", "wait"} \cup Ended
                 /\ Len(defs) <= 1 + MaxByHand + Cardinality(Registered)

\* What the jobs and the templates refer to is registered.
RefersToRevisions ==
  /\ \A j \in Jobs : stage[j] \in {"guard", "sync", "register", "update"} => base[j] \in Revisions
  /\ \A j \in Jobs : stage[j] = "update" =>
       new[j] \in Revisions /\ defs[new[j]].rest = defs[base[j]].rest
  /\ \A i \in Infra : template[i] = "synthesized" => pinned[i] \in Revisions

\* Past the guard the service is where the job rendered from, or another writer has moved it.
GuardStands == \A j \in Jobs : PastGuard(j) => moved[j] \/ live = base[j]

Deploying == /\ TypeOK /\ version \in [Jobs -> Versions]
             /\ OneAtATime /\ RegistersOnce /\ RefersToRevisions /\ GuardStands

\* The secret, when the jobs have a vault backend: the sync of a job runs in its sync step, on
\* the arguments of its checkout.
Bound(v) == \A k \in VaultKeys[v] : document[k] # Absent
SyncTypes == /\ vault \in Sync!Documents /\ document \in Sync!Documents
             /\ args = [j \in Jobs |->
                          [names |-> VaultKeys[version[j]], prune |-> FALSE, dryRun |-> FALSE]]
             /\ at \in [Jobs -> {"idle", "vault", "document", "put"} \cup Sync!Ends]
             /\ tried \in [Jobs -> SUBSET Keys]
             /\ read \in [Jobs -> Sync!Documents]
             /\ existing \in [Jobs -> Sync!Documents]
SyncsInItsStep == \A j \in Jobs : Sync!Running(j) => stage[j] = "sync"

\* The values that a sync goes on with are all there, and nobody writes the document between its
\* read and its write.
ValuesAreThere ==
  \A j \in Jobs : at[j] \in {"document", "put"} => \A k \in args[j].names : read[j][k] # Absent
FoundIsCurrent == \A j \in Jobs : at[j] = "put" => existing[j] = document

\* A job has synced before it registers, and then its keys stay.
SyncedFirst == \A j \in Jobs : stage[j] = "register" => Bound(version[j])
AllRevisionsBind == \A r \in Revisions : Bound(defs[r].content)

Synced == SyncTypes /\ SyncsInItsStep /\ ValuesAreThere /\ FoundIsCurrent
            /\ SyncedFirst /\ AllRevisionsBind

-------------------------------------------------------------------------------
\* Sets of jobs are finite, and count no more than all of them.
LEMMA JobsCount ==
  ASSUME NEW S \in SUBSET Jobs
  PROVE  /\ IsFiniteSet(S) /\ Cardinality(S) \in Nat /\ Cardinality(Jobs) \in Nat
         /\ Cardinality(S) <= Cardinality(Jobs)
BY DeployAssumption, FS_Subset, FS_CardinalityType

\* What a registration adds.
LEMMA RegisteredRevision ==
  ASSUME defs \in Seq(TaskDefinitions), NEW d \in TaskDefinitions, defs' = Append(defs, d)
  PROVE  /\ defs' \in Seq(TaskDefinitions) /\ Len(defs) \in Nat /\ Len(defs') = Len(defs) + 1
         /\ Revisions \subseteq Revisions' /\ Len(defs) + 1 \in Revisions'
         /\ \A r \in Revisions : defs'[r] = defs[r]
         /\ defs'[Len(defs) + 1] = d
         /\ \A r \in Revisions' : r \in Revisions \/ r = Len(defs) + 1
BY DEF Revisions

\* A step that registers nothing: it is enough to look at what it changes.
LEMMA NothingRegistered ==
  ASSUME Deploying, UNCHANGED <<defs, new, version>>, live' \in Revisions, stable' \in Revisions,
         rollout' \in BOOLEAN,
         stage' \in [Jobs -> {"new", "queued", "render", "guard", "sync", "register", "update",
                             "wait"} \cup Ended],
         base' \in [Jobs -> Revisions \cup {0}], moved' \in [Jobs -> BOOLEAN],
         template' \in [Infra -> {"none", "synthesized", "applied"}],
         pinned' \in [Infra -> Revisions \cup {0}]
  PROVE  TypeOK' /\ version' \in [Jobs -> Versions] /\ Revisions' = Revisions
<1>1. TypeOK /\ version \in [Jobs -> Versions]
  BY DEF Deploying
<1>2. Revisions' = Revisions
  BY DEF Revisions
<1> QED
  BY <1>1, <1>2 DEF TypeOK

\* What other writers do to the service does not go unnoticed.
LEMMA OthersAreNoticed ==
  ASSUME Deploying, UNCHANGED <<stage, base>>, MovedUnder
  PROVE  GuardStands' /\ moved' \in [Jobs -> BOOLEAN]
<1>1. ASSUME NEW j \in Jobs, PastGuard(j)' PROVE moved'[j]
  BY <1>1 DEF MovedUnder, PastGuard
<1>2. moved' \in [Jobs -> BOOLEAN]
  <2>1. ASSUME NEW j \in Jobs PROVE (moved[j] \/ PastGuard(j)) \in BOOLEAN
    OBVIOUS
  <2> QED
    BY <2>1, Zenon DEF MovedUnder
<1> QED
  BY <1>1, <1>2 DEF GuardStands

\* A job that has the group's place goes on to its next step, or ends.
LEMMA ActiveMoves ==
  ASSUME Deploying, NEW j \in Jobs, Active(j),
         NEW to \in {"render", "guard", "sync", "register", "update", "wait"} \cup Ended,
         stage' = [stage EXCEPT ![j] = to]
  PROVE  /\ OneAtATime'
         /\ stage' \in [Jobs -> {"new", "queued", "render", "guard", "sync", "register", "update",
                                "wait"} \cup Ended]
         /\ stage'[j] = to /\ \A k \in Jobs \ {j} : stage'[k] = stage[k] /\ ~Active(k)
<1>1. stage \in [Jobs -> {"new", "queued", "render", "guard", "sync", "register", "update",
                         "wait"} \cup Ended]
  BY DEF Deploying, TypeOK
<1>2. \A k \in Jobs \ {j} : ~Active(k)
  BY DEF Deploying, OneAtATime
<1> QED
  BY <1>1, <1>2 DEF OneAtATime, Active

\* A step of the job with the group's place that changes nothing but where the job is.
LEMMA StageMoves ==
  ASSUME Deploying, NEW j \in Jobs, Active(j),
         NEW to \in {"sync", "register", "wait"} \cup Ended,
         stage' = [stage EXCEPT ![j] = to],
         UNCHANGED <<defs, live, stable, rollout, version, base, new, moved, template, pinned>>,
         new[j] # 0 => to \in {"wait"} \cup Ended,
         to \in {"sync", "register"} => base[j] \in Revisions /\ (moved[j] \/ live = base[j])
  PROVE  Deploying'
<1>1. /\ live \in Revisions /\ stable \in Revisions /\ rollout \in BOOLEAN
      /\ base \in [Jobs -> Revisions \cup {0}] /\ moved \in [Jobs -> BOOLEAN]
      /\ template \in [Infra -> {"none", "synthesized", "applied"}]
      /\ pinned \in [Infra -> Revisions \cup {0}]
      /\ RegistersOnce /\ RefersToRevisions /\ GuardStands
  BY DEF Deploying, TypeOK
<1>2. /\ OneAtATime' /\ stage'[j] = to
      /\ stage' \in [Jobs -> {"new", "queued", "render", "guard", "sync", "register", "update",
                             "wait"} \cup Ended]
      /\ \A k \in Jobs \ {j} : stage'[k] = stage[k]
  BY ActiveMoves
<1>3. TypeOK' /\ version' \in [Jobs -> Versions] /\ Revisions' = Revisions
  BY <1>1, <1>2, NothingRegistered
<1>4. to \notin {"guard", "update"}
  BY DEF Ended
<1>5. GuardStands' /\ RefersToRevisions'
  BY <1>1, <1>2, <1>3, <1>4 DEF GuardStands, PastGuard, RefersToRevisions
<1>6. RegistersOnce'
  BY <1>1, <1>2 DEF RegistersOnce, Registered
<1> QED
  BY <1>2, <1>3, <1>5, <1>6 DEF Deploying

\* Every step of the jobs, of the service and of the other writers keeps Deploying.
LEMMA DeployingSteps == Deploying /\ [Next]_vars => Deploying'
<1> SUFFICES ASSUME Deploying, [Next]_vars PROVE Deploying'
  OBVIOUS
<1> USE DEF ecs, job, infra, secret
<1>1. /\ defs \in Seq(TaskDefinitions) /\ live \in Revisions /\ stable \in Revisions
      /\ rollout \in BOOLEAN
      /\ stage \in [Jobs -> {"new", "queued", "render", "guard", "sync", "register", "update",
                             "wait"} \cup Ended]
      /\ base \in [Jobs -> Revisions \cup {0}] /\ new \in [Jobs -> Revisions \cup {0}]
      /\ moved \in [Jobs -> BOOLEAN]
      /\ template \in [Infra -> {"none", "synthesized", "applied"}]
      /\ pinned \in [Infra -> Revisions \cup {0}] /\ version \in [Jobs -> Versions]
      /\ OneAtATime /\ RegistersOnce /\ RefersToRevisions /\ GuardStands
  BY DEF Deploying, TypeOK
<1>2. CASE RolloutCompletes
  <2>1. /\ UNCHANGED <<defs, live, stage, version, base, new, moved, template, pinned>>
        /\ stable' = live /\ rollout' = FALSE
    BY <1>2 DEF RolloutCompletes
  <2>2. TypeOK' /\ version' \in [Jobs -> Versions] /\ Revisions' = Revisions
    BY <1>1, <2>1, NothingRegistered
  <2> QED
    BY <1>1, <2>1, <2>2 DEF Deploying, OneAtATime, Active, RegistersOnce, Registered,
       RefersToRevisions, GuardStands, PastGuard
<1>3. CASE RolloutFails
  <2>1. /\ UNCHANGED <<defs, stable, stage, version, base, new, template, pinned>>
        /\ live' = stable /\ rollout' = FALSE /\ MovedUnder
    BY <1>3 DEF RolloutFails
  <2>2. GuardStands' /\ moved' \in [Jobs -> BOOLEAN]
    BY <2>1, OthersAreNoticed
  <2>3. TypeOK' /\ version' \in [Jobs -> Versions] /\ Revisions' = Revisions
    BY <1>1, <2>1, <2>2, NothingRegistered
  <2> QED
    BY <1>1, <2>1, <2>2, <2>3 DEF Deploying, OneAtATime, Active, RegistersOnce, Registered,
       RefersToRevisions
<1>4. CASE ByHand
  <2>1. PICK r \in Rest : defs' = Append(defs, [defs[live] EXCEPT !.rest = r])
    BY <1>4 DEF ByHand
  <2>2. /\ UNCHANGED <<stable, stage, version, base, new, template, pinned>>
        /\ live' = Len(defs) + 1 /\ rollout' = TRUE /\ MovedUnder
        /\ Len(defs) < 1 + MaxByHand + Cardinality(Registered)
    BY <1>4 DEF ByHand, Registered
  <2>3. [defs[live] EXCEPT !.rest = r] \in TaskDefinitions
    <3>1. defs[live] \in TaskDefinitions /\ r \in Rest
      BY <1>1, <2>1 DEF Revisions
    <3> QED
      BY <3>1 DEF TaskDefinitions
  <2>4. /\ defs' \in Seq(TaskDefinitions) /\ Len(defs) \in Nat /\ Len(defs') = Len(defs) + 1
        /\ Revisions \subseteq Revisions' /\ Len(defs) + 1 \in Revisions'
        /\ \A q \in Revisions : defs'[q] = defs[q]
    BY <1>1, <2>1, <2>3, RegisteredRevision
  <2>5. GuardStands' /\ moved' \in [Jobs -> BOOLEAN]
    BY <2>2, OthersAreNoticed
  <2>6. RegistersOnce' /\ Len(defs') <= 1 + MaxByHand + Cardinality(Jobs)
    <3>1. Registered' = Registered /\ Registered \in SUBSET Jobs
      BY <2>2 DEF Registered
    <3>2. /\ Cardinality(Registered) \in Nat /\ Cardinality(Jobs) \in Nat
          /\ Cardinality(Registered) <= Cardinality(Jobs) /\ MaxByHand \in Nat
      BY <3>1, JobsCount, DeployAssumption
    <3>3. Len(defs') <= 1 + MaxByHand + Cardinality(Registered)
      BY <2>2, <2>4, <3>2
    <3> QED
      BY <1>1, <2>2, <2>4, <3>1, <3>2, <3>3 DEF RegistersOnce
  <2>7. TypeOK'
    BY <1>1, <2>2, <2>4, <2>5, <2>6 DEF TypeOK
  <2>8. RefersToRevisions'
    BY <1>1, <2>2, <2>4 DEF RefersToRevisions
  <2> QED
    BY <1>1, <2>2, <2>5, <2>6, <2>7, <2>8 DEF Deploying, OneAtATime, Active
<1>5. ASSUME NEW j \in Jobs, Queue(j) PROVE Deploying'
  <2>1. /\ UNCHANGED <<defs, live, stable, rollout, version, base, new, moved, template, pinned>>
        /\ stage[j] = "new"
        /\ stage' = [k \in Jobs |-> IF k = j THEN "queued"
                                    ELSE IF stage[k] = "queued" THEN "cancelled" ELSE stage[k]]
    BY <1>5 DEF Queue
  <2>2. stage' \in [Jobs -> {"new", "queued", "render", "guard", "sync", "register", "update",
                            "wait"} \cup Ended]
    BY <1>1, <2>1 DEF Ended
  <2>3. \A k \in Jobs : stage'[k] \in {"queued", "cancelled"} \/ (k # j /\ stage'[k] = stage[k])
    BY <2>1
  <2>4. TypeOK' /\ version' \in [Jobs -> Versions] /\ Revisions' = Revisions
    BY <1>1, <2>1, <2>2, NothingRegistered
  <2>5. OneAtATime' /\ GuardStands' /\ RefersToRevisions'
    BY <1>1, <2>1, <2>3, <2>4 DEF OneAtATime, Active, GuardStands, PastGuard, RefersToRevisions
  <2>6. RegistersOnce'
    BY <1>1, <2>1, <2>3 DEF RegistersOnce, Registered, Ended
  <2> QED
    BY <2>4, <2>5, <2>6 DEF Deploying
<1>6. ASSUME NEW j \in Jobs, Start(j) PROVE Deploying'
  <2>1. /\ UNCHANGED <<defs, live, stable, rollout, version, base, new, moved, template, pinned>>
        /\ \A k \in Jobs : ~Active(k)
        /\ stage[j] = "queued" /\ stage' = [stage EXCEPT ![j] = "render"]
    BY <1>6 DEF Start, Goto, Active, Ended
  <2>2. /\ stage' \in [Jobs -> {"new", "queued", "render", "guard", "sync", "register", "update",
                               "wait"} \cup Ended]
        /\ stage'[j] = "render" /\ \A k \in Jobs \ {j} : stage'[k] = stage[k]
    BY <1>1, <2>1
  <2>3. TypeOK' /\ version' \in [Jobs -> Versions] /\ Revisions' = Revisions
    BY <1>1, <2>1, <2>2, NothingRegistered
  <2>4. OneAtATime' /\ GuardStands' /\ RefersToRevisions'
    BY <1>1, <2>1, <2>2, <2>3 DEF OneAtATime, Active, GuardStands, PastGuard, RefersToRevisions
  <2>5. RegistersOnce'
    BY <1>1, <2>1, <2>2 DEF RegistersOnce, Registered, Ended
  <2> QED
    BY <2>3, <2>4, <2>5 DEF Deploying
<1>7. ASSUME NEW j \in Jobs, Render(j) PROVE Deploying'
  <2>1. /\ UNCHANGED <<defs, live, stable, rollout, version, new, moved, template, pinned>>
        /\ stage[j] = "render" /\ stage' = [stage EXCEPT ![j] = "guard"]
        /\ base' = [base EXCEPT ![j] = live]
    BY <1>7 DEF Render, Goto
  <2>2. /\ OneAtATime' /\ stage'[j] = "guard"
        /\ stage' \in [Jobs -> {"new", "queued", "render", "guard", "sync", "register", "update",
                               "wait"} \cup Ended]
        /\ \A k \in Jobs \ {j} : stage'[k] = stage[k] /\ ~Active(k)
    BY <2>1, ActiveMoves DEF Active
  <2>3. /\ base' \in [Jobs -> Revisions \cup {0}] /\ base'[j] = live
        /\ \A k \in Jobs \ {j} : base'[k] = base[k]
    BY <1>1, <2>1
  <2>4. TypeOK' /\ version' \in [Jobs -> Versions] /\ Revisions' = Revisions
    BY <1>1, <2>1, <2>2, <2>3, NothingRegistered
  <2>5. GuardStands' /\ RefersToRevisions'
    BY <1>1, <2>1, <2>2, <2>3, <2>4 DEF GuardStands, PastGuard, RefersToRevisions
  <2>6. RegistersOnce'
    BY <1>1, <2>1, <2>2 DEF RegistersOnce, Registered, Ended
  <2> QED
    BY <2>2, <2>4, <2>5, <2>6 DEF Deploying
<1>8. ASSUME NEW j \in Jobs, Guard(j) PROVE Deploying'
  <2> DEFINE to == IF VaultBackend THEN "sync" ELSE "register"
  <2>1. /\ UNCHANGED <<defs, live, stable, rollout, version, base, new, moved, template, pinned>>
        /\ stage[j] = "guard" /\ stage' = [stage EXCEPT ![j] = to] /\ live = base[j]
    BY <1>8 DEF Guard, Goto
  <2>2. Active(j) /\ new[j] = 0
    BY <1>1, <2>1 DEF Active, RegistersOnce, Ended
  <2>3. to \in {"sync", "register"}
    OBVIOUS
  <2> HIDE DEF to
  <2> QED
    BY <1>1, <2>1, <2>2, <2>3, StageMoves
<1>9. ASSUME NEW j \in Jobs, SyncStep(j) PROVE Deploying'
  <2>1. /\ UNCHANGED <<defs, live, stable, rollout, version, base, new, moved, template, pinned>>
        /\ stage[j] = "sync"
    BY <1>9 DEF SyncStep
  <2>2. PICK to \in {"sync", "register", "failed"} : stage' = [stage EXCEPT ![j] = to]
    BY <1>9, <2>1 DEF SyncStep
  <2>3. Active(j) /\ new[j] = 0 /\ base[j] \in Revisions /\ (moved[j] \/ live = base[j])
    BY <1>1, <2>1 DEF Active, RegistersOnce, RefersToRevisions, GuardStands, PastGuard, Ended
  <2>4. to \in {"sync", "register", "wait"} \cup Ended
    BY DEF Ended
  <2> QED
    BY <2>1, <2>2, <2>3, <2>4, StageMoves
<1>10. ASSUME NEW j \in Jobs, Waited(j) PROVE Deploying'
  <2>1. /\ UNCHANGED <<defs, live, stable, rollout, version, base, new, moved, template, pinned>>
        /\ stage[j] = "wait" /\ stage' = [stage EXCEPT ![j] = "deployed"]
    BY <1>10 DEF Waited, Goto
  <2>2. Active(j) /\ "deployed" \in Ended
    BY <2>1 DEF Active, Ended
  <2> QED
    BY <2>1, <2>2, StageMoves
<1>11. ASSUME NEW j \in Jobs, Fails(j) PROVE Deploying'
  <2>1. /\ UNCHANGED <<defs, live, stable, rollout, version, base, new, moved, template, pinned>>
        /\ Active(j)
    BY <1>11 DEF Fails, Active
  <2>2. PICK to \in {"unstable", "failed"} : stage' = [stage EXCEPT ![j] = to]
    BY <1>11 DEF Fails
  <2>3. to \in Ended
    BY DEF Ended
  <2> QED
    BY <2>1, <2>2, <2>3, StageMoves DEF Ended
<1>12. ASSUME NEW j \in Jobs, Register(j) PROVE Deploying'
  <2>1. /\ UNCHANGED <<live, stable, rollout, version, base, moved, template, pinned>>
        /\ stage[j] = "register" /\ stage' = [stage EXCEPT ![j] = "update"]
        /\ defs' = Append(defs, Rendered(j)) /\ new' = [new EXCEPT ![j] = Len(defs) + 1]
    BY <1>12 DEF Register, Goto
  <2>2. new[j] = 0 /\ base[j] \in Revisions
    BY <1>1, <2>1 DEF RegistersOnce, RefersToRevisions, Ended
  <2>3. Rendered(j) \in TaskDefinitions /\ Rendered(j).rest = defs[base[j]].rest
    <3>1. defs[base[j]] \in TaskDefinitions /\ version[j] \in Versions
      BY <1>1, <2>2 DEF Revisions
    <3> QED
      BY <3>1 DEF Rendered, TaskDefinitions
  <2>4. /\ defs' \in Seq(TaskDefinitions) /\ Len(defs) \in Nat /\ Len(defs') = Len(defs) + 1
        /\ Revisions \subseteq Revisions' /\ Len(defs) + 1 \in Revisions'
        /\ \A q \in Revisions : defs'[q] = defs[q]
        /\ defs'[Len(defs) + 1] = Rendered(j)
    BY <1>1, <2>1, <2>3, RegisteredRevision
  <2>5. /\ OneAtATime' /\ stage'[j] = "update"
        /\ stage' \in [Jobs -> {"new", "queued", "render", "guard", "sync", "register", "update",
                               "wait"} \cup Ended]
        /\ \A k \in Jobs \ {j} : stage'[k] = stage[k] /\ ~Active(k)
    BY <2>1, ActiveMoves DEF Active
  <2>6. /\ new' \in [Jobs -> Revisions' \cup {0}] /\ new'[j] = Len(defs) + 1
        /\ \A k \in Jobs \ {j} : new'[k] = new[k]
    BY <1>1, <2>1, <2>4
  <2>7. RegistersOnce' /\ Len(defs') <= 1 + MaxByHand + Cardinality(Jobs)
    <3>1. /\ Registered' = Registered \cup {j} /\ j \notin Registered
          /\ Registered \in SUBSET Jobs /\ Registered' \in SUBSET Jobs
      BY <1>1, <2>2, <2>4, <2>6 DEF Registered
    <3>2. /\ Cardinality(Registered) \in Nat /\ Cardinality(Registered') <= Cardinality(Jobs)
          /\ Cardinality(Jobs) \in Nat /\ MaxByHand \in Nat
          /\ Cardinality(Registered') = Cardinality(Registered) + 1
      BY <3>1, JobsCount, DeployAssumption, FS_AddElement
    <3>3. Len(defs') <= 1 + MaxByHand + Cardinality(Registered')
      BY <1>1, <2>4, <3>2 DEF RegistersOnce
    <3>4. \A k \in Jobs : new'[k] # 0 => stage'[k] \in {"update", "wait"} \cup Ended
      BY <1>1, <2>5, <2>6 DEF RegistersOnce
    <3> QED
      BY <2>4, <3>2, <3>3, <3>4 DEF RegistersOnce
  <2>8. TypeOK'
    BY <1>1, <2>1, <2>4, <2>5, <2>6, <2>7 DEF TypeOK
  <2>9. RefersToRevisions'
    <3>1. ASSUME NEW k \in Jobs, stage'[k] = "update"
          PROVE  new'[k] \in Revisions' /\ defs'[new'[k]].rest = defs'[base'[k]].rest
      <4>1. k = j
        BY <2>5, <3>1 DEF Active
      <4> QED
        BY <2>1, <2>2, <2>3, <2>4, <2>6, <4>1
    <3>2. \A k \in Jobs : stage'[k] \in {"guard", "sync", "register", "update"} => base'[k] \in Revisions'
      BY <1>1, <2>1, <2>2, <2>4, <2>5 DEF RefersToRevisions
    <3> QED
      BY <1>1, <2>1, <2>4, <3>1, <3>2 DEF RefersToRevisions
  <2>10. GuardStands'
    BY <1>1, <2>1, <2>5 DEF GuardStands, PastGuard
  <2> QED
    BY <1>1, <2>1, <2>5, <2>7, <2>8, <2>9, <2>10 DEF Deploying
<1>13. ASSUME NEW j \in Jobs, Update(j) PROVE Deploying'
  <2>1. /\ UNCHANGED <<defs, stable, version, base, new, moved, template, pinned>>
        /\ stage[j] = "update" /\ stage' = [stage EXCEPT ![j] = "wait"]
        /\ live' = new[j] /\ rollout' = TRUE
    BY <1>13 DEF Update, Goto
  <2>2. /\ OneAtATime' /\ stage'[j] = "wait"
        /\ stage' \in [Jobs -> {"new", "queued", "render", "guard", "sync", "register", "update",
                               "wait"} \cup Ended]
        /\ \A k \in Jobs \ {j} : stage'[k] = stage[k] /\ ~Active(k)
    BY <2>1, ActiveMoves DEF Active
  <2>3. live' \in Revisions
    BY <1>1, <2>1 DEF RefersToRevisions
  <2>4. TypeOK' /\ version' \in [Jobs -> Versions] /\ Revisions' = Revisions
    BY <1>1, <2>1, <2>2, <2>3, NothingRegistered
  <2>5. GuardStands'
    BY <2>2 DEF GuardStands, PastGuard, Active
  <2>6. RefersToRevisions'
    BY <1>1, <2>1, <2>2, <2>4 DEF RefersToRevisions
  <2>7. RegistersOnce'
    BY <1>1, <2>1, <2>2 DEF RegistersOnce, Registered
  <2> QED
    BY <2>2, <2>4, <2>5, <2>6, <2>7 DEF Deploying
<1>14. ASSUME NEW i \in Infra, Synthesize(i) PROVE Deploying'
  <2>1. /\ UNCHANGED <<defs, live, stable, rollout, stage, version, base, new, moved>>
        /\ template' = [template EXCEPT ![i] = "synthesized"]
        /\ pinned' = [pinned EXCEPT ![i] = live]
    BY <1>14 DEF Synthesize
  <2>2. /\ template' \in [Infra -> {"none", "synthesized", "applied"}]
        /\ pinned' \in [Infra -> Revisions \cup {0}] /\ pinned'[i] = live
        /\ \A k \in Infra \ {i} : template'[k] = template[k] /\ pinned'[k] = pinned[k]
    BY <1>1, <2>1
  <2>3. TypeOK' /\ version' \in [Jobs -> Versions] /\ Revisions' = Revisions
    BY <1>1, <2>1, <2>2, NothingRegistered
  <2>4. RefersToRevisions'
    BY <1>1, <2>1, <2>2, <2>3 DEF RefersToRevisions
  <2> QED
    BY <1>1, <2>1, <2>3, <2>4 DEF Deploying, OneAtATime, Active, RegistersOnce, Registered,
       GuardStands, PastGuard
<1>15. ASSUME NEW i \in Infra, Apply(i) PROVE Deploying'
  <2>1. /\ UNCHANGED <<defs, stable, stage, version, base, new, pinned>>
        /\ template[i] = "synthesized" /\ template' = [template EXCEPT ![i] = "applied"]
        /\ live' = pinned[i] /\ rollout' \in BOOLEAN
    BY <1>1, <1>15 DEF Apply
  <2>2. /\ template' \in [Infra -> {"none", "synthesized", "applied"}] /\ template'[i] = "applied"
        /\ \A k \in Infra \ {i} : template'[k] = template[k]
    BY <1>1, <2>1
  <2>3. live' \in Revisions
    BY <1>1, <2>1 DEF RefersToRevisions
  <2>4. GuardStands' /\ moved' \in [Jobs -> BOOLEAN]
    <3>1. CASE live = pinned[i]
      BY <1>1, <1>15, <2>1, <3>1 DEF Apply, GuardStands, PastGuard
    <3>2. CASE live # pinned[i]
      BY <1>15, <2>1, <3>2, OthersAreNoticed DEF Apply
    <3> QED
      BY <3>1, <3>2
  <2>5. TypeOK' /\ version' \in [Jobs -> Versions] /\ Revisions' = Revisions
    BY <1>1, <2>1, <2>2, <2>3, <2>4, NothingRegistered
  <2>6. RefersToRevisions'
    BY <1>1, <2>1, <2>2, <2>5 DEF RefersToRevisions
  <2> QED
    BY <1>1, <2>1, <2>4, <2>5, <2>6 DEF Deploying, OneAtATime, Active, RegistersOnce, Registered
<1>16. CASE UNCHANGED vars
  <2>1. UNCHANGED <<defs, live, stable, rollout, stage, version, base, new, moved, template, pinned>>
    BY <1>16 DEF vars
  <2> QED
    BY <2>1 DEF Deploying, TypeOK, Revisions, OneAtATime, Active, RegistersOnce, Registered,
       RefersToRevisions, GuardStands, PastGuard
<1> QED
  BY <1>2, <1>3, <1>4, <1>5, <1>6, <1>7, <1>8, <1>9, <1>10, <1>11, <1>12, <1>13, <1>14, <1>15,
     <1>16 DEF Next, JobStep

\* No other step takes a job from UpdateService to the wait.
LEMMA OnlyUpdateWaits ==
  ASSUME Deploying, Next, NEW j \in Jobs, stage[j] = "update", stage'[j] = "wait"
  PROVE  Update(j)
<1> USE DEF ecs, job, infra, secret
<1>1. stage \in [Jobs -> {"new", "queued", "render", "guard", "sync", "register", "update",
                         "wait"} \cup Ended]
  BY DEF Deploying, TypeOK
<1>2. ASSUME NEW k \in Jobs, NEW to, stage' = [stage EXCEPT ![k] = to] PROVE k = j /\ to = "wait"
  BY <1>1, <1>2
<1>3. ~RolloutCompletes /\ ~RolloutFails /\ ~ByHand
  BY DEF RolloutCompletes, RolloutFails, ByHand
<1>4. ASSUME NEW i \in Infra, Synthesize(i) \/ Apply(i) PROVE FALSE
  BY <1>4 DEF Synthesize, Apply
<1>5. ASSUME NEW k \in Jobs, Queue(k) PROVE FALSE
  BY <1>5 DEF Queue
<1>6. ASSUME NEW k \in Jobs, JobStep(k) PROVE Update(j)
  <2>1. CASE Start(k) \/ Render(k) \/ Waited(k) \/ Register(k)
    BY <1>2, <2>1 DEF Start, Render, Waited, Register, Goto
  <2>2. CASE Guard(k)
    BY <1>2, <2>2 DEF Guard, Goto
  <2>3. CASE SyncStep(k)
    BY <1>2, <2>3 DEF SyncStep
  <2>4. CASE Fails(k)
    BY <1>2, <2>4 DEF Fails
  <2>5. CASE Update(k)
    <3>1. k = j
      BY <1>2, <2>5 DEF Update, Goto
    <3> QED
      BY <2>5, <3>1
  <2> QED
    BY <1>6, <2>1, <2>2, <2>3, <2>4, <2>5 DEF JobStep
<1> QED
  BY <1>3, <1>4, <1>5, <1>6 DEF Next

\* Before any job, with one revision.
LEMMA DeployingStarts == Init => Deploying
<1> SUFFICES ASSUME Init PROVE Deploying
  OBVIOUS
<1>1. PICK r \in Rest : defs = <<[content |-> FirstVersion, rest |-> r]>>
  BY DEF Init
<1>2. /\ live = 1 /\ stable = 1 /\ rollout = FALSE /\ version \in [Jobs -> Versions]
      /\ stage = [j \in Jobs |-> "new"] /\ base = [j \in Jobs |-> 0]
      /\ new = [j \in Jobs |-> 0] /\ moved = [j \in Jobs |-> FALSE]
      /\ template = [i \in Infra |-> "none"] /\ pinned = [i \in Infra |-> 0]
  BY DEF Init
<1>3. defs \in Seq(TaskDefinitions) /\ Len(defs) = 1 /\ Revisions = {1}
  <2>1. [content |-> FirstVersion, rest |-> r] \in TaskDefinitions
    BY DeployAssumption DEF TaskDefinitions
  <2> QED
    BY <1>1, <2>1 DEF Revisions
<1>4. /\ Cardinality(Registered) \in Nat /\ Cardinality(Jobs) \in Nat /\ MaxByHand \in Nat
  <2>1. Registered \in SUBSET Jobs
    BY DEF Registered
  <2> QED
    BY <2>1, JobsCount, DeployAssumption
<1>5. TypeOK
  <2>1. Len(defs) <= 1 + MaxByHand + Cardinality(Jobs)
    BY <1>3, <1>4
  <2>2. /\ stage \in [Jobs -> {"new", "queued", "render", "guard", "sync", "register", "update",
                             "wait"} \cup Ended]
        /\ moved \in [Jobs -> BOOLEAN] /\ rollout \in BOOLEAN
        /\ template \in [Infra -> {"none", "synthesized", "applied"}]
    BY <1>2
  <2>3. /\ base \in [Jobs -> Revisions \cup {0}] /\ new \in [Jobs -> Revisions \cup {0}]
        /\ pinned \in [Infra -> Revisions \cup {0}] /\ {live, stable} \subseteq Revisions
    BY <1>2, <1>3
  <2> QED
    BY <1>3, <2>1, <2>2, <2>3 DEF TypeOK
<1>6. RegistersOnce /\ OneAtATime /\ RefersToRevisions /\ GuardStands
  BY <1>2, <1>3, <1>4 DEF RegistersOnce, OneAtATime, Active, RefersToRevisions, GuardStands, PastGuard
<1> QED
  BY <1>2, <1>5, <1>6 DEF Deploying

\* What the proofs rest on: one job at a time has the group's place and registers one revision,
\* and past its guard the service is where it rendered from unless another writer has moved it.
THEOREM DeployingHolds == Spec => []Deploying
BY DeployingStarts, DeployingSteps, PTL DEF Spec

\* Whatever the two kinds of writers and the circuit breaker do, the service names a revision that
\* is registered, and nobody registers more than the jobs and the changes by hand account for.
THEOREM DeployTypeCorrect == Spec => []TypeOK
<1>1. Deploying => TypeOK
  BY DEF Deploying
<1> QED
  BY <1>1, DeployingHolds, PTL

\* UpdateService keeps what others changed around the container, outside the guard's window.
THEOREM FieldsSurvive == Spec => FieldsSurviveDeploy
<1> DEFINE Survives == \A j \in Jobs : stage[j] = "update" /\ stage'[j] = "wait" =>
                         defs[live'].rest = defs[live].rest \/ moved[j]
<1>1. Deploying /\ [Next]_vars => [Survives]_vars
  <2> SUFFICES ASSUME Deploying, Next, NEW j \in Jobs, stage[j] = "update", stage'[j] = "wait", ~moved[j]
               PROVE  defs[live'].rest = defs[live].rest
    OBVIOUS
  <2>1. Update(j)
    BY OnlyUpdateWaits
  <2>2. live' = new[j] /\ UNCHANGED defs
    BY <2>1 DEF Update
  <2>3. live = base[j] /\ defs[new[j]].rest = defs[base[j]].rest
    BY DEF Deploying, GuardStands, PastGuard, RefersToRevisions
  <2> QED
    BY <2>2, <2>3
<1> QED
  BY <1>1, DeployingHolds, PTL DEF Spec, FieldsSurviveDeploy
-------------------------------------------------------------------------------
\* A step that touches neither the secret nor the revisions, and neither interrupts a sync nor
\* goes on to register.
LEMMA SecretUntouched ==
  ASSUME Synced, UNCHANGED <<secret, defs, version>>,
         \A j \in Jobs : stage'[j] = stage[j] \/ (stage[j] # "sync" /\ stage'[j] # "register")
  PROVE  Synced'
<1>1. UNCHANGED <<vault, document, args, at, tried, read, existing>>
  BY DEF secret
<1>2. \A v : Bound(v)' <=> Bound(v)
  BY <1>1 DEF Bound
<1>3. SyncsInItsStep' /\ SyncedFirst'
  BY <1>1, <1>2 DEF Synced, SyncsInItsStep, Sync!Running, SyncedFirst
<1>4. SyncTypes' /\ ValuesAreThere' /\ FoundIsCurrent'
  BY <1>1 DEF Synced, SyncTypes, Sync!Documents, Sync!Ends, ValuesAreThere, FoundIsCurrent
<1>5. AllRevisionsBind'
  BY <1>2 DEF Synced, AllRevisionsBind, Revisions
<1> QED
  BY <1>3, <1>4, <1>5 DEF Synced

\* A revision whose keys are there is registered.
LEMMA RevisionAdded ==
  ASSUME Deploying, Synced, UNCHANGED <<secret, version>>,
         \A j \in Jobs : stage'[j] = stage[j] \/ (stage[j] # "sync" /\ stage'[j] # "register"),
         NEW d \in TaskDefinitions, defs' = Append(defs, d), Bound(d.content)
  PROVE  Synced'
<1>1. UNCHANGED <<vault, document, args, at, tried, read, existing>>
  BY DEF secret
<1>2. \A v : Bound(v)' <=> Bound(v)
  BY <1>1 DEF Bound
<1>3. SyncsInItsStep' /\ SyncedFirst'
  BY <1>1, <1>2 DEF Synced, SyncsInItsStep, Sync!Running, SyncedFirst
<1>4. SyncTypes' /\ ValuesAreThere' /\ FoundIsCurrent'
  BY <1>1 DEF Synced, SyncTypes, Sync!Documents, Sync!Ends, ValuesAreThere, FoundIsCurrent
<1>5. AllRevisionsBind'
  <2>1. /\ \A r \in Revisions : defs'[r] = defs[r]
        /\ defs'[Len(defs) + 1] = d
        /\ \A r \in Revisions' : r \in Revisions \/ r = Len(defs) + 1
    BY RegisteredRevision DEF Deploying, TypeOK
  <2> QED
    BY <1>2, <2>1 DEF Synced, AllRevisionsBind
<1> QED
  BY <1>3, <1>4, <1>5 DEF Synced

\* What a step of one job's sync has to see to: with the group's place nobody else's runs.
LEMMA SyncMoves ==
  ASSUME Deploying, Synced, NEW j \in Jobs, stage[j] = "sync",
         UNCHANGED <<vault, args, version, defs>>,
         NEW to \in {"idle", "vault", "document", "put"} \cup Sync!Ends,
         at' = [at EXCEPT ![j] = to],
         stage' = [stage EXCEPT ![j] = IF to \in {"nothing", "current", "written"} THEN "register"
                                       ELSE IF to \in Sync!Ends THEN "failed" ELSE @],
         document' \in Sync!Documents, tried' \in [Jobs -> SUBSET Keys],
         read' \in [Jobs -> Sync!Documents], existing' \in [Jobs -> Sync!Documents],
         \A v \in Versions : Bound(v) => Bound(v)',
         to \in {"document", "put"} => \A k \in args[j].names : read'[j][k] # Absent,
         to = "put" => existing'[j] = document',
         to \in {"nothing", "current", "written"} => Bound(version[j])'
  PROVE  Synced'
<1>1. /\ stage \in [Jobs -> {"new", "queued", "render", "guard", "sync", "register", "update",
                             "wait"} \cup Ended]
      /\ version \in [Jobs -> Versions] /\ defs \in Seq(TaskDefinitions)
  BY DEF Deploying, TypeOK
<1>2. at \in [Jobs -> {"idle", "vault", "document", "put"} \cup Sync!Ends]
  BY DEF Synced, SyncTypes
<1>3. /\ at'[j] = to /\ \A i \in Jobs \ {j} : at'[i] = at[i] /\ stage'[i] = stage[i]
      /\ stage'[j] = IF to \in {"nothing", "current", "written"} THEN "register"
                     ELSE IF to \in Sync!Ends THEN "failed" ELSE "sync"
  BY <1>1, <1>2
<1>4. \A i \in Jobs \ {j} : ~Sync!Running(i) /\ ~Sync!Running(i)'
  <2>1. \A i \in Jobs \ {j} : stage[i] # "sync"
    BY DEF Deploying, OneAtATime, Active
  <2> QED
    BY <1>3, <2>1 DEF Synced, SyncsInItsStep, Sync!Running
<1>5. SyncTypes'
  <2>1. at' \in [Jobs -> {"idle", "vault", "document", "put"} \cup Sync!Ends]
    BY <1>2
  <2> QED
    BY <2>1 DEF Synced, SyncTypes, Sync!Documents, Sync!Ends
<1>6. SyncsInItsStep'
  <2>1. Sync!Running(j)' => stage'[j] = "sync"
    BY <1>3 DEF Sync!Running, Sync!Ends
  <2> QED
    BY <1>4, <2>1 DEF SyncsInItsStep
<1>7. ValuesAreThere' /\ FoundIsCurrent'
  BY <1>3, <1>4 DEF ValuesAreThere, FoundIsCurrent, Sync!Running
<1>8. SyncedFirst'
  <2>1. ASSUME NEW i \in Jobs, stage'[i] = "register" PROVE Bound(version[i])'
    <3>1. CASE i = j
      BY <1>3, <2>1, <3>1
    <3>2. CASE i # j
      BY <1>1, <1>3, <2>1, <3>2 DEF Synced, SyncedFirst
    <3> QED
      BY <3>1, <3>2
  <2> QED
    BY <2>1 DEF SyncedFirst, Bound
<1>9. AllRevisionsBind'
  <2>1. ASSUME NEW r \in Revisions PROVE defs[r].content \in Versions /\ Bound(defs[r].content)
    <3>1. defs[r] \in TaskDefinitions
      BY <1>1 DEF Revisions
    <3> QED
      BY <3>1 DEF TaskDefinitions, Synced, AllRevisionsBind
  <2>2. Revisions' = Revisions
    BY DEF Revisions
  <2> QED
    BY <2>1, <2>2 DEF AllRevisionsBind, Bound
<1> QED
  BY <1>5, <1>6, <1>7, <1>8, <1>9 DEF Synced

\* Every step of the sync that a job calls.
LEMMA SyncStepSyncs ==
  ASSUME Deploying, Synced, NEW j \in Jobs, SyncStep(j)
  PROVE  Synced'
<1>1. /\ stage[j] = "sync" /\ UNCHANGED <<version, defs>>
      /\ stage' = [stage EXCEPT ![j] = IF at'[j] \in {"nothing", "current", "written"} THEN "register"
                                       ELSE IF at'[j] \in Sync!Ends THEN "failed" ELSE @]
      /\ Sync!Start(j) \/ Sync!Step(j)
  BY DEF SyncStep, ecs
<1>2. /\ vault \in Sync!Documents /\ document \in Sync!Documents
      /\ at \in [Jobs -> {"idle", "vault", "document", "put"} \cup Sync!Ends]
      /\ tried \in [Jobs -> SUBSET Keys]
      /\ read \in [Jobs -> Sync!Documents] /\ existing \in [Jobs -> Sync!Documents]
      /\ args[j].names = VaultKeys[version[j]] /\ ~args[j].prune /\ args[j].names \subseteq Keys
  <2>1. VaultKeys[version[j]] \subseteq Keys
    BY DeployAssumption DEF Deploying
  <2> QED
    BY <2>1 DEF Synced, SyncTypes
<1>3. /\ at[j] \in {"document", "put"} => \A k \in args[j].names : read[j][k] # Absent
      /\ at[j] = "put" => existing[j] = document
  BY DEF Synced, ValuesAreThere, FoundIsCurrent
<1>4. (\A k \in VaultKeys[version[j]] : document'[k] # Absent) <=> Bound(version[j])'
  BY <1>1 DEF Bound
<1>5. UNCHANGED document => \A v \in Versions : Bound(v) => Bound(v)'
  BY DEF Bound
<1>6. {"nothing", "refused", "current", "dry", "written", "failed", "killed"} = Sync!Ends
  BY DEF Sync!Ends
<1>7. CASE Sync!Start(j)
  <2>1. PICK to \in {"nothing", "vault"} :
          at' = [at EXCEPT ![j] = to] /\ (to = "nothing" => args[j].names = {})
    BY <1>7 DEF Sync!Start, Sync!Move
  <2>2. UNCHANGED <<vault, document, args, tried, read, existing>>
    BY <1>7 DEF Sync!Start
  <2>3. at'[j] = to
    BY <1>2, <2>1
  <2> QED
    BY <1>1, <1>2, <1>4, <1>5, <1>6, <2>1, <2>2, <2>3, SyncMoves
<1>8. CASE Sync!ReadValue(j)
  <2>1. PICK k \in args[j].names \ tried[j] :
          /\ tried' = [tried EXCEPT ![j] = @ \cup {k}]
          /\ \E value \in {vault[k], Absent} : read' = [read EXCEPT ![j][k] = value]
    BY <1>8 DEF Sync!ReadValue
  <2>2. PICK value \in {vault[k], Absent} : read' = [read EXCEPT ![j][k] = value]
    BY <2>1
  <2>3. at[j] = "vault" /\ UNCHANGED <<vault, document, args, at, existing>>
    BY <1>8 DEF Sync!ReadValue
  <2>4. tried' \in [Jobs -> SUBSET Keys]
    BY <1>2, <2>1
  <2>5. read' \in [Jobs -> Sync!Documents]
    <3>1. value \in Values \cup {Absent}
      BY <1>2, <2>1, <2>2 DEF Sync!Documents
    <3>2. [read[j] EXCEPT ![k] = value] \in Sync!Documents
      BY <1>2, <3>1 DEF Sync!Documents
    <3> QED
      BY <1>2, <2>2, <3>2
  <2>6. at' = [at EXCEPT ![j] = "vault"] /\ at'[j] = "vault"
    BY <1>2, <2>3
  <2> QED
    BY <1>1, <1>2, <1>5, <1>6, <2>3, <2>4, <2>5, <2>6, SyncMoves
<1>9. CASE Sync!ValuesRead(j)
  <2>1. /\ tried[j] = args[j].names /\ UNCHANGED <<vault, document, args, tried, read, existing>>
        /\ at' = [at EXCEPT ![j] = IF \E k \in tried[j] : read[j][k] = Absent THEN "refused"
                                   ELSE "document"]
    BY <1>9 DEF Sync!ValuesRead, Sync!Move
  <2>2. PICK to \in {"refused", "document"} :
          /\ at' = [at EXCEPT ![j] = to]
          /\ to = "document" => \A k \in args[j].names : read[j][k] # Absent
    BY <2>1
  <2>3. at'[j] = to
    BY <1>2, <2>2
  <2> QED
    BY <1>1, <1>2, <1>5, <1>6, <2>1, <2>2, <2>3, SyncMoves
<1>10. CASE Sync!ReadDocument(j)
  <2>1. /\ at[j] = "document" /\ UNCHANGED <<vault, document, args, tried, read>>
        /\ existing' = [existing EXCEPT ![j] = document] /\ at' = [at EXCEPT ![j] = "put"]
    BY <1>10 DEF Sync!ReadDocument, Sync!Move
  <2>2. at'[j] = "put" /\ existing' \in [Jobs -> Sync!Documents] /\ existing'[j] = document
    BY <1>2, <2>1
  <2> QED
    BY <1>1, <1>2, <1>3, <1>5, <1>6, <2>1, <2>2, SyncMoves
<1>11. CASE Sync!RefuseDocument(j) \/ Sync!Killed(j)
  <2>1. PICK to \in {"refused", "killed"} : at' = [at EXCEPT ![j] = to]
    BY <1>11 DEF Sync!RefuseDocument, Sync!Killed, Sync!Move
  <2>2. UNCHANGED <<vault, document, args, tried, read, existing>>
    BY <1>11 DEF Sync!RefuseDocument, Sync!Killed
  <2>3. at'[j] = to
    BY <1>2, <2>1
  <2> QED
    BY <1>1, <1>2, <1>5, <1>6, <2>1, <2>2, <2>3, SyncMoves
<1>12. ASSUME at[j] = "put"
       PROVE  /\ Sync!Merged(existing[j], j) \in Sync!Documents
              /\ \A k \in Keys : document[k] # Absent => Sync!Merged(existing[j], j)[k] # Absent
              /\ \A k \in args[j].names : Sync!Merged(existing[j], j)[k] # Absent
  <2>1. \A k \in Keys : Sync!Merged(existing[j], j)[k] = IF k \in args[j].names THEN read[j][k]
                                                        ELSE document[k]
    BY <1>2, <1>3, <1>12 DEF Sync!Merged
  <2>2. Sync!Merged(existing[j], j) = [k \in Keys |-> IF k \in args[j].names THEN read[j][k]
                                                     ELSE document[k]]
    BY <1>2, <1>3, <1>12 DEF Sync!Merged
  <2>3. read[j] \in Sync!Documents
    BY <1>2
  <2>4. Sync!Merged(existing[j], j) \in Sync!Documents
    BY <1>2, <2>2, <2>3 DEF Sync!Documents
  <2> QED
    BY <1>2, <1>3, <1>12, <2>1, <2>4
<1>13. CASE Sync!Put(j)
  <2>1. /\ at[j] = "put" /\ document' = Sync!Merged(existing[j], j)
        /\ UNCHANGED <<vault, args, tried, read, existing>>
    BY <1>13 DEF Sync!Put
  <2>2. PICK to \in {"written", "failed"} : at' = [at EXCEPT ![j] = to]
    BY <1>13 DEF Sync!Put, Sync!Move
  <2>3. at'[j] = to
    BY <1>2, <2>2
  <2>4. /\ document' \in Sync!Documents /\ \A k \in args[j].names : document'[k] # Absent
        /\ \A k \in Keys : document[k] # Absent => document'[k] # Absent
    BY <1>12, <2>1
  <2>5. \A v \in Versions : Bound(v) => Bound(v)'
    <3>1. \A v \in Versions : VaultKeys[v] \subseteq Keys
      BY DeployAssumption
    <3> QED
      BY <2>4, <3>1 DEF Bound
  <2> QED
    BY <1>1, <1>2, <1>4, <1>6, <2>1, <2>2, <2>3, <2>4, <2>5, SyncMoves
<1>14. CASE Sync!PutNothing(j)
  <2>1. at[j] = "put" /\ UNCHANGED <<vault, document, args, tried, read, existing>>
    BY <1>14 DEF Sync!PutNothing
  <2>2. PICK to \in {"current", "dry", "failed"} :
          /\ at' = [at EXCEPT ![j] = to]
          /\ to = "current" => Sync!Merged(existing[j], j) = existing[j]
    BY <1>14 DEF Sync!PutNothing, Sync!Move
  <2>3. at'[j] = to
    BY <1>2, <2>2
  <2>4. to = "current" => \A k \in args[j].names : document'[k] # Absent
    BY <1>3, <1>12, <2>1, <2>2
  <2> QED
    BY <1>1, <1>2, <1>4, <1>5, <1>6, <2>1, <2>2, <2>3, <2>4, SyncMoves
<1> QED
  BY <1>1, <1>7, <1>8, <1>9, <1>10, <1>11, <1>13, <1>14 DEF Sync!Step

\* With a vault backend the guard leads to the sync, and every step keeps Synced.
LEMMA SyncedSteps ==
  ASSUME VaultBackend, Deploying, Synced, [Next]_vars
  PROVE  Synced'
<1> USE DEF ecs, job, infra
<1>1. stage \in [Jobs -> {"new", "queued", "render", "guard", "sync", "register", "update",
                         "wait"} \cup Ended]
  BY DEF Deploying, TypeOK
<1>2. ASSUME NEW j \in Jobs, NEW to, stage' = [stage EXCEPT ![j] = to]
      PROVE  stage'[j] = to /\ \A k \in Jobs \ {j} : stage'[k] = stage[k]
  BY <1>1, <1>2
<1>3. CASE RolloutCompletes \/ RolloutFails \/ UNCHANGED vars
  BY <1>3, SecretUntouched DEF RolloutCompletes, RolloutFails, vars
<1>4. ASSUME NEW i \in Infra, Synthesize(i) \/ Apply(i) PROVE Synced'
  BY <1>4, SecretUntouched DEF Synthesize, Apply
<1>5. CASE ByHand
  <2>1. PICK r \in Rest : defs' = Append(defs, [defs[live] EXCEPT !.rest = r])
    BY <1>5 DEF ByHand
  <2>2. UNCHANGED <<secret, version, stage>>
    BY <1>5 DEF ByHand
  <2>3. /\ [defs[live] EXCEPT !.rest = r] \in TaskDefinitions
        /\ [defs[live] EXCEPT !.rest = r].content = defs[live].content /\ live \in Revisions
    <3>1. defs[live] \in TaskDefinitions /\ live \in Revisions
      BY DEF Deploying, TypeOK, Revisions
    <3> QED
      BY <3>1 DEF TaskDefinitions
  <2>4. Bound([defs[live] EXCEPT !.rest = r].content)
    BY <2>3 DEF Synced, AllRevisionsBind
  <2> QED
    BY <2>1, <2>2, <2>3, <2>4, RevisionAdded
<1>6. ASSUME NEW j \in Jobs, Queue(j) PROVE Synced'
  BY <1>6, SecretUntouched DEF Queue
<1>7. ASSUME NEW j \in Jobs, Start(j) \/ Render(j) \/ Guard(j) \/ Update(j) \/ Waited(j) PROVE Synced'
  <2>1. PICK to \in {"render", "guard", "sync", "wait", "deployed"} : stage' = [stage EXCEPT ![j] = to]
    BY <1>7 DEF Start, Render, Guard, Update, Waited, Goto
  <2>2. stage[j] # "sync" /\ UNCHANGED <<secret, defs, version>>
    BY <1>7 DEF Start, Render, Guard, Update, Waited, Goto
  <2> QED
    BY <1>2, <2>1, <2>2, SecretUntouched
<1>8. ASSUME NEW j \in Jobs, Fails(j) PROVE Synced'
  <2>1. PICK to \in {"unstable", "failed"} : stage' = [stage EXCEPT ![j] = to]
    BY <1>8 DEF Fails
  <2>2. stage[j] # "sync" /\ UNCHANGED <<secret, defs, version>>
    BY <1>8 DEF Fails
  <2> QED
    BY <1>2, <2>1, <2>2, SecretUntouched
<1>9. ASSUME NEW j \in Jobs, Register(j) PROVE Synced'
  <2>1. /\ stage[j] = "register" /\ stage' = [stage EXCEPT ![j] = "update"]
        /\ defs' = Append(defs, Rendered(j)) /\ UNCHANGED <<secret, version>>
    BY <1>9 DEF Register, Goto
  <2>2. \A k \in Jobs : stage'[k] = stage[k] \/ (stage[k] # "sync" /\ stage'[k] # "register")
    BY <1>2, <2>1
  <2>3. Rendered(j) \in TaskDefinitions /\ Rendered(j).content = version[j]
    <3>1. defs[base[j]] \in TaskDefinitions /\ version[j] \in Versions
      BY <2>1 DEF Deploying, TypeOK, RefersToRevisions, Revisions
    <3> QED
      BY <3>1 DEF Rendered, TaskDefinitions
  <2>4. Bound(Rendered(j).content)
    BY <2>1, <2>3 DEF Synced, SyncedFirst
  <2> QED
    BY <2>1, <2>2, <2>3, <2>4, RevisionAdded
<1> QED
  BY <1>3, <1>4, <1>5, <1>6, <1>7, <1>8, <1>9, SyncStepSyncs DEF Next, JobStep

\* The service starts with its first version's keys in the secret.
LEMMA SyncedStarts == Init => Synced
<1> SUFFICES ASSUME Init PROVE Synced
  OBVIOUS
<1>1. PICK r \in Rest : defs = <<[content |-> FirstVersion, rest |-> r]>>
  BY DEF Init
<1>2. /\ stage = [j \in Jobs |-> "new"] /\ at = [j \in Jobs |-> "idle"]
      /\ tried = [j \in Jobs |-> {}] /\ vault \in [Keys -> Values] /\ document \in Sync!Documents
      /\ read = [j \in Jobs |-> Sync!NoKeys] /\ existing = [j \in Jobs |-> Sync!NoKeys]
      /\ args = [j \in Jobs |->
                   [names |-> VaultKeys[version[j]], prune |-> FALSE, dryRun |-> FALSE]]
  BY DEF Init, Sync!Init
<1>3. \A k \in VaultKeys[FirstVersion] : document[k] # Absent
  BY DeployAssumption DEF Init
<1>4. SyncTypes
  <2>1. Sync!NoKeys \in Sync!Documents /\ vault \in Sync!Documents
    BY <1>2 DEF Sync!NoKeys, Sync!Documents
  <2> QED
    BY <1>2, <2>1 DEF SyncTypes
<1>5. AllRevisionsBind
  BY <1>1, <1>3 DEF AllRevisionsBind, Revisions, Bound
<1>6. SyncsInItsStep /\ ValuesAreThere /\ FoundIsCurrent /\ SyncedFirst
  BY <1>2 DEF SyncsInItsStep, Sync!Running, ValuesAreThere, FoundIsCurrent, SyncedFirst
<1> QED
  BY <1>4, <1>5, <1>6 DEF Synced

\* When deploy.yml is given a vault backend, the keys of every registered revision are in the
\* secret: whoever registers and whatever interrupts the jobs.
THEOREM RevisionsBind ==
  ASSUME VaultBackend
  PROVE  Spec => []EveryRevisionBinds
<1>1. Init => Deploying /\ Synced
  BY DeployingStarts, SyncedStarts
<1>2. Deploying /\ Synced /\ [Next]_vars => (Deploying /\ Synced)'
  BY DeployingSteps, SyncedSteps
<1>3. Synced => EveryRevisionBinds
  BY DEF Synced, AllRevisionsBind, Bound, EveryRevisionBinds
<1> QED
  BY <1>1, <1>2, <1>3, PTL DEF Spec
===============================================================================
