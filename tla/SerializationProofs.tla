------------------------- MODULE SerializationProofs -------------------------
(***************************************************************************)
(* Theorems about Serialization, for every set of invocations and every    *)
(* set of revisions.                                                       *)
(***************************************************************************)
EXTENDS Serialization, TLAPS

\* The state always has the types of TypeOK, so no attempt of a request is ever made beyond
\* the client library's bound.
LEMMA TypeStep == TypeOK /\ [Next]_vars => TypeOK'
<1> SUFFICES ASSUME TypeOK, [Next]_vars PROVE TypeOK'
  OBVIOUS
<1> USE ConstantsAssumption DEF TypeOK, Request, Ops
<1>1. ASSUME NEW i \in Invocations, Step(i) PROVE TypeOK'
  <2>1. CASE SendPut(i)
    BY <2>1 DEF SendPut, Send, service
  <2>2. CASE SendDelete(i)
    BY <2>2 DEF SendDelete, Send, service
  <2>3. CASE Acquired(i) \/ LockBusy(i) \/ AcquireFails(i)
    BY <2>3 DEF Acquired, LockBusy, AcquireFails, End, Goto, Waited, service, Outcomes, Locations
  <2>4. CASE ReadRevision(i)
    BY <2>4 DEF ReadRevision, Goto, service, Locations
  <2>8. CASE RefuseStale(i)
    BY <2>8 DEF RefuseStale, GiveBack, Goto, service, Outcomes, Locations
  <2>9. CASE TargetUnknown(i)
    BY <2>9 DEF TargetUnknown, GiveBack, Goto, service, Outcomes, Locations
  <2>5. CASE Execute(i)
    BY <2>5 DEF Execute, Goto, Locations
  <2>10. CASE CommandSucceeds(i)
    <3>1. writers' \in [Invocations -> SUBSET {"command", "rollout"}]
      BY <2>10 DEF CommandSucceeds
    <3> QED
      BY <2>10, <3>1 DEF CommandSucceeds, Goto, Locations
  <2>6. CASE ExecutionFails(i) \/ CommandFails(i) \/ SettleFails(i) \/ ReleaseFails(i)
    BY <2>6 DEF ExecutionFails, CommandFails, SettleFails, ReleaseFails, End, Waited, service,
                Outcomes, Locations
  <2>7. CASE Settled(i) \/ Released(i)
    BY <2>7 DEF Settled, Released, GiveBack, Goto, Waited, service, Outcomes, Locations
  <2> QED
    BY <1>1, <2>1, <2>2, <2>3, <2>4, <2>5, <2>6, <2>7, <2>8, <2>9, <2>10 DEF Step
<1>2. ASSUME NEW i \in Invocations, Caller(i) PROVE TypeOK'
  <2>1. CASE SavePlan(i)
    BY <2>1 DEF SavePlan, Goto, service, Locations
  <2>2. CASE Launch(i)
    BY <2>2 DEF Launch, service, Locations
  <2>3. CASE RefuseArguments(i)
    BY <2>3 DEF RefuseArguments, End, Waited, service, Outcomes, Locations
  <2>4. CASE Interrupted(i)
    BY <2>4 DEF Interrupted, End, Waited, service, Outcomes, Locations
  <2> QED
    BY <1>2, <2>1, <2>2, <2>3, <2>4 DEF Caller
<1>3. ASSUME NEW i \in Invocations, Deployment(i) PROVE TypeOK'
  <2>1. /\ live' \in Revisions
        /\ writers' \in [Invocations -> SUBSET {"command", "rollout"}]
        /\ wrote' \in [Invocations -> BOOLEAN]
    <3>1. CASE CommandWrites(i)
      BY <3>1 DEF CommandWrites
    <3>2. CASE RolloutEnds(i)
      BY <3>2 DEF RolloutEnds
    <3>3. CASE OrphanEnds(i)
      BY <3>3 DEF OrphanEnds
    <3> QED
      BY <1>3, <3>1, <3>2, <3>3 DEF Deployment
  <2> QED
    BY <1>3, <2>1 DEF Deployment, CommandWrites, RolloutEnds, OrphanEnds, client
<1>4. ASSUME NEW i \in Invocations, Recover(i) PROVE TypeOK'
  BY <1>4 DEF Recover, service, client
<1>5. ASSUME NEW r \in net, Table(r) PROVE TypeOK'
  BY <1>5 DEF Table, ServePut, ServeDelete, LoseRequest, Reply, service, client
<1>6. CASE UNCHANGED vars
  BY <1>6 DEF vars
<1> QED
  BY <1>1, <1>2, <1>3, <1>4, <1>5, <1>6 DEF Next

\* TypeOK holds in every reachable state.
THEOREM TypeCorrect == Spec => []TypeOK
<1>1. Init => TypeOK
  BY ConstantsAssumption DEF Init, TypeOK, Request, Ops, Locations, Outcomes
<1> QED
  BY <1>1, TypeStep, PTL DEF Spec

-------------------------------------------------------------------------------
\* Discipline is inductive: relative to the types, each action keeps it.

\* What run_serialized does by itself.
LEMMA DisciplineOfSteps ==
  ASSUME TypeOK, TypeOK', Discipline, NEW j \in Invocations, Step(j)
  PROVE  Discipline'
<1> USE ConstantsAssumption DEF TypeOK, Discipline, LockDiscipline, AtWork, AppliedOnItsPlan,
        UnwrittenSinceRead, DeletesAreReleases, InsertsOnTheirWay, GivenBack,
        UncertaintyKeepsLock, Uncertain, Reported, Request, Ops
\* A new insert carries the latest attempt number, and nothing has been answered to it.
<1>1. CASE SendPut(j)
  <2>1. LockDiscipline' /\ AppliedOnItsPlan' /\ UncertaintyKeepsLock' /\ GivenBack'
    BY <1>1 DEF SendPut, Send, service
  <2>2. DeletesAreReleases'
    BY <1>1 DEF SendPut, Send, service
  <2>3. ASSUME NEW r \in net', r.op = "put"
        PROVE  /\ r.attempt <= sent'[r.owner]["put"]
               /\ pc'[r.owner] = "acquire" /\ answer'[r.owner] # "none"
                    => r.attempt < sent'[r.owner]["put"]
               /\ \/ pc'[r.owner] \in {"read", "execute", "command", "settle", "release"}
                  \/ outcome'[r.owner] \in Reported
                  => sent'[r.owner]["put"] > 1
    <3>1. CASE r \in net
      BY <1>1, <2>3, <3>1 DEF SendPut, Send, service
    <3>2. CASE r = [op |-> "put", owner |-> j, attempt |-> sent[j]["put"] + 1]
      BY <1>1, <2>3, <3>2 DEF SendPut, Send, service
    <3> QED
      BY <1>1, <3>1, <3>2 DEF SendPut, Send
  <2> QED
    BY <2>1, <2>2, <2>3
\* A delete is sent from "release" only, where nothing is at work and no report is uncertain.
<1>2. CASE SendDelete(j)
  <2>1. LockDiscipline' /\ AppliedOnItsPlan' /\ UncertaintyKeepsLock' /\ GivenBack'
    BY <1>2 DEF SendDelete, Send, service
  <2>2. InsertsOnTheirWay'
    BY <1>2 DEF SendDelete, Send, service
  <2>3. ASSUME NEW r \in net', r.op = "delete"
        PROVE  /\ pc'[r.owner] \in {"release", "done"}
               /\ writers'[r.owner] = {}
               /\ outcome'[r.owner] \notin Uncertain
    <3>1. CASE r \in net
      BY <1>2, <2>3, <3>1 DEF SendDelete, Send, service
    <3>2. CASE r = [op |-> "delete", owner |-> j, attempt |-> sent[j]["delete"] + 1]
      BY <1>2, <2>3, <3>2 DEF SendDelete, Send, service
    <3> QED
      BY <1>2, <3>1, <3>2 DEF SendDelete, Send
  <2> QED
    BY <2>1, <2>2, <2>3
<1>3. CASE Acquired(j)
  BY <1>3 DEF Acquired, Goto, Waited, service
<1>4. CASE LockBusy(j)
  BY <1>4 DEF LockBusy, End, Waited, service
<1>5. CASE AcquireFails(j)
  BY <1>5 DEF AcquireFails, End, Waited, service
<1>6. CASE ReadRevision(j)
  BY <1>6 DEF ReadRevision, Goto, service
<1>7. CASE RefuseStale(j)
  BY <1>7 DEF RefuseStale, GiveBack, Goto, service
<1>8. CASE TargetUnknown(j)
  BY <1>8 DEF TargetUnknown, GiveBack, Goto, service
<1>9. CASE Execute(j)
  BY <1>9 DEF Execute, Goto
<1>10. CASE ExecutionFails(j)
  BY <1>10 DEF ExecutionFails, End, Waited, service
<1>11. CASE CommandFails(j)
  BY <1>11 DEF CommandFails, End, Waited, service
<1>12. CASE CommandSucceeds(j)
  BY <1>12 DEF CommandSucceeds, Goto
<1>13. CASE Settled(j)
  BY <1>13 DEF Settled, GiveBack, Goto, service
<1>14. CASE SettleFails(j)
  BY <1>14 DEF SettleFails, End, Waited, service
<1>15. CASE Released(j)
  BY <1>15 DEF Released, Goto, Waited, service
<1>16. CASE ReleaseFails(j)
  BY <1>16 DEF ReleaseFails, End, Waited, service
<1> QED
  BY <1>1, <1>2, <1>3, <1>4, <1>5, <1>6, <1>7, <1>8, <1>9, <1>10, <1>11, <1>12, <1>13, <1>14, <1>15, <1>16 DEF Step

\* Who calls, and who kills, `ecsc serialize`.
LEMMA DisciplineOfCallers ==
  ASSUME TypeOK, TypeOK', Discipline, NEW j \in Invocations, Caller(j)
  PROVE  Discipline'
<1> USE ConstantsAssumption DEF TypeOK, Discipline, LockDiscipline, AtWork, AppliedOnItsPlan,
        UnwrittenSinceRead, DeletesAreReleases, InsertsOnTheirWay, GivenBack,
        UncertaintyKeepsLock, Uncertain, Reported, Request, Ops
<1>1. CASE SavePlan(j)
  BY <1>1 DEF SavePlan, Goto, service
<1>2. CASE Launch(j)
  BY <1>2 DEF Launch, service
<1>3. CASE RefuseArguments(j)
  BY <1>3 DEF RefuseArguments, End, Waited, service
<1>4. CASE Interrupted(j)
  BY <1>4 DEF Interrupted, End, Waited, service
<1> QED
  BY <1>1, <1>2, <1>3, <1>4 DEF Caller

\* What a command started, and the operator: a write needs the lock, so it disturbs nobody else's plan.
LEMMA DisciplineOfDeployments ==
  ASSUME TypeOK, TypeOK', Discipline, NEW j \in Invocations, Deployment(j) \/ Recover(j)
  PROVE  Discipline'
<1> USE ConstantsAssumption DEF TypeOK, Discipline, LockDiscipline, AtWork, AppliedOnItsPlan,
        UnwrittenSinceRead, DeletesAreReleases, InsertsOnTheirWay, GivenBack,
        UncertaintyKeepsLock, Uncertain, Reported, Request, Ops
<1>1. CASE CommandWrites(j)
  BY <1>1 DEF CommandWrites, client
<1>2. CASE RolloutEnds(j)
  BY <1>2 DEF RolloutEnds, client
<1>3. CASE OrphanEnds(j)
  BY <1>3 DEF OrphanEnds, client
<1>4. CASE Recover(j)
  BY <1>4 DEF Recover, service, client
<1> QED
  BY <1>1, <1>2, <1>3, <1>4 DEF Deployment

\* The table: an insert changes the lock only where there is none, a delete only that of its
\* owner, which has nothing at work.
LEMMA DisciplineOfTable ==
  ASSUME TypeOK, TypeOK', Discipline, NEW q \in net, Table(q)
  PROVE  Discipline'
<1> USE ConstantsAssumption DEF TypeOK, Discipline, LockDiscipline, AtWork, AppliedOnItsPlan,
        UnwrittenSinceRead, DeletesAreReleases, InsertsOnTheirWay, GivenBack,
        UncertaintyKeepsLock, Uncertain, Reported, Request, Ops
<1>1. CASE ServePut(q)
  <2>1. LockDiscipline'
    BY <1>1 DEF ServePut, Reply, Awaited, service
  <2>2. AppliedOnItsPlan'
    BY <1>1 DEF ServePut, Reply, Awaited, service
  <2>3. DeletesAreReleases'
    BY <1>1 DEF ServePut, Reply, Awaited, service
  <2>4. ASSUME NEW r \in net', r.op = "put"
        PROVE  /\ r.attempt <= sent'[r.owner]["put"]
               /\ pc'[r.owner] = "acquire" /\ answer'[r.owner] # "none"
                    => r.attempt < sent'[r.owner]["put"]
               /\ \/ pc'[r.owner] \in {"read", "execute", "command", "settle", "release"}
                  \/ outcome'[r.owner] \in Reported
                  => sent'[r.owner]["put"] > 1
    <3>1. r \in net /\ r # q /\ sent' = sent /\ pc' = pc /\ outcome' = outcome
      BY <1>1 DEF ServePut
    <3>2. r.owner = q.owner => r.attempt # q.attempt
      BY <1>1, <2>4, <3>1 DEF ServePut
    <3>3. CASE answer'[r.owner] = answer[r.owner]
      BY <2>4, <3>1, <3>3
    <3>4. CASE answer'[r.owner] # answer[r.owner]
      <4>1. /\ r.owner = q.owner
            /\ sent[q.owner]["put"] = q.attempt
            /\ pc[q.owner] = "acquire"
        BY <1>1, <2>4, <3>1, <3>4 DEF ServePut, Reply, Awaited
      <4>2. r.attempt < sent[r.owner]["put"]
        <5>1. /\ sent[r.owner]["put"] \in Nat
              /\ r.attempt \in Nat
              /\ r.attempt <= sent[r.owner]["put"]
          BY <2>4, <3>1
        <5>2. r.attempt # sent[r.owner]["put"]
          <6>1. sent[r.owner]["put"] = q.attempt
            BY ONLY <4>1
          <6> QED
            BY ONLY <3>2, <4>1, <6>1
        <5> QED
          BY ONLY <5>1, <5>2
      <4>3. outcome[r.owner] = "none"
        BY <3>1, <4>1
      <4> QED
        BY <2>4, <3>1, <4>1, <4>2, <4>3
    <3> QED
      BY <3>3, <3>4
  <2>5. GivenBack'
    BY <1>1 DEF ServePut, Reply, Awaited, service
  <2>6. UncertaintyKeepsLock'
    BY <1>1 DEF ServePut, Reply, Awaited, service
  <2> QED
    BY <2>1, <2>2, <2>3, <2>4, <2>5, <2>6
<1>2. CASE ServeDelete(q)
  <2>1. LockDiscipline'
    BY <1>2 DEF ServeDelete, Reply, Awaited, service
  <2>2. AppliedOnItsPlan'
    BY <1>2 DEF ServeDelete, Reply, Awaited, service
  <2>3. DeletesAreReleases'
    BY <1>2 DEF ServeDelete, Reply, Awaited, service
  <2>4. InsertsOnTheirWay'
    BY <1>2 DEF ServeDelete, Reply, Awaited, service
  <2>5. GivenBack'
    BY <1>2 DEF ServeDelete, Reply, Awaited, service
  <2>6. UncertaintyKeepsLock'
    BY <1>2 DEF ServeDelete, Reply, Awaited, service
  <2> QED
    BY <2>1, <2>2, <2>3, <2>4, <2>5, <2>6
<1>3. CASE LoseRequest(q)
  BY <1>3 DEF LoseRequest, service, client
<1> QED
  BY <1>1, <1>2, <1>3 DEF Table

\* Discipline holds in every reachable state.
THEOREM DisciplineHolds == Spec => []Discipline
<1>1. Init => Discipline
  BY DEF Init, Discipline, LockDiscipline, AtWork, AppliedOnItsPlan, UnwrittenSinceRead,
         DeletesAreReleases, InsertsOnTheirWay, GivenBack, UncertaintyKeepsLock, Uncertain, Reported
<1>2. TypeOK /\ TypeOK' /\ Discipline /\ [Next]_vars => Discipline'
  <2> SUFFICES ASSUME TypeOK, TypeOK', Discipline, [Next]_vars PROVE Discipline'
    OBVIOUS
  <2>1. CASE UNCHANGED vars
    BY <2>1 DEF vars, Discipline, LockDiscipline, AtWork, AppliedOnItsPlan, UnwrittenSinceRead,
                DeletesAreReleases, InsertsOnTheirWay, GivenBack, UncertaintyKeepsLock
  <2> QED
    BY <2>1, DisciplineOfSteps, DisciplineOfCallers, DisciplineOfDeployments, DisciplineOfTable
    DEF Next
<1> QED
  BY <1>1, <1>2, TypeCorrect, PTL DEF Spec

-------------------------------------------------------------------------------
\* Mutual exclusion of what changes the service, for any number of invocations: whoever is
\* at work owns the lock, so two are never at work at once.
THEOREM WorkIsExclusive ==
  Spec => []/\ WorkHoldsLock
            /\ \A i, j \in Invocations : AtWork(i) /\ AtWork(j) => i = j
<1>1. Discipline => /\ WorkHoldsLock
                    /\ \A i, j \in Invocations : AtWork(i) /\ AtWork(j) => i = j
  BY DEF Discipline, LockDiscipline, WorkHoldsLock
<1> QED
  BY <1>1, DisciplineHolds, PTL

\* No command starts to write on top of a revision that its plan was not made from.
THEOREM PlansAreCurrent == Spec => []AppliedOnItsPlan
<1>1. Discipline => AppliedOnItsPlan
  BY DEF Discipline
<1> QED
  BY <1>1, DisciplineHolds, PTL

\* A report that the lock was given back is true, retried inserts apart.
THEOREM ReportsAreTrue == Spec => []ReleaseReportedTruly
<1>1. Discipline => ReleaseReportedTruly
  BY DEF Discipline, GivenBack, ReleaseReportedTruly
<1> QED
  BY <1>1, DisciplineHolds, PTL

\* Every uncertain end keeps the lock until the operator removes it.
THEOREM UncertainEndsKeepTheLock == Spec => []UncertaintyKeepsLock
<1>1. Discipline => UncertaintyKeepsLock
  BY DEF Discipline
<1> QED
  BY <1>1, DisciplineHolds, PTL

\* Only its owner's delete or the operator ever removes a lock item.
THEOREM NoTakeover == Spec => OnlyOwnerOrOperatorClears
<1> DEFINE Cleared == \A i \in Invocations : lock = i /\ lock' # i =>
                        /\ lock' = None
                        /\ \/ \E r \in net \ net' : r.op = "delete" /\ r.owner = i
                           \/ recovered'[i] /\ net' = net
<1>1. TypeOK /\ [Next]_vars => [Cleared]_vars
  <2> SUFFICES ASSUME TypeOK, Next PROVE Cleared
    BY DEF vars
  <2> USE ConstantsAssumption DEF TypeOK
  <2>1. ASSUME NEW j \in Invocations, Step(j) \/ Caller(j) \/ Deployment(j) PROVE lock' = lock
    BY <2>1 DEF Step, SendPut, Send, Acquired, LockBusy, AcquireFails, ReadRevision, RefuseStale,
        TargetUnknown, Execute, ExecutionFails, CommandFails, CommandSucceeds, Settled, SettleFails,
        SendDelete, Released, ReleaseFails, GiveBack, End, Caller, SavePlan, Launch,
        RefuseArguments, Interrupted, Deployment, CommandWrites, RolloutEnds, OrphanEnds
  <2>2. ASSUME NEW j \in Invocations, Recover(j) PROVE Cleared
    BY <2>2 DEF Recover
  <2>3. ASSUME NEW q \in net, Table(q) PROVE Cleared
    BY <2>3 DEF Table, ServePut, ServeDelete, LoseRequest
  <2> QED
    BY <2>1, <2>2, <2>3 DEF Next
<1> QED
  BY <1>1, TypeCorrect, PTL DEF Spec, OnlyOwnerOrOperatorClears
==============================================================================
