---------------------- MODULE SerializationImplements ----------------------
(***************************************************************************)
(* The lock protocol of Serialization implements deployment in turns: each *)
(* of its steps is a step of DeploymentTurn or leaves the turns alone.     *)
(***************************************************************************)
EXTENDS SerializationProofs

\* What defines Turn: under the discipline of the lock at most one is at work, its owner.
TurnFact == /\ Turn \in Invocations \cup {None}
            /\ \A i \in Invocations : AtWork(i) <=> Turn = i

\* The discipline makes Turn the invocation at work.
LEMMA TurnIsWork == Discipline => TurnFact
<1> SUFFICES ASSUME Discipline PROVE TurnFact
  OBVIOUS
<1>1. CASE \E i \in Invocations : AtWork(i)
  <2>1. Turn \in Invocations /\ AtWork(Turn)
    BY <1>1 DEF Turn
  <2>2. \A i \in Invocations : AtWork(i) => lock = i
    BY DEF Discipline, LockDiscipline
  <2> QED
    BY <2>1, <2>2 DEF TurnFact
<1>2. CASE \A i \in Invocations : ~AtWork(i)
  <2>1. Turn = None
    BY <1>2 DEF Turn
  <2> QED
    BY <1>2, <2>1, ConstantsAssumption DEF TurnFact
<1> QED
  BY <1>1, <1>2

\* A step of one invocation that reads no revision and makes no plan: if the invocation is at
\* work the step changes the service or ends the turn, and if not it does neither.
LEMMA WorkStep ==
  ASSUME TurnFact, TurnFact', live' \in Revisions, NEW i \in Invocations,
         UNCHANGED <<plan, seen>>,
         \A k \in Invocations \ {i} : AtWork(k)' <=> AtWork(k),
         AtWork(i) \/ (live' = live /\ ~AtWork(i)')
  PROVE  [Turns!Next]_Turns!turnVars
<1>1. CASE AtWork(i) /\ AtWork(i)'
  <2>1. Turns!Change(i)
    BY <1>1 DEF TurnFact, Turns!Change
  <2> QED
    BY <2>1 DEF Turns!Next
<1>2. CASE AtWork(i) /\ ~AtWork(i)'
  <2>1. Turn = i /\ Turn' = None
    BY <1>2 DEF TurnFact
  <2>2. Turns!Finish(i)
    BY <2>1 DEF Turns!Finish
  <2> QED
    BY <2>2 DEF Turns!Next
<1>3. CASE ~AtWork(i) /\ ~AtWork(i)' /\ live' = live
  <2>1. Turn' = Turn
    BY <1>3 DEF TurnFact
  <2> QED
    BY <1>3, <2>1 DEF Turns!turnVars
<1> QED
  BY <1>1, <1>2, <1>3

\* The steps that take a turn, and the others.
LEMMA TurnStep ==
  ASSUME TypeOK, TypeOK', Discipline, TurnFact, TurnFact', [Next]_vars
  PROVE  [Turns!Next]_Turns!turnVars
<1> USE DEF TypeOK, AtWork
<1>0. live' \in Revisions
  OBVIOUS
<1>1. ASSUME NEW i \in Invocations, SavePlan(i) PROVE [Turns!Next]_Turns!turnVars
  <2>1. plan[i] = None
    BY <1>1 DEF SavePlan, Goto, Discipline, LockDiscipline
  <2>2. \A k \in Invocations : AtWork(k)' <=> AtWork(k)
    BY <1>1 DEF SavePlan, Goto, service
  <2>3. Turn' = Turn
    BY <2>2 DEF TurnFact
  <2>4. Turns!Plan(i)
    BY <1>1, <2>1, <2>3 DEF SavePlan, service, Turns!Plan
  <2> QED
    BY <2>4 DEF Turns!Next
\* The reader owns the lock, so nobody else is at work; and it has not begun.
<1>2. ASSUME NEW i \in Invocations, ReadRevision(i) PROVE [Turns!Next]_Turns!turnVars
  <2>1. \A k \in Invocations : ~AtWork(k)
    BY <1>2 DEF ReadRevision, Goto, Discipline, LockDiscipline
  <2>2. Turn = None /\ Turn' = i
    BY <1>2, <2>1 DEF TurnFact, ReadRevision, Goto
  <2>3. Turns!Begin(i)
    BY <1>2, <2>2 DEF ReadRevision, service, Turns!Begin
  <2> QED
    BY <2>3 DEF Turns!Next
<1>3. ASSUME NEW i \in Invocations, RefuseStale(i) PROVE [Turns!Next]_Turns!turnVars
  <2>1. \A k \in Invocations : AtWork(k)' <=> AtWork(k)
    BY <1>3 DEF RefuseStale, GiveBack, Goto, service
  <2>2. Turn' = Turn
    BY <2>1 DEF TurnFact
  <2>3. Turns!Look(i)
    BY <1>3, <2>2 DEF RefuseStale, GiveBack, service, Turns!Look
  <2> QED
    BY <2>3 DEF Turns!Next
<1>4. ASSUME NEW i \in Invocations,
             \/ SendPut(i) \/ Acquired(i) \/ LockBusy(i) \/ AcquireFails(i) \/ TargetUnknown(i)
             \/ SendDelete(i) \/ Released(i) \/ ReleaseFails(i) \/ Launch(i) \/ RefuseArguments(i)
             \/ Recover(i)
      PROVE  [Turns!Next]_Turns!turnVars
  <2>1. UNCHANGED <<plan, seen, live>> /\ \A k \in Invocations : AtWork(k)' <=> AtWork(k)
    BY <1>4 DEF SendPut, SendDelete, Send, Acquired, LockBusy, AcquireFails, TargetUnknown,
        GiveBack, Released, ReleaseFails, Launch, RefuseArguments, Recover, End, Goto, service, client
  <2> QED
    BY <1>0, <2>1, WorkStep
<1>5. ASSUME NEW i \in Invocations,
             \/ Execute(i) \/ ExecutionFails(i) \/ CommandFails(i) \/ CommandSucceeds(i)
             \/ Settled(i) \/ SettleFails(i) \/ CommandWrites(i) \/ RolloutEnds(i) \/ OrphanEnds(i)
      PROVE  [Turns!Next]_Turns!turnVars
  <2>1. AtWork(i) /\ UNCHANGED <<plan, seen>>
    BY <1>5 DEF Execute, ExecutionFails, CommandFails, CommandSucceeds, Settled, SettleFails,
        CommandWrites, RolloutEnds, OrphanEnds, GiveBack, End, Goto
  <2>2. \A k \in Invocations \ {i} : AtWork(k)' <=> AtWork(k)
    BY <1>5 DEF Execute, ExecutionFails, CommandFails, CommandSucceeds, Settled, SettleFails,
        CommandWrites, RolloutEnds, OrphanEnds, GiveBack, End, Goto, service, client
  <2> QED
    BY <1>0, <2>1, <2>2, WorkStep
<1>6. ASSUME NEW i \in Invocations, Interrupted(i) PROVE [Turns!Next]_Turns!turnVars
  <2>1. UNCHANGED <<plan, seen, live>> /\ (AtWork(i) \/ ~AtWork(i)')
    BY <1>6 DEF Interrupted, End, service
  <2>2. \A k \in Invocations \ {i} : AtWork(k)' <=> AtWork(k)
    BY <1>6 DEF Interrupted, End, service
  <2> QED
    BY <1>0, <2>1, <2>2, WorkStep
<1>7. ASSUME NEW q \in net, Table(q) PROVE [Turns!Next]_Turns!turnVars
  <2>1. UNCHANGED <<plan, seen, live>> /\ \A k \in Invocations : AtWork(k)' <=> AtWork(k)
    BY <1>7 DEF Table, ServePut, ServeDelete, LoseRequest, service, client
  <2>2. Turn' = Turn
    BY <2>1 DEF TurnFact
  <2> QED
    BY <2>1, <2>2 DEF Turns!turnVars
<1>8. CASE UNCHANGED vars
  <2>1. UNCHANGED <<plan, seen, live>> /\ \A k \in Invocations : AtWork(k)' <=> AtWork(k)
    BY <1>8 DEF vars
  <2>2. Turn' = Turn
    BY <2>1 DEF TurnFact
  <2> QED
    BY <2>1, <2>2 DEF Turns!turnVars
<1> QED
  BY <1>1, <1>2, <1>3, <1>4, <1>5, <1>6, <1>7, <1>8
  DEF Next, Step, Caller, Deployment

\* Every behaviour of the lock protocol, whatever is lost, late or killed, is a behaviour of
\* deployment in turns, and so one command at a time changes the service, each from the
\* revision its plan was made from.
THEOREM SerializationImplementsTurns == Spec => ImplementsTurns
<1>1. Init => Turns!Init
  <2> SUFFICES ASSUME Init PROVE Turns!Init
    OBVIOUS
  <2>1. Turn = None
    BY DEF Init, Turn, AtWork
  <2> QED
    BY <2>1 DEF Init, Turns!Init
<1>2. TypeOK /\ TypeOK' /\ Discipline /\ TurnFact /\ TurnFact' /\ [Next]_vars
        => [Turns!Next]_Turns!turnVars
  BY TurnStep
<1> QED
  BY <1>1, <1>2, TurnIsWork, TypeCorrect, DisciplineHolds, PTL
  DEF Spec, ImplementsTurns, Turns!Spec
=============================================================================
