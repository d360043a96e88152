----------------------------- MODULE SmokeProofs -----------------------------
(***************************************************************************)
(* Theorems about Smoke, for any scope of resources.                       *)
(***************************************************************************)
EXTENDS Smoke, TLAPS

\* The machine that is about to be stopped is running, so never somebody else's; and a container
\* under removal has been inspected, and nobody else has got the name since.
OnlyOwnGoes == /\ stopping => vm = "running"
               /\ at = "remove" => container # "foreign"

\* A demonstration starts its vault until it stops it, and one that has not come to its launch has
\* no container, and none is on its way.
Started == Starting \cup {"up", "raised"}
NoLaunch == container # "own" /\ ~launching /\ at \in {"check", "raised"}
DemoIsKnown ==
  kind = "demo" => /\ place \in {"start", "vault", "ended", "killed"}
                   /\ place = "start" => at \in Started /\ (created \/ NoLaunch)

\* What a teardown has dealt with: it is not there, or a call for it or for what must go first has
\* failed.
Gone(r) == \/ aws[r] = "absent"
           \/ r \in Revisions /\ aws[r] = "leaving"
           \/ ({r} \cup Needs[r]) \cap failed # {}

TearsDown == kind \in {"smoke", "teardown"}
Before == {"scale", "delete", "drain", "list", "deregister"}
After == {"vault", "ended"}

\* How far a teardown has come: first the service, then the revisions, then the rest in order, so
\* that what others need goes before them.
ServiceIsGone == TearsDown /\ place \in {"list", "deregister", "calls"} \cup After => Gone("service")
RevisionsAreGone ==
  TearsDown =>
    /\ place = "deregister" => \A r \in Revisions \ listed : aws[r] # "active"
    /\ place \in {"calls"} \cup After => \A r \in Revisions : aws[r] # "active" \/ r \in failed
CalledAreGone ==
  /\ place \in Before => step = 1
  /\ TearsDown /\ place \in {"calls"} \cup After =>
       \A n \in 1..Len(Deleted) : n < step \/ place \in After =>
          \A r \in Deleted[n] \cap Scope : Gone(r)

Progress == TypeOK /\ OnlyOwnGoes /\ DemoIsKnown /\ ServiceIsGone /\ RevisionsAreGone /\ CalledAreGone

-------------------------------------------------------------------------------
\* The vault, which knows nothing of the resources
VaultStep == StartStep \/ StopStep \/ CommandFails \/ LaunchEnds \/ NameTaken \/ Runtime

\* Its steps keep the types of its variables.
LEMMA VaultTypes == ASSUME VaultTypeOK, VaultStep PROVE VaultTypeOK'
<1> USE DEF VaultTypeOK, Starting, Stopping, Goto, Usable, machine
<1>1. CASE StartStep
  BY <1>1 DEF StartStep, StartRefuses, StartGoesOn, Launched, Ready, NotReady
<1>2. CASE StopStep
  BY <1>2 DEF StopStep, StopLooks, StopInspects, StopRemoves, StopConfirms, StopRefuses
<1>3. CASE CommandFails
  BY <1>3 DEF CommandFails, InFlight
<1>4. CASE LaunchEnds \/ NameTaken
  BY <1>4 DEF LaunchEnds, NameTaken
<1>5. CASE Runtime
  BY <1>5 DEF Runtime, RuntimeUp, RuntimeStopLooks, RuntimeStops
<1> QED
  BY <1>1, <1>2, <1>3, <1>4, <1>5 DEF VaultStep

\* A step of the vault removes nobody else's container and stops nobody else's machine; and when
\* it ends a stop well, there is no container of the process.
LEMMA VaultSteps ==
  ASSUME VaultTypeOK, OnlyOwnGoes, VaultStep
  PROVE  /\ OnlyOwnGoes'
         /\ container = "foreign" => container' = "foreign"
         /\ vm = "foreign" => vm' = "foreign"
         /\ at # "clean" /\ at' = "clean" => container' # "own"
         /\ at \in Started => at' \in Started /\ (created => created')
         /\ NoLaunch => created' \/ NoLaunch'
<1> USE DEF Started, NoLaunch, VaultTypeOK, OnlyOwnGoes, Starting, Stopping, Goto, Usable, machine
<1>1. CASE StartStep
  BY <1>1 DEF StartStep, StartRefuses, StartGoesOn, Launched, Ready, NotReady
<1>2. CASE StopStep
  BY <1>2 DEF StopStep, StopLooks, StopInspects, StopRemoves, StopConfirms, StopRefuses
<1>3. CASE CommandFails
  BY <1>3 DEF CommandFails, InFlight
<1>4. CASE LaunchEnds \/ NameTaken
  BY <1>4 DEF LaunchEnds, NameTaken
<1>5. CASE Runtime
  BY <1>5 DEF Runtime, RuntimeUp, RuntimeStopLooks, RuntimeStops
<1> QED
  BY <1>1, <1>2, <1>3, <1>4, <1>5 DEF VaultStep

\* A start or a stop that is given up, by the process or with it.
LEMMA AbortedCommands ==
  ASSUME VaultTypeOK, OnlyOwnGoes, InFlight
  PROVE  /\ container' \in {"none", "own", "foreign"} /\ launching' \in BOOLEAN
         /\ container = "foreign" => container' = "foreign"
BY DEF VaultTypeOK, OnlyOwnGoes, InFlight, Usable

-------------------------------------------------------------------------------
\* The resources

\* The order of creation and of deletion, by number.
LEMMA DeletedAre ==
  /\ Len(Deleted) = 7 /\ Len(Created) = 12
  /\ Deleted[1] = {"cluster"} /\ Deleted[2] = {"db secret"} /\ Deleted[3] = {"config secret"}
  /\ Deleted[4] = {"pointer", "bundle"} /\ Deleted[5] = {"role policy"} /\ Deleted[6] = {"role"}
  /\ Deleted[7] = {"log group"}
  /\ Created[1] = "log group" /\ Created[2] = "db secret" /\ Created[3] = "config secret"
  /\ Created[4] = "pointer" /\ Created[5] = "bundle" /\ Created[6] = "role"
  /\ Created[7] = "role policy" /\ Created[8] = "cluster" /\ Created[9] = "revision 1"
  /\ Created[10] = "service" /\ Created[11] = "revision 2" /\ Created[12] = "revision 3"
BY DEF Deleted, Created

\* Everything that a run creates is the service, a revision, or among what teardown deletes by name.
LEMMA EverythingIsDeleted ==
  ASSUME NEW r \in Scope
  PROVE  r = "service" \/ r \in Revisions \/ \E n \in 1..Len(Deleted) : r \in Deleted[n]
<1>1. r \in {Created[n] : n \in 1..Len(Created)}
  BY SmokeAssumption
<1>2. Len(Created) = 12 /\ Len(Deleted) = 7
  BY DeletedAre
<1>3. PICK n \in 1..Len(Created) : r = Created[n]
  BY <1>1
<1>4. n \in {1, 2, 3, 4, 5, 6, 7, 8, 9, 10, 11, 12}
  BY <1>3, <1>2
<1>5. ASSUME NEW k \in {1, 2, 3, 4, 5, 6, 7}, r \in Deleted[k]
      PROVE  \E m \in 1..Len(Deleted) : r \in Deleted[m]
  BY <1>5, <1>2
<1>6. CASE n \in {1, 2, 3, 4, 5, 6, 7, 8}
  <2>1. \E k \in {1, 2, 3, 4, 5, 6, 7} : r \in Deleted[k]
    BY <1>3, <1>6, DeletedAre
  <2> QED
    BY <1>5, <2>1
<1>7. CASE n \in {9, 10, 11, 12}
  BY <1>3, <1>7, DeletedAre DEF Revisions
<1> QED
  BY <1>4, <1>6, <1>7

\* The cluster and the role are deleted each with a call of its own, and the policies before the role.
LEMMA DeletedAlone ==
  ASSUME NEW n \in 1..Len(Deleted)
  PROVE  /\ "cluster" \in Deleted[n] => Deleted[n] = {"cluster"}
         /\ "role" \in Deleted[n] => n = 6 /\ Deleted[n] = {"role"}
<1>1. Len(Deleted) = 7
  BY DeletedAre
<1>2. n \in {1, 2, 3, 4, 5, 6, 7}
  BY <1>1
<1>3. CASE n = 1
  BY <1>3, DeletedAre
<1>4. CASE n = 2
  BY <1>4, DeletedAre
<1>5. CASE n = 3
  BY <1>5, DeletedAre
<1>6. CASE n = 4
  BY <1>6, DeletedAre
<1>7. CASE n = 5
  BY <1>7, DeletedAre
<1>8. CASE n = 6
  BY <1>8, DeletedAre
<1>9. CASE n = 7
  BY <1>9, DeletedAre
<1> QED
  BY <1>2, <1>3, <1>4, <1>5, <1>6, <1>7, <1>8, <1>9

\* What With sets, and its type.
LEMMA WithIs ==
  ASSUME NEW state, NEW rs
  PROVE  /\ DOMAIN With(state, rs) = Scope
         /\ \A r \in Scope : With(state, rs)[r] = IF r \in rs THEN state ELSE aws[r]
         /\ state \in {"absent", "active", "leaving"}
              /\ aws \in [Scope -> {"absent", "active", "leaving"}] =>
                 With(state, rs) \in [Scope -> {"absent", "active", "leaving"}]
BY DEF With

\* A resource that is gone stays so while its state only moves on and no failure is forgotten.
LEMMA GoneStays ==
  ASSUME NEW r \in Scope, Gone(r), failed \subseteq failed',
         \/ aws'[r] \in {aws[r], "absent"}
         \/ r \in Revisions /\ aws'[r] = "leaving"
  PROVE  Gone(r)'
BY DEF Gone

\* A call that AWS refuses for something that must go first is one for the cluster or the role,
\* and a call for that something has failed before.
LEMMA RefusedForAFailure ==
  ASSUME TypeOK, ServiceIsGone, CalledAreGone, TearsDown, place = "calls", step \in 1..Len(Deleted),
         Refused(Calls[step])
  PROVE  \A r \in Calls[step] : Gone(r)
<1>1. Calls[step] = Deleted[step] \cap Scope
  BY DEF Calls
<1>2. PICK r \in Calls[step] : \E n \in Needs[r] : aws[n] # "absent"
  BY DEF Refused
<1>3. PICK n \in Needs[r] : aws[n] # "absent"
  BY <1>2
<1>4. r \in Scope
  BY <1>1
<1>5. CASE r = "cluster"
  <2>1. n = "service" /\ n \in Scope
    BY <1>3, <1>4, <1>5, SmokeAssumption DEF Needs
  <2>2. n \in failed
    BY <1>3, <2>1 DEF ServiceIsGone, Gone, Needs, Revisions
  <2>3. \A q \in Deleted[step] : q = r
    BY <1>1, <1>5, DeletedAlone
  <2> QED
    BY <1>1, <1>3, <2>2, <2>3 DEF Gone
<1>6. CASE r = "role"
  <2>1. n = "role policy" /\ n \in Scope
    BY <1>3, <1>4, <1>6, SmokeAssumption DEF Needs
  <2>2. step = 6 /\ Deleted[step] = {r}
    BY <1>1, <1>6, DeletedAlone
  <2>3. 5 \in 1..Len(Deleted) /\ Deleted[5] = {"role policy"}
    <3>1. 1..Len(Deleted) = 1..7 /\ Deleted[5] = {"role policy"}
      BY DeletedAre
    <3>2. 5 \in 1..7
      OBVIOUS
    <3> QED
      BY <3>1, <3>2, Zenon
  <2>4. Gone(n)
    <3>1. n \in Deleted[5] \cap Scope
      BY <2>1, <2>3
    <3>2. 5 < step
      BY <2>2
    <3> QED
      BY <2>3, <3>1, <3>2 DEF CalledAreGone
  <2>5. n \in failed
    BY <1>3, <2>1, <2>4 DEF Gone, Needs, Revisions
  <2> QED
    BY <1>1, <1>3, <2>2, <2>5 DEF Gone
<1> QED
  BY <1>3, <1>4, <1>5, <1>6 DEF Needs

\* A step that leaves the teardown where it is disturbs nothing that it has done.
LEMMA TeardownStays ==
  ASSUME TypeOK, ServiceIsGone, RevisionsAreGone, CalledAreGone,
         UNCHANGED <<kind, place, step, listed>>, failed \subseteq failed',
         \A r \in Scope : \/ aws'[r] \in {aws[r], "absent"}
                          \/ r \in Revisions /\ aws'[r] = "leaving"
  PROVE  ServiceIsGone' /\ RevisionsAreGone' /\ CalledAreGone'
<1>1. \A r \in Scope : Gone(r) => Gone(r)'
  BY GoneStays
<1>2. ServiceIsGone'
  BY <1>1, SmokeAssumption DEF ServiceIsGone, TearsDown
<1>3. RevisionsAreGone'
  BY DEF RevisionsAreGone, TearsDown, Revisions
<1>4. CalledAreGone'
  BY <1>1 DEF CalledAreGone, TearsDown
<1> QED
  BY <1>2, <1>3, <1>4

\* The steps of the vault disturb neither the resources nor the order of the teardown.
LEMMA VaultStepsProgress ==
  ASSUME Progress, VaultStep, UNCHANGED <<kind, place, step, cloud>>
  PROVE  Progress'
<1>1. TypeOK /\ VaultTypeOK /\ OnlyOwnGoes
  BY DEF Progress, TypeOK
<1>2. VaultTypeOK'
  BY <1>1, VaultTypes
<1>3. TypeOK'
  BY <1>1, <1>2 DEF TypeOK, cloud
<1>4. OnlyOwnGoes'
  BY <1>1, VaultSteps
<1>5. DemoIsKnown'
  BY <1>1, VaultSteps DEF Progress, DemoIsKnown
<1>6. ServiceIsGone' /\ RevisionsAreGone' /\ CalledAreGone'
  BY TeardownStays DEF Progress, cloud
<1> QED
  BY <1>3, <1>4, <1>6, <1>5 DEF Progress

\* Every step keeps the invariant, one case for each.
LEMMA ProgressSteps == Progress /\ [Next]_vars => Progress'
<1> SUFFICES ASSUME Progress, [Next]_vars PROVE Progress'
  OBVIOUS
<1> USE DEF machine, local, cloud, Go
<1>1. CASE StartVault \/ VaultFails \/ Machine \/ (StopStep /\ UNCHANGED <<kind, place, step, cloud>>)
  BY <1>1, VaultStepsProgress DEF StartVault, VaultFails, Machine, VaultStep
<1>2. TypeOK /\ VaultTypeOK
  BY DEF Progress, TypeOK
<1>3. CASE VaultUp
  <2>1. /\ place = "start" /\ kind # "demo" /\ place' = "build"
        /\ UNCHANGED <<local, kind, step, cloud>>
    BY <1>3 DEF VaultUp
  <2> QED
    BY <1>2, <2>1 DEF Progress, TypeOK, VaultTypeOK, OnlyOwnGoes, DemoIsKnown, ServiceIsGone,
       RevisionsAreGone, CalledAreGone, Before, After
<1>4. CASE Create \/ CreatesUnanswered
  <2>1. /\ place = "build" /\ step <= Len(Created) /\ step' \in {step + 1, Len(Created) + 1}
        /\ aws' = With("active", {Created[step]}) /\ UNCHANGED <<local, kind, place, listed, failed>>
    BY <1>4 DEF Create, CreatesUnanswered
  <2>2. /\ aws' \in [Scope -> {"absent", "active", "leaving"}]
        /\ \A r \in Scope : aws'[r] \in {aws[r], "active"}
    BY <1>2, <2>1, WithIs DEF TypeOK
  <2>3. step' \in 1..Len(Created) + 1
    <3>1. Len(Created) = 12 /\ step \in 1..Len(Created) + 1
      BY <1>2, DeletedAre DEF TypeOK
    <3> QED
      BY <2>1, <3>1
  <2>4. VaultTypeOK' /\ OnlyOwnGoes' /\ DemoIsKnown'
    BY <1>2, <2>1 DEF Progress, VaultTypeOK, OnlyOwnGoes, DemoIsKnown, Started, NoLaunch
  <2>5. TypeOK'
    BY <1>2, <2>1, <2>2, <2>3, <2>4 DEF TypeOK
  <2> QED
    BY <2>1, <2>4, <2>5 DEF Progress, ServiceIsGone, RevisionsAreGone, CalledAreGone, Before, After
<1>5. CASE EndRun
  <2>1. /\ place \in {"start", "build"} /\ step' = 1
        /\ \/ kind = "smoke" /\ place' = "scale" /\ UNCHANGED at
           \/ kind = "keep" /\ place' = "ended" /\ UNCHANGED at
           \/ kind = "demo" /\ place' = "vault" /\ at' \in {"verify", "clean"}
        /\ UNCHANGED <<machine, container, launching, created, kind, cloud>>
    BY <1>5 DEF EndRun, RunOver, StopCalled
  <2>2. VaultTypeOK' /\ OnlyOwnGoes' /\ DemoIsKnown'
    BY <1>2, <2>1 DEF Progress, VaultTypeOK, OnlyOwnGoes, DemoIsKnown, Started, NoLaunch, Stopping
  <2>3. step' \in 1..Len(Created) + 1
    <3>1. Len(Created) = 12
      BY DeletedAre
    <3> QED
      BY <2>1, <3>1
  <2>4. TypeOK'
    BY <1>2, <2>1, <2>2, <2>3 DEF TypeOK
  <2> QED
    BY <2>1, <2>2, <2>4 DEF Progress, ServiceIsGone, RevisionsAreGone, CalledAreGone, TearsDown,
       Before, After

\* The teardown: what a step of it leaves alone.
<1>6. ASSUME place \in Before \cup {"calls"}, UNCHANGED <<local, kind>>
      PROVE  VaultTypeOK' /\ OnlyOwnGoes' /\ DemoIsKnown'
  BY <1>2, <1>6 DEF Progress, VaultTypeOK, OnlyOwnGoes, DemoIsKnown, Started, NoLaunch, Before
<1>7. ASSUME place \in {"list", "deregister", "calls"} \cup After, UNCHANGED kind,
             failed \subseteq failed', \A r \in Scope : Gone(r) => Gone(r)'
      PROVE  ServiceIsGone'
  BY <1>7, SmokeAssumption DEF Progress, ServiceIsGone, TearsDown
<1>8. ASSUME place \in Before, place' \in Before \cup {"calls"}, UNCHANGED step
      PROVE  CalledAreGone'
  <2>1. step' = 1
    BY <1>8 DEF Progress, CalledAreGone
  <2> QED
    BY <1>8, <2>1 DEF CalledAreGone, Before, After
<1>9. CASE Scale
  <2>1. /\ place = "scale" /\ place' = IF aws["service"] = "active" THEN "delete" ELSE "list"
        /\ failed' = IF aws["service"] = "leaving" THEN failed \cup {"service"} ELSE failed
        /\ UNCHANGED <<local, kind, step, aws, listed>>
    BY <1>9 DEF Scale
  <2>2. VaultTypeOK' /\ OnlyOwnGoes' /\ DemoIsKnown' /\ CalledAreGone'
    BY <1>6, <1>8, <2>1 DEF Before
  <2>3. TypeOK'
    BY <1>2, <2>1, <2>2, SmokeAssumption DEF TypeOK
  <2>4. place' = "list" => aws["service"] \in {"absent", "leaving"}
    BY <1>2, <2>1, SmokeAssumption DEF TypeOK
  <2>5. ServiceIsGone' /\ RevisionsAreGone'
    BY <2>1, <2>4 DEF ServiceIsGone, Gone, RevisionsAreGone, After
  <2> QED
    BY <2>2, <2>3, <2>5 DEF Progress
<1>10. CASE DeleteService
  <2>1. /\ place = "delete" /\ place' = "drain" /\ aws' = With("leaving", {"service"})
        /\ UNCHANGED <<local, kind, step, listed, failed>>
    BY <1>10 DEF DeleteService
  <2>2. VaultTypeOK' /\ OnlyOwnGoes' /\ DemoIsKnown' /\ CalledAreGone'
    BY <1>6, <1>8, <2>1 DEF Before
  <2>3. TypeOK'
    BY <1>2, <2>1, <2>2, WithIs DEF TypeOK
  <2>4. ServiceIsGone' /\ RevisionsAreGone'
    BY <2>1 DEF ServiceIsGone, RevisionsAreGone, After
  <2> QED
    BY <2>2, <2>3, <2>4 DEF Progress
<1>11. CASE ServiceInactive
  <2>1. /\ place = "drain" /\ place' = "list" /\ aws["service"] = "absent"
        /\ UNCHANGED <<local, kind, step, cloud>>
    BY <1>11 DEF ServiceInactive
  <2>2. VaultTypeOK' /\ OnlyOwnGoes' /\ DemoIsKnown' /\ CalledAreGone'
    BY <1>6, <1>8, <2>1 DEF Before
  <2>3. TypeOK'
    BY <1>2, <2>1, <2>2 DEF TypeOK
  <2>4. ServiceIsGone' /\ RevisionsAreGone'
    BY <2>1 DEF ServiceIsGone, Gone, RevisionsAreGone, After
  <2> QED
    BY <2>2, <2>3, <2>4 DEF Progress
<1>12. CASE List
  <2>1. /\ place = "list" /\ listed' = {r \in Revisions : aws[r] = "active"}
        /\ place' \in {"calls", "deregister"}
        /\ place' = "calls" => listed' = {}
        /\ UNCHANGED <<local, kind, step, aws, failed>>
    BY <1>12 DEF List
  <2>2. VaultTypeOK' /\ OnlyOwnGoes' /\ DemoIsKnown' /\ CalledAreGone'
    BY <1>6, <1>8, <2>1 DEF Before
  <2>3. listed' \subseteq Revisions
    BY <2>1
  <2>4. TypeOK'
    BY <1>2, <2>1, <2>2, <2>3 DEF TypeOK
  <2>5. ServiceIsGone'
    BY <1>7, <2>1 DEF Gone
  <2>6. RevisionsAreGone'
    BY <2>1 DEF RevisionsAreGone, After
  <2> QED
    BY <2>2, <2>4, <2>5, <2>6 DEF Progress
<1>13. CASE Deregister
  <2>1. /\ place = "deregister" /\ UNCHANGED <<local, kind, place, step, listed, failed>>
        /\ \E r \in listed : aws' = With("leaving", {r})
    BY <1>13 DEF Deregister
  <2>2. PICK r \in listed : aws' = With("leaving", {r})
    BY <2>1
  <2>3. VaultTypeOK' /\ OnlyOwnGoes' /\ DemoIsKnown'
    BY <1>6, <2>1 DEF Before
  <2>4. TypeOK'
    BY <1>2, <2>1, <2>2, <2>3, WithIs DEF TypeOK
  <2>5. ServiceIsGone' /\ RevisionsAreGone' /\ CalledAreGone'
    BY <1>2, <2>1, <2>2, WithIs, TeardownStays DEF Progress, TypeOK
  <2> QED
    BY <2>3, <2>4, <2>5 DEF Progress
<1>14. CASE DeleteRevisions
  <2>1. /\ place = "deregister" /\ place' = "calls" /\ aws' = With("absent", listed)
        /\ UNCHANGED <<local, kind, step, listed, failed>>
    BY <1>14 DEF DeleteRevisions
  <2>2. VaultTypeOK' /\ OnlyOwnGoes' /\ DemoIsKnown' /\ CalledAreGone'
    BY <1>6, <1>8, <2>1 DEF Before
  <2>3. TypeOK'
    BY <1>2, <2>1, <2>2, WithIs DEF TypeOK
  <2>4. \A r \in Scope : aws'[r] = IF r \in listed THEN "absent" ELSE aws[r]
    BY <2>1, WithIs
  <2>5. ServiceIsGone'
    BY <1>7, <2>1, <2>4, GoneStays
  <2>6. RevisionsAreGone'
    <3>1. Revisions \subseteq Scope /\ RevisionsAreGone
      BY DEF Revisions, Progress
    <3> QED
      BY <2>1, <2>4, <3>1 DEF RevisionsAreGone, TearsDown, After
  <2> QED
    BY <2>2, <2>3, <2>5, <2>6 DEF Progress
<1>15. CASE Call
  <2>1. /\ place = "calls" /\ step <= Len(Deleted) /\ step' = step + 1
        /\ aws' = IF Refused(Calls[step]) THEN aws ELSE With("absent", Calls[step])
        /\ UNCHANGED <<local, kind, place, listed, failed>>
    BY <1>15 DEF Call
  <2>2. VaultTypeOK' /\ OnlyOwnGoes' /\ DemoIsKnown'
    BY <1>6, <2>1
  <2>3. /\ aws' \in [Scope -> {"absent", "active", "leaving"}]
        /\ \A r \in Scope : aws'[r] \in {aws[r], "absent"}
    BY <1>2, <2>1, WithIs DEF TypeOK
  <2>4. step \in 1..Len(Deleted) /\ step' \in 1..Len(Created) + 1
    <3>1. Len(Deleted) = 7 /\ Len(Created) = 12 /\ step \in 1..Len(Created) + 1
      BY <1>2, DeletedAre DEF TypeOK
    <3> QED
      BY <2>1, <3>1
  <2>5. TypeOK'
    BY <1>2, <2>1, <2>2, <2>3, <2>4 DEF TypeOK
  <2>6. \A r \in Scope : Gone(r) => Gone(r)'
    BY <2>1, <2>3, GoneStays
  <2>7. ServiceIsGone' /\ RevisionsAreGone'
    BY <1>7, <2>1, <2>3, <2>6 DEF Progress, RevisionsAreGone, TearsDown, After, Revisions
  <2>8. ASSUME TearsDown PROVE \A r \in Calls[step] : Gone(r)'
    <3>1. CASE Refused(Calls[step])
      BY <1>2, <2>1, <2>4, <2>6, <2>8, <3>1, RefusedForAFailure DEF Progress, Calls
    <3>2. CASE ~Refused(Calls[step])
      BY <2>1, <2>4, <3>2, WithIs DEF Calls, Gone
    <3> QED
      BY <3>1, <3>2
  <2>9. CalledAreGone'
    <3> SUFFICES ASSUME TearsDown, NEW n \in 1..Len(Deleted), n < step + 1,
                        NEW r \in Deleted[n] \cap Scope
                 PROVE  Gone(r)'
      BY <2>1 DEF CalledAreGone, TearsDown, Before, After
    <3>1. CASE n < step
      BY <2>1, <2>6, <3>1 DEF Progress, CalledAreGone
    <3>2. CASE n = step
      BY <2>4, <2>8, <3>2 DEF Calls
    <3> QED
      BY <2>4, <3>1, <3>2
  <2> QED
    BY <2>2, <2>5, <2>7, <2>9 DEF Progress
<1>16. CASE CallFails /\ place \in Before
  <2>1. /\ UNCHANGED <<local, kind, step, listed>>
        /\ \/ /\ place \in {"scale", "delete", "drain"} /\ place' = "list"
              /\ failed' = failed \cup {"service"}
              /\ aws' = aws \/ aws' = With("leaving", {"service"})
           \/ /\ place \in {"list", "deregister"} /\ place' = "calls"
              /\ failed' = failed \cup Revisions
              /\ \/ aws' = aws
                 \/ \E r \in listed : aws' = With("leaving", {r})
                 \/ \E rs \in SUBSET listed : aws' = With("absent", rs)
    BY <1>16 DEF CallFails, Before
  <2>2. VaultTypeOK' /\ OnlyOwnGoes' /\ DemoIsKnown' /\ CalledAreGone'
    BY <1>6, <1>8, <1>16, <2>1 DEF Before
  <2>3. CASE place \in {"scale", "delete", "drain"}
    <3>1. /\ aws' \in [Scope -> {"absent", "active", "leaving"}]
          /\ \A r \in Scope \ {"service"} : aws'[r] = aws[r]
      BY <1>2, <2>1, <2>3, WithIs DEF TypeOK
    <3>2. failed' \subseteq Scope
      <4>1. failed' = failed \cup {"service"}
        BY <2>1, <2>3
      <4> QED
        BY <1>2, <4>1, SmokeAssumption DEF TypeOK
    <3>3. TypeOK'
      BY <1>2, <2>1, <2>2, <2>3, <3>1, <3>2 DEF TypeOK
    <3>4. ServiceIsGone' /\ RevisionsAreGone'
      BY <2>1, <2>3 DEF ServiceIsGone, Gone, RevisionsAreGone, After
    <3> QED
      BY <2>2, <3>3, <3>4 DEF Progress
  <2>4. CASE place \in {"list", "deregister"}
    <3>1. Revisions \subseteq Scope /\ listed \subseteq Revisions
      BY <1>2 DEF Revisions, TypeOK
    <3>2. ASSUME NEW state \in {"leaving", "absent"}, NEW rs \in SUBSET listed, aws' = With(state, rs)
          PROVE  /\ aws' \in [Scope -> {"absent", "active", "leaving"}]
                 /\ \A r \in Scope : \/ aws'[r] \in {aws[r], "absent"}
                                     \/ r \in Revisions /\ aws'[r] = "leaving"
      BY <1>2, <3>1, <3>2, WithIs DEF TypeOK
    <3>3. /\ aws' \in [Scope -> {"absent", "active", "leaving"}]
          /\ \A r \in Scope : \/ aws'[r] \in {aws[r], "absent"}
                              \/ r \in Revisions /\ aws'[r] = "leaving"
      <4>1. CASE aws' = aws
        BY <1>2, <4>1 DEF TypeOK
      <4>2. CASE \E r \in listed : aws' = With("leaving", {r})
        BY <3>2, <4>2
      <4>3. CASE \E rs \in SUBSET listed : aws' = With("absent", rs)
        BY <3>2, <4>3
      <4> QED
        BY <2>1, <2>4, <4>1, <4>2, <4>3
    <3>4. TypeOK'
      BY <1>2, <2>1, <2>2, <2>4, <3>1, <3>3 DEF TypeOK
    <3>5. \A r \in Scope : Gone(r) => Gone(r)'
      BY <2>1, <2>4, <3>3, GoneStays
    <3>6. ServiceIsGone' /\ RevisionsAreGone'
      BY <1>7, <2>1, <2>4, <3>5 DEF RevisionsAreGone, After
    <3> QED
      BY <2>2, <3>4, <3>6 DEF Progress
  <2> QED
    BY <2>1, <2>3, <2>4
<1>17. CASE CallFails /\ place = "calls"
  <2>1. /\ UNCHANGED <<local, kind, place, listed>> /\ step <= Len(Deleted) /\ step' = step + 1
        /\ failed' = failed \cup Calls[step]
        /\ \E rs \in SUBSET Calls[step] : aws' = aws \/ aws' = With("absent", rs)
    BY <1>17 DEF CallFails
  <2>2. VaultTypeOK' /\ OnlyOwnGoes' /\ DemoIsKnown'
    BY <1>6, <1>17, <2>1
  <2>3. /\ aws' \in [Scope -> {"absent", "active", "leaving"}]
        /\ \A r \in Scope : aws'[r] \in {aws[r], "absent"}
    BY <1>2, <2>1, WithIs DEF TypeOK
  <2>4. step \in 1..Len(Deleted) /\ step' \in 1..Len(Created) + 1
    <3>1. Len(Deleted) = 7 /\ Len(Created) = 12 /\ step \in 1..Len(Created) + 1
      BY <1>2, DeletedAre DEF TypeOK
    <3> QED
      BY <2>1, <3>1
  <2>5. Calls[step] = Deleted[step] \cap Scope
    BY <2>4 DEF Calls
  <2>6. TypeOK'
    BY <1>2, <1>17, <2>1, <2>2, <2>3, <2>4, <2>5 DEF TypeOK
  <2>7. \A r \in Scope : Gone(r) => Gone(r)'
    BY <2>1, <2>3, GoneStays
  <2>8. ServiceIsGone' /\ RevisionsAreGone'
    BY <1>7, <1>17, <2>1, <2>3, <2>7 DEF Progress, RevisionsAreGone, TearsDown, After, Revisions
  <2>9. CalledAreGone'
    <3> SUFFICES ASSUME TearsDown, NEW n \in 1..Len(Deleted), n < step + 1,
                        NEW r \in Deleted[n] \cap Scope
                 PROVE  Gone(r)'
      BY <1>17, <2>1 DEF CalledAreGone, TearsDown, Before, After
    <3>1. CASE n < step
      BY <1>17, <2>1, <2>7, <3>1 DEF Progress, CalledAreGone
    <3>2. CASE n = step
      BY <2>1, <2>5, <3>2 DEF Gone
    <3> QED
      BY <2>4, <3>1, <3>2
  <2> QED
    BY <2>2, <2>6, <2>8, <2>9 DEF Progress
<1>18. CASE StopVault
  <2>1. /\ place = "calls" /\ step > Len(Deleted) /\ place' = "vault" /\ at' = "verify"
        /\ UNCHANGED <<machine, container, launching, created, kind, step, cloud>>
    BY <1>18 DEF StopVault, StopCalled
  <2>2. VaultTypeOK' /\ OnlyOwnGoes' /\ DemoIsKnown'
    BY <1>2, <2>1 DEF Progress, VaultTypeOK, OnlyOwnGoes, DemoIsKnown, Stopping
  <2>3. TypeOK'
    BY <1>2, <2>1, <2>2 DEF TypeOK
  <2>4. ServiceIsGone' /\ RevisionsAreGone'
    BY <1>7, <2>1 DEF Progress, RevisionsAreGone, TearsDown, After, Gone
  <2>5. CalledAreGone'
    <3> SUFFICES ASSUME TearsDown, NEW n \in 1..Len(Deleted), NEW r \in Deleted[n] \cap Scope
                 PROVE  Gone(r)'
      BY <2>1 DEF CalledAreGone, TearsDown, Before, After
    <3>1. n < step
      <4>1. Len(Deleted) = 7 /\ step \in 1..Len(Created) + 1 /\ Len(Created) = 12
        BY <1>2, DeletedAre DEF TypeOK
      <4> QED
        BY <2>1, <4>1
    <3>2. Gone(r)
      BY <2>1, <3>1 DEF Progress, CalledAreGone
    <3> QED
      BY <2>1, <3>2 DEF Gone
  <2> QED
    BY <2>2, <2>3, <2>4, <2>5 DEF Progress
<1>19. CASE at \in {"clean", "unclean"} /\ Go("vault", "ended") /\ UNCHANGED <<local, kind, step, cloud>>
  <2>1. VaultTypeOK' /\ OnlyOwnGoes' /\ DemoIsKnown'
    BY <1>2, <1>19 DEF Progress, VaultTypeOK, OnlyOwnGoes, DemoIsKnown
  <2>2. TypeOK'
    BY <1>2, <1>19, <2>1 DEF TypeOK
  <2>3. \A r \in Scope : Gone(r) => Gone(r)'
    BY <1>19 DEF Gone
  <2>4. ServiceIsGone' /\ RevisionsAreGone' /\ CalledAreGone'
    BY <1>7, <1>19, <2>3 DEF Progress, RevisionsAreGone, CalledAreGone, TearsDown, Before, After
  <2> QED
    BY <2>1, <2>2, <2>4 DEF Progress
\* A later teardown starts over and owes nothing to the earlier one.
<1>20. CASE Later
  <2>1. /\ kind' = "teardown" /\ place' = "scale" /\ step' = 1 /\ created' = FALSE /\ at' = "idle"
        /\ listed' = {} /\ failed' = {} /\ UNCHANGED <<machine, container, launching, aws>>
    BY <1>20 DEF Later
  <2>2. VaultTypeOK' /\ OnlyOwnGoes' /\ DemoIsKnown'
    BY <1>2, <2>1 DEF Progress, VaultTypeOK, OnlyOwnGoes, DemoIsKnown
  <2>3. step' \in 1..Len(Created) + 1
    <3>1. Len(Created) = 12
      BY DeletedAre
    <3> QED
      BY <2>1, <3>1
  <2>4. TypeOK'
    BY <1>2, <2>1, <2>2, <2>3 DEF TypeOK
  <2>5. ServiceIsGone' /\ RevisionsAreGone' /\ CalledAreGone'
    BY <2>1 DEF ServiceIsGone, RevisionsAreGone, CalledAreGone, Before, After
  <2> QED
    BY <2>2, <2>4, <2>5 DEF Progress
<1>21. CASE Killed
  <2>1. /\ place' = "killed" /\ at' = "idle" /\ created' = FALSE /\ InFlight
        /\ UNCHANGED <<machine, kind, step, cloud>>
    BY <1>21 DEF Killed
  <2>2. OnlyOwnGoes' /\ DemoIsKnown'
    BY <2>1 DEF Progress, OnlyOwnGoes, DemoIsKnown
  <2>3. container' \in {"none", "own", "foreign"} /\ launching' \in BOOLEAN
    BY <1>2, <2>1, AbortedCommands DEF Progress
  <2>4. VaultTypeOK'
    BY <1>2, <2>1, <2>3 DEF VaultTypeOK
  <2>5. TypeOK'
    BY <1>2, <2>1, <2>4 DEF TypeOK
  <2>6. ServiceIsGone' /\ RevisionsAreGone' /\ CalledAreGone'
    BY <2>1 DEF ServiceIsGone, RevisionsAreGone, CalledAreGone, Before, After
  <2> QED
    BY <2>2, <2>5, <2>6 DEF Progress
<1>22. CASE Drained
  <2>1. /\ aws' = With("absent", {"service"})
        /\ UNCHANGED <<local, kind, place, step, listed, failed>>
    BY <1>22 DEF Drained
  <2>2. VaultTypeOK' /\ OnlyOwnGoes' /\ DemoIsKnown'
    BY <1>2, <2>1 DEF Progress, VaultTypeOK, OnlyOwnGoes, DemoIsKnown, Started, NoLaunch
  <2>3. TypeOK'
    BY <1>2, <2>1, <2>2, WithIs DEF TypeOK
  <2>4. ServiceIsGone' /\ RevisionsAreGone' /\ CalledAreGone'
    BY <1>2, <2>1, WithIs, TeardownStays DEF Progress
  <2> QED
    BY <2>2, <2>3, <2>4 DEF Progress
<1>23. CASE UNCHANGED vars
  <2>1. UNCHANGED <<local, kind, place, step, aws, listed, failed>>
    BY <1>23 DEF vars
  <2>2. VaultTypeOK' /\ OnlyOwnGoes' /\ DemoIsKnown'
    BY <1>2, <2>1 DEF Progress, VaultTypeOK, OnlyOwnGoes, DemoIsKnown, Started, NoLaunch
  <2>3. TypeOK'
    BY <1>2, <2>1, <2>2 DEF TypeOK
  <2>4. ServiceIsGone' /\ RevisionsAreGone' /\ CalledAreGone'
    BY <1>2, <2>1, TeardownStays DEF Progress
  <2> QED
    BY <2>2, <2>3, <2>4 DEF Progress
<1>24. CASE CallFails
  <2>1. place \in Before \cup {"calls"}
    BY <1>24 DEF CallFails, Before
  <2> QED
    BY <1>16, <1>17, <1>24, <2>1
<1>25. CASE Clean
  BY <1>1, <1>19, <1>25 DEF Clean
<1>26. CASE Run
  BY <1>1, <1>3, <1>4, <1>5, <1>26 DEF Run
<1>27. CASE Teardown
  BY <1>9, <1>10, <1>11, <1>12, <1>13, <1>14, <1>15, <1>18, <1>25, <1>27 DEF Teardown
<1> QED
  BY <1>1, <1>20, <1>21, <1>22, <1>23, <1>24, <1>26, <1>27 DEF Next, Process, Disturbance

\* At the start there is nothing in AWS, and of the vault at most somebody else's.
LEMMA ProgressStarts == Init => Progress
<1> SUFFICES ASSUME Init PROVE Progress
  OBVIOUS
<1>1. /\ VaultTypeOK /\ OnlyOwnGoes /\ at = "check" /\ container # "own" /\ ~launching
  BY DEF Init, VaultInit, VaultTypeOK, OnlyOwnGoes, Starting
<1>2. /\ kind \in {"smoke", "keep", "demo"} /\ place = "start" /\ step = 1
      /\ aws = [r \in Scope |-> "absent"] /\ listed = {} /\ failed = {}
  BY DEF Init
<1>3. step \in 1..Len(Created) + 1
  <2>1. Len(Created) = 12
    BY DeletedAre
  <2> QED
    BY <1>2, <2>1
<1>4. TypeOK
  BY <1>1, <1>2, <1>3 DEF TypeOK
<1>5. DemoIsKnown
  BY <1>1, <1>2 DEF DemoIsKnown, Started, Starting, NoLaunch
<1>6. ServiceIsGone /\ RevisionsAreGone /\ CalledAreGone
  BY <1>2 DEF ServiceIsGone, RevisionsAreGone, CalledAreGone, Before, After
<1> QED
  BY <1>1, <1>4, <1>5, <1>6 DEF Progress

\* The invariant of a run and of its teardowns, whatever fails and whoever is killed.
THEOREM ProgressHolds == Spec => []Progress
BY ProgressStarts, ProgressSteps, PTL DEF Spec

\* Every variable keeps its type; no teardown lists anything but the family's revisions.
THEOREM SmokeTypeCorrect == Spec => []TypeOK
<1>1. Progress => TypeOK
  BY DEF Progress
<1> QED
  BY <1>1, ProgressHolds, PTL

\* What a finished teardown of smoke.py leaves are resources for which, or for what must go before
\* them, one of its own calls has failed, and INACTIVE revisions; for any scope.
THEOREM TeardownIsEnough == Spec => []TeardownSuffices
<1>1. Progress => TeardownSuffices
  <2> SUFFICES ASSUME Progress, place = "ended", kind \in {"smoke", "teardown"}, NEW r \in Scope
               PROVE  Gone(r)
    BY DEF TeardownSuffices, Gone
  <2>1. TypeOK /\ TearsDown /\ place \in After
    BY DEF Progress, TearsDown, After
  <2>2. CASE r = "service"
    BY <2>1, <2>2 DEF Progress, ServiceIsGone
  <2>3. CASE r \in Revisions
    BY <2>1, <2>3 DEF Progress, RevisionsAreGone, TypeOK, Gone
  <2>4. CASE \E n \in 1..Len(Deleted) : r \in Deleted[n]
    BY <2>1, <2>4 DEF Progress, CalledAreGone
  <2> QED
    BY <2>2, <2>3, <2>4, EverythingIsDeleted
<1> QED
  BY <1>1, ProgressHolds, PTL

\* What a step does to the vault: it is one of the vault's own, or gives up a command, or calls
\* stop, or leaves the container alone.
LEMMA StepsOfTheVault ==
  ASSUME Progress, [Next]_vars
  PROVE  \/ VaultStep
         \/ UNCHANGED machine /\ InFlight /\ at' = "idle"
         \/ UNCHANGED <<machine, container>> /\ at' \in {at, "idle", "verify"}
         \/ UNCHANGED <<machine, container>> /\ kind = "demo" /\ place = "start" /\ ~created
<1> USE DEF machine, local
<1>1. CASE EndRun
  BY <1>1 DEF EndRun, RunOver, StopCalled, Progress, DemoIsKnown
<1>2. CASE Run
  BY <1>1, <1>2 DEF Run, StartVault, VaultUp, Create, CreatesUnanswered, VaultStep
<1>3. CASE Teardown
  BY <1>3 DEF Teardown, Scale, DeleteService, ServiceInactive, List, Deregister, DeleteRevisions,
     Call, StopVault, StopCalled, Clean, VaultStep
<1>4. CASE Disturbance
  BY <1>4 DEF Disturbance, CallFails, VaultFails, Killed, VaultStep
<1>5. CASE Later \/ Drained \/ Machine
  BY <1>5 DEF Later, Drained, Machine, VaultStep
<1>6. CASE UNCHANGED vars
  BY <1>6 DEF vars
<1> QED
  BY <1>2, <1>3, <1>4, <1>5, <1>6 DEF Next, Process

\* Nothing that a process or the operator does touches somebody else's container or machine.
THEOREM OthersAreLeftAlone == Spec => OnlyOwnIsTouched
<1> DEFINE Untouched == /\ container = "foreign" => container' = "foreign"
                        /\ vm = "foreign" => vm' = "foreign"
<1>1. Progress /\ [Next]_vars => [Untouched]_vars
  <2> SUFFICES ASSUME Progress, [Next]_vars
               PROVE  /\ container = "foreign" => container' = "foreign"
                      /\ vm = "foreign" => vm' = "foreign"
    OBVIOUS
  <2>1. VaultTypeOK /\ OnlyOwnGoes
    BY DEF Progress, TypeOK
  <2> QED
    BY <2>1, StepsOfTheVault, VaultSteps, AbortedCommands DEF machine
<1> QED
  BY <1>1, ProgressHolds, PTL DEF Spec, OnlyOwnIsTouched

\* When stop returns without an error, the process has no container.
THEOREM CleanIsGone == Spec => CleanMeansGone
<1>1. Progress /\ [Next]_vars => [at # "clean" /\ at' = "clean" => container' # "own"]_vars
  <2> SUFFICES ASSUME Progress, [Next]_vars, at # "clean", at' = "clean" PROVE container' # "own"
    OBVIOUS
  <2>1. VaultTypeOK /\ OnlyOwnGoes /\ DemoIsKnown
    BY DEF Progress, TypeOK
  <2> QED
    BY <2>1, StepsOfTheVault, VaultSteps DEF DemoIsKnown, NoLaunch
<1> QED
  BY <1>1, ProgressHolds, PTL DEF Spec, CleanMeansGone
===============================================================================
