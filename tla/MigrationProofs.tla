---------------------------- MODULE MigrationProofs ----------------------------
(***************************************************************************)
(* Theorems about Migration, for any names, containers and pointers and    *)
(* any number of deploys by pipelines.                                     *)
(***************************************************************************)
EXTENDS Migration, TLAPS

\* What the types need besides TypeOK: the plan is that of a revision that a pipeline made, which
\* nobody can change, and once its pointers are published they hold the secrets which that
\* revision binds.
PlanIsOfARevision ==
  step # "plan" => /\ plan.revision \in Revisions
                   /\ plan = PlanOf(plan.revision)
                   /\ defs[plan.revision].content \in Contents
PipelinesMadeAll ==
  step \notin {"contract", "audit", "done"} => \A r \in Revisions : defs[r].content \in Contents
PointersArePublished ==
  step \notin {"plan", "publish"} =>
    \A n \in Names : LET e == defs[plan.revision].content[n]
                     IN  e.kind = "secret" => pointers[PointerOf[n]] = e.of

\* How far the commits and the deployed template are at each step.  Past step 3 a template that
\* retains the task definition, or does not have it, has been deployed: an unnoticed failure of
\* step 2 stops step 3.
CommitsFollowSteps ==
  /\ step \in {"plan", "publish"} => head \in {0, 3}
  /\ step = "retain" => head \in {0, 2}
  /\ step = "remove" => head \in {2, 3}
  /\ step \in {"verify", "contract", "audit", "done"} => head = 3
StackFollowsCommits ==
  /\ stack.commit = 0 => stack.owned # 0
  /\ head = 0 => stack.commit = 0
  /\ head = 2 => stack.commit \in {0, 2}
  /\ head = 3 /\ step # "remove" => stack.commit # 0

\* A template underway is of the head, and the revision it pins is active.
TemplateIsOfHead ==
  deploying # None =>
    IF head = 0 THEN deploying = stack
                ELSE /\ deploying.commit = head
                     /\ deploying.owned = IF head = 2 THEN stack.owned ELSE 0
                     /\ deploying.service \in Revisions
                     /\ defs[deploying.service].active

Runbook == /\ TypeOK /\ PlanIsOfARevision /\ PipelinesMadeAll /\ PointersArePublished
           /\ CommitsFollowSteps /\ StackFollowsCommits /\ TemplateIsOfHead /\ LiveIsActive

\* While no pipeline interferes, a template underway leaves the service where it is or puts it
\* back to the plan's revision; and if it does the latter under a contract, the audit sees it.
TemplateKeepsLive ==
  ~moved /\ deploying # None =>
    deploying.service \in {stack.service, live} \cup IF step = "plan" THEN {} ELSE {plan.revision}
AuditedIsKnown ==
  ~moved /\ step \in {"audit", "done"} =>
    live = plan.revision \/ defs[live].content = Rendered(plan)

Undisturbed == StepsKeepLive /\ TemplateKeepsLive /\ AuditedIsKnown

-------------------------------------------------------------------------------
\* The only deploys of the stack that would delete the task definition under the service are
\* ones that the operator does not go on with.
LEMMA OthersDestroyNothing ==
  ASSUME Runbook, ~Between, deploying # None
  PROVE  ~Destroys(deploying)
BY DEF Runbook, Between, CommitsFollowSteps, StackFollowsCommits, TemplateIsOfHead, Destroys,
       TypeOK, Steps

\* A deploy that destroys nothing keeps every revision, and names an active one.
LEMMA UpdateKeepsRevisions ==
  ASSUME Runbook, deploying # None, ~Destroys(deploying), Update(deploying)
  PROVE  /\ defs' = defs
         /\ stack' = deploying
         /\ stack' \in Template /\ stack'.owned \in Revisions \cup {0}
         /\ live' \in Revisions /\ defs[live'].active
<1>1. defs' = defs /\ stack' = deploying
  BY DEF Update
<1>2. stack' \in Template /\ stack'.owned \in Revisions \cup {0}
  BY <1>1 DEF Runbook, TypeOK, TemplateIsOfHead
<1>3. live' = live \/ (deploying.service # stack.service /\ live' = deploying.service)
  BY DEF Update
<1> QED
  BY <1>1, <1>2, <1>3 DEF Runbook, TemplateIsOfHead, LiveIsActive, TypeOK

\* What is synthesized is of the head and pins the live revision.
LEMMA SynthesizedIsOfHead ==
  ASSUME Runbook, Synthesize
  PROVE  /\ deploying' \in Template
         /\ IF head = 0 THEN deploying' = stack
                        ELSE /\ deploying'.commit = head
                             /\ deploying'.owned = IF head = 2 THEN stack.owned ELSE 0
                             /\ deploying'.service = live
<1>1. deploying' = Synthesized
  BY DEF Synthesize
<1>2. live \in Nat /\ stack \in Template /\ stack.owned \in Nat /\ head \in {0, 2, 3}
  BY DEF Runbook, TypeOK, Revisions, Template
<1> QED
  BY <1>1, <1>2 DEF Synthesized, Template

\* What a pipeline appends.
LEMMA AppendedContent ==
  ASSUME TypeOK, NEW old, old \in Seq([content : [Names -> Entries], active : BOOLEAN]),
         Len(old) = Len(defs), \A r \in Revisions : old[r].content = defs[r].content,
         NEW c, c \in [Names -> Entries],
         defs' = Append(old, [content |-> c, active |-> TRUE])
  PROVE  /\ defs' \in Seq([content : [Names -> Entries], active : BOOLEAN])
         /\ Len(defs') = Len(defs) + 1
         /\ \A r \in Revisions : defs'[r] = old[r] /\ defs'[r].content = defs[r].content
         /\ defs'[Len(defs) + 1] = [content |-> c, active |-> TRUE]
<1> DEFINE Registered == [content : [Names -> Entries], active : BOOLEAN]
           new == [content |-> c, active |-> TRUE]
<1>1. new \in Registered
  OBVIOUS
<1>2. old \in Seq(Registered) /\ defs' = Append(old, new)
  OBVIOUS
<1> HIDE DEF Registered, new
<1>3. /\ defs' \in Seq(Registered) /\ Len(defs') = Len(old) + 1
      /\ \A r \in 1..Len(old) : defs'[r] = old[r]
      /\ defs'[Len(old) + 1] = new
  BY <1>1, <1>2
<1> QED
  BY <1>3 DEF Registered, new, Revisions

\* A plan and what is rendered from it depend on nothing but the content of its revision and the
\* pointers.
LEMMA PlanStays ==
  ASSUME step # "plan", PlanIsOfARevision, plan' = plan, Len(defs) \in Nat, Len(defs') \in Nat,
         Len(defs) <= Len(defs'), \A r \in Revisions : defs'[r].content = defs[r].content
  PROVE  PlanIsOfARevision'
<1>1. /\ plan.revision \in Revisions /\ plan = PlanOf(plan.revision)
      /\ defs[plan.revision].content \in Contents
  BY DEF PlanIsOfARevision
<1>2. plan'.revision \in Revisions' /\ defs'[plan'.revision].content = defs[plan.revision].content
  BY <1>1 DEF Revisions
<1>3. PlanOf(plan.revision)' = PlanOf(plan.revision)
  BY <1>2 DEF PlanOf
<1> QED
  BY <1>1, <1>2, <1>3 DEF PlanIsOfARevision

\* What a contract makes of a binding: a parameter is looked up by its path, and nothing is pinned.
Unpinned(e) == Binding(e.kind, IF e.kind = "parameter" THEN Path[e.of] ELSE e.of, e.key)

\* A contract written from the plan binds every variable to what the plan's revision binds it to,
\* unpinned, but those that the plan only warns of.
LEMMA RenderedIsUnpinned ==
  ASSUME Runbook, step \notin {"plan", "publish"}
  PROVE  LET c == defs[plan.revision].content
         IN  /\ Rendered(plan) \in [Names -> Entries]
             /\ \A n \in Names \ Warned(c) : c[n] \in Entries /\ Rendered(plan)[n] = Unpinned(c[n])
<1> DEFINE c == defs[plan.revision].content
           p == PlanOf(plan.revision)
<1>1. plan = p /\ c \in Contents /\ Contents \subseteq [Names -> Entries]
  BY MigrationAssumption DEF Runbook, PlanIsOfARevision
<1>2. /\ p.parameters = Plain(c) \ Warned(c)
      /\ DOMAIN p.secrets = Bound(c)
      /\ \A n \in Bound(c) : p.secrets[n] = classify(n, c[n])
  BY Zenon DEF PlanOf
<1>3. ASSUME NEW n \in Names
      PROVE  /\ Rendered(p)[n] \in Entries
             /\ n \notin Warned(c) => Rendered(p)[n] = Unpinned(c[n])
  <2>1. CASE c[n].kind = "absent"
    <3>1. c[n] = Binding("absent", None, None)
      BY <1>1, <2>1 DEF Entries, Binding
    <3>2. n \notin Plain(c) /\ n \notin Bound(c)
      BY <2>1 DEF Plain, Bound
    <3>3. Rendered(p)[n] = Binding("absent", None, None)
      BY <1>2, <3>2 DEF Rendered
    <3> QED
      BY <3>1, <3>3 DEF Entries, Binding, Unpinned
  <2>2. CASE c[n].kind = "plain"
    <3>1. c[n] = Binding("plain", None, None)
      BY <1>1, <2>2 DEF Entries, Binding
    <3>2. n \in Plain(c) /\ n \notin Bound(c)
      BY <2>2 DEF Plain, Bound
    <3>3. Rendered(p)[n] = IF n \in Warned(c) THEN Binding("absent", None, None)
                                              ELSE Binding("plain", None, None)
      BY <1>2, <3>2 DEF Rendered
    <3> QED
      BY <3>1, <3>3 DEF Entries, Binding, Unpinned
  <2>3. CASE c[n].kind = "parameter"
    <3>1. /\ c[n] = [kind |-> "parameter", of |-> c[n].of, key |-> None, pin |-> c[n].pin]
          /\ c[n].of \in Targets /\ Path[c[n].of] \in Targets
      BY <1>1, <2>3, MigrationAssumption DEF Entries
    <3>2. n \notin Plain(c) /\ n \in Bound(c)
      BY <2>3 DEF Plain, Bound
    <3>3. p.secrets[n] = [kind |-> "parameter", target |-> Path[c[n].of], key |-> None]
      BY <1>2, <2>3, <3>2 DEF classify
    <3>4. Rendered(p)[n] = Binding("parameter", Path[c[n].of], None)
      BY <1>2, <3>2, <3>3 DEF Rendered
    <3> QED
      BY <3>1, <3>4 DEF Entries, Binding, Unpinned
  <2>4. CASE c[n].kind = "secret"
    <3>1. /\ c[n] = [kind |-> "secret", of |-> c[n].of, key |-> c[n].key, pin |-> c[n].pin]
          /\ c[n].of \in Targets /\ c[n].key \in JsonKeys \cup {None}
      BY <1>1, <2>4 DEF Entries
    <3>2. n \notin Plain(c) /\ n \in Bound(c)
      BY <2>4 DEF Plain, Bound
    <3>3. p.secrets[n] = [kind |-> "pointer", target |-> PointerOf[n], key |-> c[n].key]
      BY <1>2, <2>4, <3>2 DEF classify
    <3>4. pointers[PointerOf[n]] = c[n].of
      BY <2>4 DEF Runbook, PointersArePublished
    <3>5. Rendered(p)[n] = Binding("secret", c[n].of, c[n].key)
      BY <1>2, <3>2, <3>3, <3>4 DEF Rendered
    <3> QED
      BY <3>1, <3>5 DEF Entries, Binding, Unpinned
  <2> QED
    BY <1>1, <2>1, <2>2, <2>3, <2>4 DEF Entries
<1>4. Rendered(p) = [n \in Names |-> Rendered(p)[n]]
  BY DEF Rendered
<1> QED
  BY <1>1, <1>3, <1>4

\* Unpinned, a binding is the same just when the plan loses nothing of it.
LEMMA UnpinnedIsTheSame ==
  ASSUME NEW e \in Entries
  PROVE  LET new == Unpinned(e)
         IN  /\ new = e <=> ~Lost(e)
             /\ new.kind = e.kind /\ new.key = e.key
             /\ e.kind = "secret" => new.of = e.of
<1> DEFINE new == Unpinned(e)
<1>1. e = [kind |-> e.kind, of |-> e.of, key |-> e.key, pin |-> e.pin]
  BY DEF Entries
<1>2. new = [kind |-> e.kind, of |-> IF e.kind = "parameter" THEN Path[e.of] ELSE e.of,
             key |-> e.key, pin |-> None]
  BY DEF Unpinned, Binding
<1> HIDE DEF new
<1>3. new = e <=> new.of = e.of /\ new.pin = e.pin
  BY <1>1, <1>2
<1>4. new = e <=> ~Lost(e)
  BY <1>2, <1>3 DEF Lost
<1> QED
  BY <1>2, <1>4 DEF new

\* What speaks about the plan and its revision is not disturbed by a step that leaves them alone.
LEMMA PlanPartsStay ==
  ASSUME Runbook, step' # "plan" => step # "plan" /\ plan' = plan, UNCHANGED <<defs, pointers>>,
         step' \in {"plan", "publish"} \/ step \notin {"plan", "publish"},
         step' \in {"contract", "audit", "done"} \/ step \notin {"contract", "audit", "done"}
  PROVE  PlanIsOfARevision' /\ PipelinesMadeAll' /\ PointersArePublished'
<1>1. PlanIsOfARevision'
  <2>1. CASE step' = "plan"
    BY <2>1 DEF PlanIsOfARevision
  <2>2. CASE step' # "plan"
    BY <2>2, PlanStays DEF Runbook, TypeOK
  <2> QED
    BY <2>1, <2>2
<1>2. PipelinesMadeAll'
  BY DEF Runbook, PipelinesMadeAll, Revisions
<1>3. PointersArePublished'
  BY DEF Runbook, PointersArePublished
<1> QED
  BY <1>1, <1>2, <1>3

\* Every step keeps the runbook's invariant, one case for each kind of step.
LEMMA RunbookSteps == Runbook /\ [Next]_vars => Runbook'
<1> SUFFICES ASSUME Runbook, [Next]_vars PROVE Runbook'
  OBVIOUS
<1> USE DEF Steps, Revisions, operator, ecs, infra, To
<1>1. CASE Commit
  BY <1>1, PlanPartsStay DEF Commit, Runbook, TypeOK, CommitsFollowSteps, StackFollowsCommits,
     TemplateIsOfHead, LiveIsActive
<1>2. CASE SynthesizeStep \/ SynthesizeOther
  <2>1. UNCHANGED <<ecs, stack, head, operator>> /\ Synthesize
    BY <1>2 DEF SynthesizeStep, SynthesizeOther, Synthesize
  <2>2. TypeOK' /\ TemplateIsOfHead'
    BY <2>1, SynthesizedIsOfHead DEF Runbook, TypeOK, TemplateIsOfHead, LiveIsActive
  <2> QED
    BY <2>1, <2>2, PlanPartsStay DEF Runbook, CommitsFollowSteps, StackFollowsCommits, LiveIsActive
<1>3. CASE StopAtDestroy \/ StepFails \/ OtherFails
  <2>1. /\ UNCHANGED <<ecs, stack, plan, pointers, moved>> /\ deploying' = None
        /\ head' \in {0, 2, 3} /\ step' \in Steps
        /\ step' # "plan" \/ step' = step
        /\ step \in {"retain", "remove"} \/ step' = step
        /\ step' \in {"retain", "remove", "verify"} \/ step' = step
    BY <1>3 DEF Runbook, TypeOK, StopAtDestroy, StepFails, OtherFails, InSteps
  <2>2. CommitsFollowSteps' /\ StackFollowsCommits'
    <3>1. CASE StopAtDestroy
      BY <3>1, <2>1 DEF StopAtDestroy, InSteps, Destroys, Runbook, CommitsFollowSteps,
         StackFollowsCommits
    \* Step 3 that was not stopped had a stack in which step 2 was deployed.
    <3>2. CASE StepFails
      <4>1. deploying # None /\ ~Destroys(deploying) /\ UNCHANGED <<head, stack>> /\ InSteps
            /\ step' \in {step, IF step = "retain" THEN "remove" ELSE "verify"}
        BY <3>2 DEF StepFails
      <4>2. step = "remove" => stack.commit # 0
        BY <4>1 DEF Destroys, InSteps, Runbook, StackFollowsCommits, TemplateIsOfHead, TypeOK
      <4> QED
        BY <4>1, <4>2 DEF InSteps, Runbook, CommitsFollowSteps, StackFollowsCommits
    <3>3. CASE OtherFails
      BY <3>3 DEF OtherFails, Runbook, CommitsFollowSteps, StackFollowsCommits
    <3> QED
      BY <1>3, <3>1, <3>2, <3>3
  <2>3. TypeOK'
    BY <2>1 DEF Runbook, TypeOK
  <2>4. TemplateIsOfHead' /\ LiveIsActive'
    BY <2>1 DEF Runbook, TemplateIsOfHead, LiveIsActive
  <2>5. PlanIsOfARevision' /\ PipelinesMadeAll' /\ PointersArePublished'
    BY <2>1, PlanPartsStay
  <2> QED
    BY <2>2, <2>3, <2>5, <2>4 DEF Runbook
<1>4. CASE Verify \/ Audit
  BY <1>4, PlanPartsStay DEF Verify, Audit, Runbook, TypeOK, CommitsFollowSteps,
     StackFollowsCommits, TemplateIsOfHead, LiveIsActive
<1>5. CASE DeployStep \/ DeployOther
  <2>1. /\ deploying # None /\ ~Destroys(deploying) /\ Update(deploying) /\ deploying' = None
        /\ UNCHANGED <<head, plan, pointers, moved>>
        /\ \/ step' = step
           \/ InSteps /\ step' = IF step = "retain" THEN "remove" ELSE "verify"
    BY <1>5, OthersDestroyNothing DEF DeployStep, DeployOther
  <2>2. defs' = defs /\ stack' = deploying /\ stack' \in Template
        /\ stack'.owned \in Revisions \cup {0} /\ live' \in Revisions /\ defs[live'].active
    BY <2>1, UpdateKeepsRevisions
  <2>3. TypeOK' /\ TemplateIsOfHead' /\ LiveIsActive'
    BY <2>1, <2>2 DEF Runbook, TypeOK, TemplateIsOfHead, LiveIsActive, InSteps
  <2>4. PlanIsOfARevision' /\ PipelinesMadeAll' /\ PointersArePublished'
    BY <2>1, <2>2, PlanPartsStay DEF InSteps
  <2>5. CommitsFollowSteps' /\ StackFollowsCommits'
    BY <2>1, <2>2 DEF Runbook, CommitsFollowSteps, StackFollowsCommits, TemplateIsOfHead, InSteps,
       TypeOK
  <2> QED
    BY <2>3, <2>4, <2>5 DEF Runbook
<1>6. CASE MakePlan
  <2>1. /\ step = "plan" /\ step' = "publish" /\ plan' = PlanOf(live)
        /\ moved' = (moved /\ deploying # None) /\ UNCHANGED <<ecs, infra, pointers>>
    BY <1>6 DEF MakePlan
  <2>2. plan'.revision = live
    BY <2>1 DEF PlanOf
  <2>3. PlanOf(live)' = PlanOf(live) /\ live' = live
    BY <2>1 DEF PlanOf
  <2>4. PlanIsOfARevision'
    BY <2>1, <2>2, <2>3 DEF PlanIsOfARevision, Runbook, PipelinesMadeAll, TypeOK
  <2>5. moved' \in BOOLEAN
    BY <2>1
  <2>6. TypeOK' /\ TemplateIsOfHead' /\ LiveIsActive' /\ CommitsFollowSteps' /\ StackFollowsCommits'
    BY <2>1, <2>2, <2>5 DEF Runbook, TypeOK, TemplateIsOfHead, LiveIsActive, CommitsFollowSteps,
       StackFollowsCommits
  <2>7. PipelinesMadeAll' /\ PointersArePublished'
    BY <2>1 DEF Runbook, PipelinesMadeAll, PointersArePublished
  <2> QED
    BY <2>4, <2>6, <2>7 DEF Runbook
<1>7. CASE Publish
  <2> DEFINE c == defs[plan.revision].content
             To_(p) == {n \in DOMAIN plan.secrets : plan.secrets[n].kind = "pointer"
                                                      /\ plan.secrets[n].target = p}
  <2>1. /\ step = "publish" /\ UNCHANGED <<ecs, infra, plan, moved>>
        /\ step' = IF head = 3 THEN "remove" ELSE "retain"
        /\ pointers' = [p \in Pointers |-> IF To_(p) = {} THEN pointers[p]
                                           ELSE c[CHOOSE n \in To_(p) : TRUE].of]
    BY <1>7 DEF Publish
  <2>2. /\ plan = PlanOf(plan.revision) /\ c \in Contents /\ c \in [Names -> Entries]
    BY <2>1, MigrationAssumption DEF Runbook, PlanIsOfARevision
  \* The names that publish to a pointer are those of the secrets with its spelling.
  <2>3. \A p : To_(p) = {n \in Names : c[n].kind = "secret" /\ PointerOf[n] = p}
    <3>1. plan.secrets = [n \in Bound(c) |-> classify(n, c[n])]
      <4> DEFINE q == PlanOf(plan.revision)
      <4>1. q.secrets = [n \in Bound(c) |-> classify(n, c[n])]
        BY Zenon DEF PlanOf
      <4> HIDE DEF q
      <4> QED
        BY <2>2, <4>1 DEF q
    <3>2. ASSUME NEW n \in Bound(c)
          PROVE  /\ plan.secrets[n].kind = "pointer" <=> c[n].kind = "secret"
                 /\ c[n].kind = "secret" => plan.secrets[n].target = PointerOf[n]
      <4>1. plan.secrets[n] = classify(n, c[n])
        BY <3>1
      <4> QED
        BY <4>1 DEF classify
    <3>3. ASSUME NEW n \in Names, c[n].kind = "secret" PROVE n \in Bound(c)
      BY <3>3 DEF Bound
    <3>4. DOMAIN plan.secrets = Bound(c) /\ Bound(c) \subseteq Names
      BY <3>1 DEF Bound
    <3> QED
      BY <3>2, <3>3, <3>4
  <2>4. ASSUME NEW p \in Pointers, To_(p) # {}
        PROVE  c[CHOOSE n \in To_(p) : TRUE].of \in Targets
    <3>1. PICK m : m = CHOOSE n \in To_(p) : TRUE
      OBVIOUS
    <3>2. m \in Names /\ c[m].kind = "secret"
      BY <2>3, <2>4, <3>1
    <3>3. c[m] \in Entries
      BY <2>2, <3>2
    <3>4. c[m].of \in Targets
      BY <3>2, <3>3 DEF Entries
    <3> QED
      BY <3>1, <3>4
  <2>5. \A n \in Names : c[n].kind = "secret" =>
          PointerOf[n] \in Pointers /\ To_(PointerOf[n]) = {n}
    <3> SUFFICES ASSUME NEW n \in Names, c[n].kind = "secret"
                 PROVE  PointerOf[n] \in Pointers /\ To_(PointerOf[n]) = {n}
      OBVIOUS
    <3>1. To_(PointerOf[n]) = {m \in Names : c[m].kind = "secret" /\ PointerOf[m] = PointerOf[n]}
      BY <2>3
    <3> QED
      BY <2>2, <3>1, MigrationAssumption
  <2>6. pointers' \in [Pointers -> Targets \cup {None}]
    BY <2>1, <2>4 DEF Runbook, TypeOK
  <2>7. PointersArePublished'
    <3> SUFFICES ASSUME NEW n \in Names, c[n].kind = "secret" PROVE pointers'[PointerOf[n]] = c[n].of
      BY <2>1 DEF PointersArePublished
    <3>1. (CHOOSE m \in To_(PointerOf[n]) : TRUE) = n
      BY <2>5
    <3> QED
      BY <2>1, <2>5, <3>1
  <2>8. PlanIsOfARevision'
    BY <2>1, PlanStays DEF Runbook, TypeOK
  <2>9. TypeOK' /\ CommitsFollowSteps' /\ StackFollowsCommits' /\ TemplateIsOfHead' /\ LiveIsActive'
        /\ PipelinesMadeAll'
    BY <2>1, <2>6 DEF Runbook, TypeOK, CommitsFollowSteps, StackFollowsCommits, TemplateIsOfHead,
       LiveIsActive, PipelinesMadeAll
  <2> QED
    BY <2>7, <2>8, <2>9 DEF Runbook
<1>8. CASE DeployContract
  <2>1. /\ step = "contract" /\ step' = "audit" /\ live' = Len(defs) + 1
        /\ defs' = Append(defs, [content |-> Rendered(plan), active |-> TRUE])
        /\ UNCHANGED <<infra, plan, pointers, moved>>
    BY <1>8 DEF DeployContract
  <2>2. Rendered(plan) \in [Names -> Entries]
    BY <2>1, RenderedIsUnpinned
  <2>3. /\ defs' \in Seq([content : [Names -> Entries], active : BOOLEAN])
        /\ Len(defs') = Len(defs) + 1
        /\ \A r \in Revisions : defs'[r] = defs[r] /\ defs'[r].content = defs[r].content
        /\ defs'[Len(defs) + 1] = [content |-> Rendered(plan), active |-> TRUE]
    BY <2>1, <2>2, AppendedContent DEF Runbook, TypeOK
  <2>4. PlanIsOfARevision'
    BY <2>1, <2>3, PlanStays DEF Runbook, TypeOK
  <2>5. TypeOK' /\ LiveIsActive' /\ TemplateIsOfHead'
    BY <2>1, <2>3 DEF Runbook, TypeOK, LiveIsActive, TemplateIsOfHead
  <2>6. CommitsFollowSteps' /\ StackFollowsCommits' /\ PipelinesMadeAll'
    BY <2>1 DEF Runbook, CommitsFollowSteps, StackFollowsCommits, PipelinesMadeAll
  <2>7. PointersArePublished'
    BY <2>1, <2>3 DEF Runbook, PlanIsOfARevision, PointersArePublished
  <2> QED
    BY <2>4, <2>5, <2>6, <2>7 DEF Runbook
<1>9. CASE OldPipeline
  <2>1. PICK c \in Contents : defs' = Append(defs, [content |-> c, active |-> TRUE])
    BY <1>9 DEF OldPipeline
  <2>2. /\ step \notin {"audit", "done"} /\ live' = Len(defs) + 1 /\ moved' = TRUE
        /\ UNCHANGED <<infra, step, plan, pointers>>
    BY <1>9 DEF OldPipeline
  <2>3. /\ defs' \in Seq([content : [Names -> Entries], active : BOOLEAN])
        /\ Len(defs') = Len(defs) + 1
        /\ \A r \in Revisions : defs'[r] = defs[r] /\ defs'[r].content = defs[r].content
        /\ defs'[Len(defs) + 1] = [content |-> c, active |-> TRUE]
    BY <2>1, AppendedContent, MigrationAssumption DEF Runbook, TypeOK
  <2>4. PlanIsOfARevision'
    <3>1. CASE step = "plan"
      BY <2>2, <3>1 DEF PlanIsOfARevision
    <3>2. CASE step # "plan"
      BY <2>2, <2>3, <3>2, PlanStays DEF Runbook, TypeOK
    <3> QED
      BY <3>1, <3>2
  <2>5. TypeOK' /\ LiveIsActive' /\ TemplateIsOfHead'
    BY <2>2, <2>3 DEF Runbook, TypeOK, LiveIsActive, TemplateIsOfHead
  <2>6. CommitsFollowSteps' /\ StackFollowsCommits' /\ PipelinesMadeAll'
    <3>1. ASSUME step \notin {"contract", "audit", "done"}, NEW r \in 1..Len(defs')
          PROVE  defs'[r].content \in Contents
      <4>1. CASE r \in 1..Len(defs)
        BY <2>3, <3>1, <4>1 DEF Runbook, PipelinesMadeAll
      <4>2. CASE r = Len(defs) + 1
        BY <2>3, <4>2
      <4> QED
        BY <2>3, <4>1, <4>2 DEF Runbook, TypeOK
    <3> QED
      BY <2>2, <3>1 DEF Runbook, CommitsFollowSteps, StackFollowsCommits, PipelinesMadeAll
  <2>7. PointersArePublished'
    BY <2>2, <2>3 DEF Runbook, CommitsFollowSteps, PlanIsOfARevision, PointersArePublished
  <2> QED
    BY <2>4, <2>5, <2>6, <2>7 DEF Runbook
<1>10. CASE ReplaceOwned
  <2> DEFINE old == [defs EXCEPT ![stack.owned].active = FALSE]
  <2>1. PICK c \in Contents : defs' = Append(old, [content |-> c, active |-> TRUE])
    BY <1>10 DEF ReplaceOwned
  <2>2. /\ head = 0 /\ stack.commit = 0 /\ deploying = None /\ live' = Len(defs) + 1
        /\ stack' = [stack EXCEPT !.service = Len(defs) + 1, !.owned = Len(defs) + 1]
        /\ moved' = TRUE /\ UNCHANGED <<head, deploying, step, plan, pointers>>
    BY <1>10 DEF ReplaceOwned
  <2>3. /\ old \in Seq([content : [Names -> Entries], active : BOOLEAN]) /\ Len(old) = Len(defs)
        /\ \A r \in Revisions : old[r].content = defs[r].content
    <3> DEFINE D == [content : [Names -> Entries], active : BOOLEAN]
    <3>1. stack.owned \in 1..Len(defs) /\ Len(defs) \in Nat /\ defs \in [1..Len(defs) -> D]
      <4>1. defs \in Seq(D) /\ stack.owned \in Revisions \cup {0} /\ stack.owned # 0
        BY <2>2 DEF Runbook, TypeOK, StackFollowsCommits
      <4> HIDE DEF D
      <4>2. Len(defs) \in Nat /\ defs \in [1..Len(defs) -> D]
        BY <4>1
      <4> QED
        BY <4>1, <4>2
    <3>2. old = [r \in 1..Len(defs) |-> IF r = stack.owned THEN [defs[r] EXCEPT !.active = FALSE]
                                                           ELSE defs[r]]
      BY <3>1
    <3>3. ASSUME NEW r \in 1..Len(defs) PROVE old[r] \in D /\ old[r].content = defs[r].content
      <4>1. defs[r] \in D
        BY <3>1
      <4> QED
        BY <3>2, <4>1
    <3> HIDE DEF old
    <3>4. old \in [1..Len(defs) -> D]
      BY <3>2, <3>3
    <3>5. old \in Seq(D) /\ Len(old) = Len(defs)
      BY <3>1, <3>2, <3>4
    <3> QED
      BY <3>3, <3>5
  <2>4. /\ defs' \in Seq([content : [Names -> Entries], active : BOOLEAN])
        /\ Len(defs') = Len(defs) + 1
        /\ \A r \in Revisions : defs'[r].content = defs[r].content
        /\ defs'[Len(defs) + 1] = [content |-> c, active |-> TRUE]
    BY <2>1, <2>3, AppendedContent, MigrationAssumption DEF Runbook
  <2>5. PlanIsOfARevision'
    <3>1. CASE step = "plan"
      BY <2>2, <3>1 DEF PlanIsOfARevision
    <3>2. CASE step # "plan"
      BY <2>2, <2>4, <3>2, PlanStays DEF Runbook, TypeOK
    <3> QED
      BY <3>1, <3>2
  <2>6. Len(defs) \in Nat /\ stack' \in Template /\ stack'.owned = Len(defs) + 1 /\ stack'.commit = 0
    <3>1. Len(defs) \in Nat /\ stack \in Template
      BY DEF Runbook, TypeOK
    <3>2. stack' = [commit |-> 0, service |-> Len(defs) + 1, owned |-> Len(defs) + 1]
      BY <2>2, <3>1 DEF Template
    <3> QED
      BY <3>1, <3>2 DEF Template
  <2>7. TypeOK' /\ LiveIsActive' /\ TemplateIsOfHead'
    <3>1. TypeOK'
      BY <2>2, <2>4, <2>6 DEF Runbook, TypeOK
    <3> QED
      BY <2>2, <2>4, <3>1 DEF LiveIsActive, TemplateIsOfHead
  <2>8. CommitsFollowSteps' /\ StackFollowsCommits' /\ PipelinesMadeAll'
    <3>1. ASSUME step \notin {"contract", "audit", "done"}, NEW r \in 1..Len(defs')
          PROVE  defs'[r].content \in Contents
      BY <2>4, <2>6, <3>1 DEF Runbook, PipelinesMadeAll
    <3> QED
      BY <2>2, <2>6, <3>1 DEF Runbook, CommitsFollowSteps, StackFollowsCommits, PipelinesMadeAll
  <2>9. PointersArePublished'
    BY <2>2, <2>4 DEF Runbook, PlanIsOfARevision, PointersArePublished
  <2> QED
    BY <2>5, <2>7, <2>8, <2>9 DEF Runbook
<1>11. CASE UNCHANGED vars
  BY <1>11, PlanPartsStay DEF vars, Runbook, TypeOK, CommitsFollowSteps, StackFollowsCommits,
     TemplateIsOfHead, LiveIsActive
<1> QED
  BY <1>1, <1>2, <1>3, <1>4, <1>5, <1>6, <1>7, <1>8, <1>9, <1>10, <1>11 DEF Next, Operator

\* It holds when the migration starts.
LEMMA RunbookStarts == Init => Runbook
<1> SUFFICES ASSUME Init PROVE Runbook
  OBVIOUS
<1> DEFINE D == [content : [Names -> Entries], active : BOOLEAN]
<1>1. PICK c \in Contents : defs = <<[content |-> c, active |-> TRUE]>>
  BY DEF Init
<1>2. c \in [Names -> Entries]
  BY MigrationAssumption
<1>3. [content |-> c, active |-> TRUE] \in D
  BY <1>2
<1>4. defs \in Seq(D) /\ Len(defs) = 1 /\ defs[1] = [content |-> c, active |-> TRUE]
  <2> HIDE DEF D
  <2> QED
    BY <1>1, <1>3
<1>5. /\ live = 1 /\ stack = [commit |-> 0, service |-> 1, owned |-> 1] /\ head = 0
      /\ deploying = None /\ step = "plan" /\ plan = None
      /\ pointers = [p \in Pointers |-> None] /\ moved = FALSE
  BY DEF Init
<1>6. stack \in Template /\ pointers \in [Pointers -> Targets \cup {None}]
  BY <1>5 DEF Template
<1>7. live \in Revisions /\ stack.owned \in Revisions \cup {0}
  BY <1>4, <1>5 DEF Revisions
<1>8. TypeOK
  <2> HIDE DEF D
  <2>1. /\ head \in {0, 2, 3} /\ deploying \in Template \cup {None} /\ step \in Steps
        /\ plan = None /\ moved \in BOOLEAN
    BY <1>5 DEF Steps
  <2> QED
    BY <1>4, <1>6, <1>7, <2>1 DEF TypeOK, D
<1>9. PipelinesMadeAll /\ LiveIsActive
  BY <1>4, <1>5 DEF PipelinesMadeAll, LiveIsActive, Revisions
<1> QED
  BY <1>5, <1>8, <1>9 DEF Runbook, PlanIsOfARevision, PointersArePublished, CommitsFollowSteps,
     StackFollowsCommits, TemplateIsOfHead

-------------------------------------------------------------------------------
\* While no pipeline interferes, every step leaves the service at the plan's revision or, once
\* the contract is deployed, where the audit can tell.
LEMMA UndisturbedSteps == Runbook /\ Undisturbed /\ [Next]_vars => Undisturbed'
<1> SUFFICES ASSUME Runbook, Undisturbed, [Next]_vars PROVE Undisturbed'
  OBVIOUS
<1> USE DEF operator, ecs, infra, To
<1>1. ASSUME UNCHANGED <<plan, pointers>> PROVE Rendered(plan)' = Rendered(plan)
  BY <1>1 DEF Rendered
<1>2. CASE OldPipeline \/ ReplaceOwned
  BY <1>2 DEF OldPipeline, ReplaceOwned, Undisturbed, StepsKeepLive, TemplateKeepsLive,
     AuditedIsKnown
<1>3. CASE Commit \/ StopAtDestroy \/ StepFails \/ OtherFails
  <2>1. /\ UNCHANGED <<ecs, plan, pointers, moved>> /\ deploying' = None
        /\ \/ step' = step
           \/ step \in {"retain", "remove"} /\ step' \in {"retain", "remove", "verify"}
    BY <1>3 DEF Commit, StopAtDestroy, StepFails, OtherFails, InSteps
  <2> QED
    BY <1>1, <2>1 DEF Undisturbed, StepsKeepLive, TemplateKeepsLive, AuditedIsKnown
<1>4. CASE SynthesizeStep \/ SynthesizeOther
  <2>1. UNCHANGED <<ecs, stack, head, operator>> /\ Synthesize
    BY <1>4 DEF SynthesizeStep, SynthesizeOther, Synthesize
  <2>2. deploying'.service \in {stack.service, live}
    BY <2>1, SynthesizedIsOfHead
  <2> QED
    BY <1>1, <2>1, <2>2 DEF Undisturbed, StepsKeepLive, TemplateKeepsLive, AuditedIsKnown
\* CloudFormation moves the service only when the template names another revision than the stack.
<1>5. CASE DeployStep \/ DeployOther
  <2>1. /\ deploying # None /\ ~Destroys(deploying) /\ Update(deploying) /\ deploying' = None
        /\ UNCHANGED <<plan, pointers, moved>>
        /\ \/ step' = step
           \/ step \in {"retain", "remove"} /\ step' \in {"remove", "verify"}
    BY <1>5, OthersDestroyNothing DEF DeployStep, DeployOther, InSteps
  <2>2. defs' = defs
    BY <2>1, UpdateKeepsRevisions
  <2>3. ~moved => live' \in {live} \cup IF step = "plan" THEN {} ELSE {plan.revision}
    BY <2>1 DEF Update, Undisturbed, TemplateKeepsLive
  <2>4. StepsKeepLive'
    BY <2>1, <2>3 DEF Undisturbed, StepsKeepLive
  <2>5. TemplateKeepsLive'
    BY <2>1 DEF TemplateKeepsLive
  <2>6. AuditedIsKnown'
    BY <1>1, <2>1, <2>2, <2>3 DEF Undisturbed, AuditedIsKnown
  <2> QED
    BY <2>4, <2>5, <2>6 DEF Undisturbed
\* A deploy that is in progress while the plan is made counts as a pipeline's if one has deployed
\* since it was synthesized.
<1>6. CASE MakePlan
  <2>1. /\ step = "plan" /\ step' = "publish" /\ moved' = (moved /\ deploying # None)
        /\ UNCHANGED <<ecs, infra>> /\ plan'.revision = live
    BY <1>6 DEF MakePlan, PlanOf
  <2> QED
    BY <2>1 DEF Undisturbed, StepsKeepLive, TemplateKeepsLive, AuditedIsKnown
<1>7. CASE Publish
  <2>1. /\ step = "publish" /\ step' \in {"retain", "remove"}
        /\ UNCHANGED <<ecs, infra, plan, moved>>
    BY <1>7 DEF Publish
  <2> QED
    BY <2>1 DEF Undisturbed, StepsKeepLive, TemplateKeepsLive, AuditedIsKnown
<1>8. CASE Verify
  BY <1>8 DEF Verify, Undisturbed, StepsKeepLive, TemplateKeepsLive, AuditedIsKnown
<1>9. CASE DeployContract
  <2>1. /\ step = "contract" /\ step' = "audit" /\ live' = Len(defs) + 1
        /\ defs' = Append(defs, [content |-> Rendered(plan), active |-> TRUE])
        /\ UNCHANGED <<infra, plan, pointers, moved>>
    BY <1>9 DEF DeployContract
  <2>2. defs'[live'].content = Rendered(plan)
    <3>1. Rendered(plan) \in [Names -> Entries]
      BY <2>1, RenderedIsUnpinned
    <3> QED
      BY <2>1, <3>1, AppendedContent DEF Runbook, TypeOK
  <2> QED
    BY <1>1, <2>1, <2>2 DEF Undisturbed, StepsKeepLive, TemplateKeepsLive, AuditedIsKnown
<1>10. CASE Audit
  BY <1>1, <1>10 DEF Audit, Undisturbed, StepsKeepLive, TemplateKeepsLive, AuditedIsKnown
<1>11. CASE UNCHANGED vars
  BY <1>1, <1>11 DEF vars, Undisturbed, StepsKeepLive, TemplateKeepsLive, AuditedIsKnown
<1> QED
  BY <1>2, <1>3, <1>4, <1>5, <1>6, <1>7, <1>8, <1>9, <1>10, <1>11 DEF Next, Operator

\* The runbook's invariant holds whatever pipelines and others deploy and whichever deploys fail,
\* and the undisturbed one beside it.
THEOREM RunbookHolds == Spec => [](Runbook /\ Undisturbed)
<1>1. Init => Runbook /\ Undisturbed
  <2>1. Init => Undisturbed
    BY DEF Init, Undisturbed, StepsKeepLive, TemplateKeepsLive, AuditedIsKnown
  <2> QED
    BY <2>1, RunbookStarts
<1>2. Runbook /\ Undisturbed /\ [Next]_vars => (Runbook /\ Undisturbed)'
  BY RunbookSteps, UndisturbedSteps
<1> QED
  BY <1>1, <1>2, PTL DEF Spec

\* Every variable of the migration keeps its type: the service always names a revision that was
\* registered, and the plan one that a pipeline made.
THEOREM MigrationTypeCorrect == Spec => []TypeOK
<1>1. Runbook => TypeOK
  BY DEF Runbook
<1> QED
  BY <1>1, RunbookHolds, PTL

\* The revision that the service runs is never deregistered: an unnoticed failure of step 2 makes
\* the plan of step 3 say "destroy", and the operator stops (migrate.py's runbook).
THEOREM LiveStaysActive == Spec => []LiveIsActive
<1>1. Runbook => LiveIsActive
  BY DEF Runbook
<1> QED
  BY <1>1, RunbookHolds, PTL

\* Steps 2 and 3 and the deploys of others leave the service where the plan found it.
THEOREM StepsLeaveTheService == Spec => []StepsKeepLive
<1>1. Undisturbed => StepsKeepLive
  BY DEF Undisturbed
<1> QED
  BY <1>1, RunbookHolds, PTL

\* The contract written from the plan binds what the live revision binds, but for pins and bare names,
\* and never another secret, kind or key (migrate.py:41-81).
THEOREM ContractKeepsBindings == Spec => ContractBindsTheSame
<1> DEFINE IsKept(new, e) == /\ new = e <=> ~Lost(e)
                             /\ new.kind = e.kind /\ new.key = e.key
                             /\ e.kind = "secret" => new.of = e.of
           Same == step = "contract" /\ step' = "audit" /\ live = plan.revision =>
                     \A n \in Names \ Warned(defs[live].content) :
                        IsKept(defs'[live'].content[n], defs[live].content[n])
<1>1. Runbook /\ [Next]_vars => [Same]_vars
  <2> SUFFICES ASSUME Runbook, [Next]_vars, step = "contract", step' = "audit",
                      live = plan.revision,
                      NEW n \in Names \ Warned(defs[live].content)
               PROVE  IsKept(defs'[live'].content[n], defs[live].content[n])
    OBVIOUS
  <2>1. DeployContract
    BY DEF vars, ecs, infra, operator, Next, Operator, MakePlan, Publish, Commit, SynthesizeStep,
       DeployStep, StopAtDestroy, Verify, DeployContract, Audit, StepFails, OldPipeline,
       ReplaceOwned, SynthesizeOther, DeployOther, OtherFails, InSteps, To
  <2>2. /\ live' = Len(defs) + 1
        /\ defs' = Append(defs, [content |-> Rendered(plan), active |-> TRUE])
    BY <2>1 DEF DeployContract
  <2>3. /\ Rendered(plan) \in [Names -> Entries] /\ defs[live].content[n] \in Entries
        /\ Rendered(plan)[n] = Unpinned(defs[live].content[n])
    BY RenderedIsUnpinned
  <2>4. defs'[live'].content = Rendered(plan)
    BY <2>2, <2>3, AppendedContent DEF Runbook, TypeOK
  <2> HIDE DEF IsKept
  <2>5. IsKept(Unpinned(defs[live].content[n]), defs[live].content[n])
    BY <2>3, UnpinnedIsTheSame DEF IsKept
  <2> QED
    BY <2>3, <2>4, <2>5
<1>2. Runbook /\ Undisturbed => Runbook
  OBVIOUS
<1>3. [][Same]_vars => ContractBindsTheSame
  BY Zenon DEF ContractBindsTheSame
<1> QED
  BY <1>1, <1>2, RunbookHolds, PTL DEF Spec, ContractBindsTheSame
===============================================================================
