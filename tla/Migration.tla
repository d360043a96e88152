------------------------------- MODULE Migration -------------------------------
(***************************************************************************)
(* Moving a service with two writers onto the contract: the plan that      *)
(* ecsc migrate --plan makes from the live revision                        *)
(* (src/src/ecs_contract/migrate.py) and an operator who follows it.       *)
(*                                                                         *)
(* Beside the operator the old application pipeline registers and deploys  *)
(* whole revisions until the contract replaces it, and others deploy the   *)
(* infrastructure stack, from the head of its repository and never         *)
(* between steps 2 and 3.  Deploys of the stack are one at a time; any of  *)
(* them may fail and be rolled back without the operator's noticing.       *)
(***************************************************************************)
EXTENDS Naturals, Sequences

CONSTANTS Names,        \* of variables
          Reserved,     \* RESERVED_NAMES
          SecretShaped, \* names that look like secrets
          Targets,      \* complete secret ARNs without a version, and names of parameters
          Path,         \* of a parameter: its name, with a "/" before a bare one
          JsonKeys,
          Pins,         \* other accounts and regions, and versions of secrets
          Contents,     \* of the containers that pipelines register
          Pointers, PointerOf, \* pointer_name: lower case, "-" for "_"
          None,
          MaxDeploys    \* bound on the revisions that pipelines register

\* A binding may pin the account and region of a parameter, if they are not the service's own, and
\* the version of a secret.
Entries == [kind : {"absent", "plain"}, of : {None}, key : {None}, pin : {None}]
             \cup [kind : {"parameter"}, of : Targets, key : {None}, pin : Pins \cup {None}]
             \cup [kind : {"secret"}, of : Targets, key : JsonKeys \cup {None}, pin : Pins \cup {None}]

\* Two names that a container has are never spelled the same in a pointer.
ASSUME MigrationAssumption ==
  /\ Reserved \subseteq Names /\ SecretShaped \subseteq Names
  /\ Contents # {} /\ Contents \subseteq [Names -> Entries]
  /\ None \notin Targets \cup JsonKeys \cup Pins
  /\ Path \in [Targets -> Targets]
  /\ PointerOf \in [Names -> Pointers]
  /\ \A c \in Contents : \A m, n \in Names :
        c[m].kind = "secret" /\ c[n].kind = "secret" /\ PointerOf[m] = PointerOf[n] => m = n
  /\ MaxDeploys \in Nat

VARIABLES defs,      \* task definition revisions, each with its content and active or not
          live,      \* the revision the service names
          stack,     \* the deployed template
          head,      \* the last commit of the infrastructure repository: 0, 2 or 3
          deploying, \* the template of the deploy of the stack in progress, or None
          step,      \* what the operator does next
          plan,      \* the operator's plan, or None
          pointers,  \* what the pointer parameters hold
          moved      \* a pipeline has deployed since the plan was made, or under a template that
                     \* was synthesized before it and is still to be deployed

ecs == <<defs, live>>
infra == <<stack, head, deploying>>
operator == <<step, plan, pointers, moved>>
vars == <<ecs, infra, operator>>

Revisions == 1..Len(defs)
Steps == {"plan", "publish", "retain", "remove", "verify", "contract", "audit", "done"}

\* Templates.  Commit 0 has a task definition resource, owned, and the service refers to it;
\* commit 2 retains it and pins the service to a revision; commit 3 only pins.
Template == [commit : {0, 2, 3}, service : Nat, owned : Nat]

Init == /\ \E c \in Contents : defs = <<[content |-> c, active |-> TRUE]>>
        /\ live = 1
        /\ stack = [commit |-> 0, service |-> 1, owned |-> 1]
        /\ head = 0 /\ deploying = None
        /\ step = "plan" /\ plan = None
        /\ pointers = [p \in Pointers |-> None]
        /\ moved = FALSE

-------------------------------------------------------------------------------
\* The plan

\* Not the code: the key inside the secret is left out.
ClassifyWhole(n, e) ==
  IF e.kind = "secret" THEN [kind |-> "pointer", target |-> PointerOf[n], key |-> None]
                       ELSE [kind |-> "parameter", target |-> Path[e.of], key |-> None]

\* Of a parameter's ARN the path is kept, of a secret's binding the key; no pin is.
classify(n, e) ==
  IF e.kind = "secret" THEN [kind |-> "pointer", target |-> PointerOf[n], key |-> e.key]
                       ELSE [kind |-> "parameter", target |-> Path[e.of], key |-> None]

Bound(c) == {n \in Names : c[n].kind \in {"secret", "parameter"}}
Plain(c) == {n \in Names : c[n].kind = "plain"}

\* Names in the environment that the plan only warns of.
Warned(c) == Plain(c) \cap (Reserved \cup SecretShaped)

PlanOf(r) == LET c == defs[r].content
             IN  [revision |-> r,
                  parameters |-> Plain(c) \ Warned(c),
                  secrets |-> [n \in Bound(c) |-> classify(n, c[n])]]

Binding(kind, of, key) == [kind |-> kind, of |-> of, key |-> key, pin |-> None]

\* What render makes of contract files written from the plan: it looks a path up in its own account
\* and region, and pins nothing.
Rendered(p) ==
  [n \in Names |->
     IF n \in p.parameters THEN Binding("plain", None, None)
     ELSE IF n \notin DOMAIN p.secrets THEN Binding("absent", None, None)
     ELSE LET s == p.secrets[n]
          IN  IF s.kind = "pointer" THEN Binding("secret", pointers[s.target], s.key)
                                    ELSE Binding("parameter", s.target, None)]

-------------------------------------------------------------------------------
\* Deploys of the stack

\* Not the code: the family's last revision is taken for the one that the service runs.
SynthesizedLatest == IF head = 0 THEN stack
                     ELSE [commit |-> head, service |-> Len(defs),
                           owned |-> IF head = 2 THEN stack.owned ELSE 0]

\* ServiceFromLiveRevision puts the live revision into the template.
Synthesized == IF head = 0 THEN stack
               ELSE [commit |-> head, service |-> live,
                     owned |-> IF head = 2 THEN stack.owned ELSE 0]

\* The plan says "destroy": the deployed template owns the task definition without retaining it.
Destroys(template) == template.owned = 0 /\ stack.owned # 0 /\ stack.commit = 0

\* CloudFormation updates the service if the template names another revision than the deployed
\* one, and removes a resource by the deployed policy.
Update(template) ==
  /\ live' = IF template.service # stack.service THEN template.service ELSE live
  /\ defs' = IF Destroys(template) THEN [defs EXCEPT ![stack.owned].active = FALSE] ELSE defs
  /\ stack' = template

Synthesize == /\ deploying = None
              /\ deploying' = Synthesized
              /\ UNCHANGED <<ecs, stack, head>>

-------------------------------------------------------------------------------
\* The operator

To(from, next) == step = from /\ step' = next

\* ecsc migrate --plan
MakePlan == /\ To("plan", "publish")
            /\ plan' = PlanOf(live)
            /\ moved' = (moved /\ deploying # None)
            /\ UNCHANGED <<ecs, infra, pointers>>

\* Not the code: only secrets that are bound whole get a pointer.
PublishWhole == /\ To("publish", IF head = 3 THEN "remove" ELSE "retain")
                /\ head = 3 => deploying = None
                /\ pointers' = [p \in Pointers |->
                     LET ns == {n \in DOMAIN plan.secrets : plan.secrets[n].target = p
                                                              /\ plan.secrets[n].key = None}
                     IN  IF ns = {} THEN pointers[p]
                         ELSE defs[plan.revision].content[CHOOSE n \in ns : TRUE].of]
                /\ UNCHANGED <<ecs, infra, plan, moved>>

\* 1. Each pointer holds the secret that its name binds.  With steps 2 and 3 committed before,
\* the operator then waits for the deploy in progress.
Publish == /\ To("publish", IF head = 3 THEN "remove" ELSE "retain")
           /\ head = 3 => deploying = None
           /\ pointers' = [p \in Pointers |->
                LET ns == {n \in DOMAIN plan.secrets : plan.secrets[n].kind = "pointer"
                                                         /\ plan.secrets[n].target = p}
                IN  IF ns = {} THEN pointers[p]
                    ELSE defs[plan.revision].content[CHOOSE n \in ns : TRUE].of]
           /\ UNCHANGED <<ecs, infra, plan, moved>>

\* 2. and 3., in two commits.
Commit == /\ \/ step = "retain" /\ head = 0 /\ head' = 2
             \/ step = "remove" /\ head = 2 /\ head' = 3
          /\ deploying = None
          /\ UNCHANGED <<ecs, stack, deploying, operator>>

InSteps == (step = "retain" /\ head = 2) \/ (step = "remove" /\ head = 3)

SynthesizeStep == /\ InSteps
                  /\ Synthesize
                  /\ UNCHANGED operator

\* Not the code: "destroy" in the plan does not stop the operator.
DeployUnplanned == /\ InSteps /\ deploying # None
                   /\ Update(deploying)
                   /\ deploying' = None
                   /\ step' = IF step = "retain" THEN "remove" ELSE "verify"
                   /\ UNCHANGED <<head, plan, pointers, moved>>

DeployStep == /\ InSteps /\ deploying # None
              /\ ~Destroys(deploying)
              /\ Update(deploying)
              /\ deploying' = None
              /\ step' = IF step = "retain" THEN "remove" ELSE "verify"
              /\ UNCHANGED <<head, plan, pointers, moved>>


\* "If destroy, stop, step 2 was not deployed": the second commit is taken back.
StopAtDestroy == /\ InSteps /\ deploying # None
                 /\ Destroys(deploying)
                 /\ deploying' = None
                 /\ head' = 2 /\ step' = "retain"
                 /\ UNCHANGED <<ecs, stack, plan, pointers, moved>>

\* CloudFormation rolls the deploy back, and the operator may not notice.
StepFails == /\ InSteps /\ deploying # None
             /\ ~Destroys(deploying)
             /\ deploying' = None
             /\ step' \in {step, IF step = "retain" THEN "remove" ELSE "verify"}
             /\ UNCHANGED <<ecs, stack, head, plan, pointers, moved>>

\* The service still runs the plan's revision, or else a pipeline has deployed since and the
\* plan is made again.
Verify == /\ To("verify", IF live = plan.revision THEN "contract" ELSE "plan")
          /\ UNCHANGED <<ecs, infra, plan, pointers, moved>>

\* 4. The contract files are written from the plan, and the application is deployed from them.
DeployContract == /\ To("contract", "audit")
                  /\ defs' = Append(defs, [content |-> Rendered(plan), active |-> TRUE])
                  /\ live' = Len(defs) + 1
                  /\ UNCHANGED <<infra, plan, pointers, moved>>

\* 5. ecsc drift finds nothing, or the application is deployed again.
Audit == /\ To("audit", IF defs[live].content = Rendered(plan) THEN "done" ELSE "contract")
         /\ UNCHANGED <<ecs, infra, plan, pointers, moved>>

Operator == \/ MakePlan \/ Publish \/ Commit \/ SynthesizeStep \/ DeployStep \/ StopAtDestroy
            \/ Verify \/ DeployContract \/ Audit

-------------------------------------------------------------------------------
\* Others

Between == step \in {"retain", "remove"} /\ head # 0

\* The old pipeline deploys a revision of its own, until the contract is deployed.
OldPipeline == /\ Len(defs) <= MaxDeploys
               /\ step \notin {"audit", "done"}
               /\ \E c \in Contents : defs' = Append(defs, [content |-> c, active |-> TRUE])
               /\ live' = Len(defs) + 1
               /\ moved' = TRUE
               /\ UNCHANGED <<infra, step, plan, pointers>>

\* Infrastructure changes the task definition that commit 0 owns: CloudFormation registers the
\* new one, moves the service to it, and deregisters the old one.
ReplaceOwned == /\ head = 0 /\ stack.commit = 0 /\ deploying = None
                /\ Len(defs) <= MaxDeploys
                /\ \E c \in Contents :
                     defs' = Append([defs EXCEPT ![stack.owned].active = FALSE],
                                    [content |-> c, active |-> TRUE])
                /\ live' = Len(defs) + 1
                /\ stack' = [stack EXCEPT !.service = Len(defs) + 1, !.owned = Len(defs) + 1]
                /\ moved' = TRUE
                /\ UNCHANGED <<head, deploying, step, plan, pointers>>

\* Somebody else's deploy of the stack, synthesized from the head.
SynthesizeOther == /\ ~Between
                   /\ Synthesize
                   /\ UNCHANGED operator

DeployOther == /\ ~Between /\ deploying # None
               /\ Update(deploying)
               /\ deploying' = None
               /\ UNCHANGED <<head, operator>>

OtherFails == /\ ~Between /\ deploying # None
              /\ deploying' = None
              /\ UNCHANGED <<ecs, stack, head, operator>>

Next == \/ Operator \/ StepFails
        \/ OldPipeline \/ ReplaceOwned \/ SynthesizeOther \/ DeployOther \/ OtherFails

\* The operator goes on, between the deploys of others, which end; the operator's own deploys
\* fail finitely often, but for a failure that changes what the deploy would have.
Spec == /\ Init /\ [][Next]_vars
        /\ SF_vars(Operator) /\ WF_vars(DeployOther) /\ <>[][StepFails => Operator]_vars

TypeOK == /\ defs \in Seq([content : [Names -> Entries], active : BOOLEAN])
          /\ live \in Revisions
          /\ stack \in Template /\ stack.owned \in Revisions \cup {0}
          /\ head \in {0, 2, 3}
          /\ deploying \in Template \cup {None}
          /\ step \in Steps
          /\ plan = None \/ plan.revision \in Revisions
          /\ pointers \in [Pointers -> Targets \cup {None}]
          /\ moved \in BOOLEAN

\* "The wrong order deregisters the running revision" (SPEC.md 7), and this one never does:
\* whichever deploys fail without being noticed, whatever the pipelines and others deploy, and
\* whether the live revision is the stack's own or a pipeline's.
LiveIsActive == defs[live].active

\* "Verify the service still runs" the plan's revision (migrate.py:110): steps 2 and 3 and the
\* deploys of others leave the service where the plan found it, if no pipeline has moved it
\* since, nor under a deploy of the stack that was in progress when the plan was made.
StepsKeepLive == step \in {"publish", "retain", "remove", "verify", "contract"} /\ ~moved =>
                   live = plan.revision

\* A binding that a plan cannot say: to the parameter of another account or region, to a version
\* of a secret, or to a parameter by a name that is no path.
Lost(e) == e.pin # None \/ (e.kind = "parameter" /\ Path[e.of] # e.of)

\* The first deploy from contract files written from the plan, if the revision is still the plan's,
\* binds every variable that the plan does not warn of: to just what it was bound to before if the
\* plan can say so, and otherwise to something else, although without a warning (migrate.py:41-54);
\* even then it is bound to a source of the same kind, at the same key, and a secret to that secret.
ContractBindsTheSame ==
  [][step = "contract" /\ step' = "audit" /\ live = plan.revision =>
       LET old == defs[live].content
           new == defs'[live'].content
       IN  \A n \in Names \ Warned(old) :
             /\ new[n] = old[n] <=> ~Lost(old[n])
             /\ new[n].kind = old[n].kind /\ new[n].key = old[n].key
             /\ old[n].kind = "secret" => new[n].of = old[n].of]_vars

===============================================================================
