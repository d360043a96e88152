-------------------------------- MODULE Prepare --------------------------------
(***************************************************************************)
(* `ecsc render` and `ecsc drift`: _prepare of src/src/ecs_contract/cli.py, *)
(* with sources.py (what each secret of the contract is bound to),         *)
(* render.py (the next task definition) and drift.py (what would change).  *)
(*                                                                         *)
(* A run reads the account one call at a time, while infrastructure        *)
(* publishes parameters, owners write secrets, the deploy role gains and   *)
(* loses permissions and somebody changes the service.  The contract has   *)
(* been checked (contract.py); its literal parameters are one value, the   *)
(* container's environment, and secret values are nowhere.                 *)
(***************************************************************************)
EXTENDS Naturals

CONSTANTS Keys,        \* names under secrets in the contract
          OtherNames,  \* names that a container may have among its secrets besides
          Parameters,  \* names in the parameter store
          Arns,        \* complete ARNs of secrets
          JsonKeys,    \* keys inside a secret
          ConfigArns,  \* ARNs the service's own config secret can have
          Images,
          Environments, \* what a container's environment can be
          Literals,     \* the environment that the contract gives
          None,         \* not there, not given, not bound
          Unfit,        \* a parameter that is no ARN, a secret that is no JSON object
          MaxRuns, MaxChanges  \* bounds on runs, and on changes of the account beside them

Sources == [kind : {"pointer"}, parameter : Parameters, jsonKey : JsonKeys \cup {None}]
             \cup [kind : {"parameter"}, parameter : Parameters]
             \cup [kind : {"vault"}]

\* valueFrom of a secret in a task definition: kind, resource, key inside it.
ValuesFrom == [kind : {"pointer"}, of : Arns, key : JsonKeys \cup {None}]
                \cup [kind : {"parameter"}, of : Parameters, key : {None}]
                \cup [kind : {"vault"}, of : ConfigArns, key : Keys]
From(kind, of, key) == [kind |-> kind, of |-> of, key |-> key]

ASSUME PrepareAssumption ==
  /\ Literals \in Environments
  /\ None \notin Keys \cup Arns \cup ConfigArns \cup Images \cup ValuesFrom
  /\ Unfit \notin Arns
  /\ Keys \cap OtherNames = {}
  /\ MaxRuns \in Nat /\ MaxChanges \in Nat

Names == Keys \cup OtherNames
Secrets == [Names -> ValuesFrom \cup {None}]
Containers == [environment : Environments, secrets : Secrets, image : Images]
Options == [drift : BOOLEAN, image : Images \cup {None}]  \* drift or render; --image

VARIABLES
  contract,   \* the source of each key
  parameter,  \* what each parameter holds
  secret,     \* the keys of each secret's JSON object
  config,     \* the ARN of the config secret
  denied,     \* the deploy role may not read secrets
  container,  \* the container of the revision that the service names
  at,         \* where the run is
  args,       \* drift or render, and the image asked for
  todo,       \* keys not resolved yet
  found,      \* the config secret's ARN, once looked up
  probing,    \* the key whose secret is looked into
  held,       \* the ARN that its pointer's parameter held
  bindings, problems, warnings,   \* Resolution
  rendered,   \* the next container
  outcome,
  past,       \* the account at every moment of the run
  runs, changes

account == [parameter |-> parameter, secret |-> secret, config |-> config, denied |-> denied,
            container |-> container]
world == <<parameter, secret, config, denied, container>>
reading == <<found, probing, held>>
resolution == <<todo, reading, bindings, problems, warnings>>
vars == <<contract, world, at, args, resolution, rendered, outcome, past, runs, changes>>

Unbound == [n \in Names |-> None]
NoContainer == [environment |-> Literals, secrets |-> Unbound, image |-> None]

Init == /\ contract \in [Keys -> Sources]
        /\ parameter \in [Parameters -> Arns]
        /\ secret = [a \in Arns |-> JsonKeys]
        /\ config \in ConfigArns
        /\ denied \in BOOLEAN
        /\ container \in {c \in Containers : c.secrets = Unbound}
        /\ at = "idle"
        /\ args = [drift |-> FALSE, image |-> None]
        /\ todo = {} /\ found = None /\ probing = None /\ held = None
        /\ bindings = Unbound /\ problems = {} /\ warnings = {}
        /\ rendered = NoContainer
        /\ outcome = "none yet"
        /\ past = {}
        /\ runs = 0 /\ changes = 0

-------------------------------------------------------------------------------
\* A run

VaultKeys == {k \in Keys : contract[k].kind = "vault"}

Begin == /\ at \in {"idle", "done"}
         /\ runs < MaxRuns
         /\ runs' = runs + 1
         /\ args' \in Options
         /\ at' = "config"
         /\ todo' = Keys /\ found' = None /\ probing' = None /\ held' = None
         /\ bindings' = Unbound /\ problems' = {} /\ warnings' = {}
         /\ rendered' = NoContainer
         /\ outcome' = "none yet"
         /\ past' = {account}
         /\ UNCHANGED <<contract, world, changes>>

Ends(how) == at' = "done" /\ outcome' = how

\* config_secret_arn: one problem for every vault key if the config secret is not there, or
\* --config-secret is not given.
FindConfig == /\ at = "config"
              /\ at' = "resolve"
              /\ \/ found' = IF VaultKeys = {} THEN None ELSE config
                 \/ found' = None
              /\ problems' = IF found' = None THEN VaultKeys ELSE {}
              /\ UNCHANGED <<contract, world, args, todo, probing, held, bindings, warnings,
                             rendered, outcome, past, runs, changes>>

Bind(k, from) == bindings' = [bindings EXCEPT ![k] = from] /\ problems' = problems
Report(k) == bindings' = bindings /\ problems' = problems \cup {k}

Resolving(k) == at = "resolve" /\ k \in todo /\ todo' = todo \ {k}

\* Not the code: vault keys are left to sync.
ResolveVaultLater(k) ==
  /\ Resolving(k)
  /\ contract[k].kind = "vault"
  /\ UNCHANGED <<contract, world, at, args, reading, bindings, problems, warnings,
                 rendered, outcome, past, runs, changes>>

ResolveVault(k) == /\ Resolving(k)
                   /\ contract[k].kind = "vault"
                   /\ IF found = None THEN UNCHANGED <<bindings, problems>>
                      ELSE Bind(k, From("vault", found, k))
                   /\ UNCHANGED <<contract, world, at, args, reading, warnings, rendered,
                                  outcome, past, runs, changes>>

\* A parameter that does not exist or cannot be read is a problem of its key.
ResolveParameter(k) ==
  /\ Resolving(k)
  /\ contract[k].kind = "parameter"
  /\ \/ /\ parameter[contract[k].parameter] # None
        /\ Bind(k, From("parameter", contract[k].parameter, None))
     \/ Report(k)
  /\ UNCHANGED <<contract, world, at, args, reading, warnings, rendered, outcome, past,
                 runs, changes>>

\* Not the code: what the pointer's parameter holds is not looked at.
ResolvePointerUnchecked(k) ==
  /\ Resolving(k)
  /\ contract[k].kind = "pointer"
  /\ Bind(k, From("pointer", parameter[contract[k].parameter], contract[k].jsonKey))
  /\ UNCHANGED <<contract, world, at, args, reading, warnings, rendered, outcome, past,
                 runs, changes>>

\* A pointer's parameter is read; with a jsonKey the secret it names is looked into next.
ResolvePointer(k) ==
  /\ Resolving(k)
  /\ contract[k].kind = "pointer"
  /\ LET arn == parameter[contract[k].parameter]
         key == contract[k].jsonKey
     IN \/ Report(k) /\ UNCHANGED <<at, probing, held>>
        \/ /\ arn \in Arns /\ key = None
           /\ Bind(k, From("pointer", arn, None))
           /\ UNCHANGED <<at, probing, held>>
        \/ /\ arn \in Arns /\ key # None
           /\ at' = "probe" /\ probing' = k /\ held' = arn
           /\ UNCHANGED <<bindings, problems>>
  /\ UNCHANGED <<contract, world, args, found, warnings, rendered, outcome, past, runs, changes>>

Holds(contents, key) == contents \notin {None, Unfit} /\ key \in contents

Seen == Holds(secret[held], contract[probing].jsonKey)
Kept == Bind(probing, From("pointer", held, contract[probing].jsonKey))
Probed == /\ at = "probe" /\ at' = "resolve"
          /\ UNCHANGED <<contract, world, args, todo, reading, rendered, outcome, past, runs,
                         changes>>

\* Not the code: a denied read counts as a key that is there.
ProbeTrusting == /\ Probed
                 /\ ((denied \/ Seen) /\ Kept) \/ Report(probing)
                 /\ warnings' = warnings

\* Not the code: a failed read has no message of its own and the key is passed over.
ProbeForgetting == /\ Probed
                   /\ (~denied /\ Seen /\ Kept) \/ UNCHANGED <<bindings, problems>>
                   /\ warnings' = warnings

\* _probe_json_key: a key that is seen is bound, one that may not be looked for is bound with
\* a warning, and one that is missing, or whose secret cannot be read, is a problem.
Probe == /\ Probed
         /\ \/ ~denied /\ Seen /\ Kept /\ warnings' = warnings
            \/ denied /\ Kept /\ warnings' = warnings \cup {probing}
            \/ Report(probing) /\ warnings' = warnings

Resolved == /\ at = "resolve" /\ todo = {}
            /\ IF problems = {} THEN at' = "live" /\ UNCHANGED outcome ELSE Ends("refused")
            /\ UNCHANGED <<contract, world, args, resolution, rendered, past, runs, changes>>

\* render: the container's three fields from the contract and the options.
Rendered(current) ==
  [environment |-> Literals, secrets |-> bindings,
   image |-> IF args.image = None THEN current.image ELSE args.image]

\* Not the code: compares the names that the contract has.
DiffersOnKeys(new, old) == \/ new.environment # old.environment
                           \/ \E n \in Keys : new.secrets[n] # old.secrets[n]
                           \/ args.image # None /\ new.image # old.image

\* compare: names on one side only, other values, and the image if one is asked for.
Differs(new, old) == \/ new.environment # old.environment
                     \/ \E n \in Names : new.secrets[n] # old.secrets[n]
                     \/ args.image # None /\ new.image # old.image

\* The service is described, then its task definition, which never changes; then render, and
\* drift compares.
ReadLive == /\ at = "live"
            /\ rendered' = Rendered(container)
            /\ Ends(IF ~args.drift THEN "written"
                    ELSE IF Differs(rendered', container) THEN "differs" ELSE "no drift")
            /\ UNCHANGED <<contract, world, args, resolution, past, runs, changes>>

\* The service, or the container in it, is not to be found.
RefuseLive == /\ at = "live"
              /\ Ends("refused")
              /\ UNCHANGED <<contract, world, args, resolution, rendered, past, runs, changes>>

\* An AWS call fails in a way that no step handles; main reports it.
Fails == /\ at \in {"config", "resolve", "live"}
         /\ Ends("failed")
         /\ UNCHANGED <<contract, world, args, resolution, rendered, past, runs, changes>>

-------------------------------------------------------------------------------
\* The account

Changes == /\ changes < MaxChanges
           /\ changes' = changes + 1
           /\ past' = past \cup {account'}
           /\ UNCHANGED <<contract, at, args, resolution, rendered, outcome, runs>>

Publish == /\ \E p \in Parameters, v \in Arns \cup {None, Unfit} :
                parameter' = [parameter EXCEPT ![p] = v]
           /\ UNCHANGED <<secret, config, denied, container>>
           /\ Changes

WriteSecret == /\ \E a \in Arns, v \in (SUBSET JsonKeys) \cup {None, Unfit} :
                    secret' = [secret EXCEPT ![a] = v]
               /\ UNCHANGED <<parameter, config, denied, container>>
               /\ Changes

MoveConfig == /\ config' \in ConfigArns \cup {None}
              /\ UNCHANGED <<parameter, secret, denied, container>>
              /\ Changes

Permit == /\ denied' = ~denied
          /\ UNCHANGED <<parameter, secret, config, container>>
          /\ Changes

ByHand == /\ \/ \E n \in Names, from \in ValuesFrom \cup {None} :
                  container' = [container EXCEPT !.secrets = [@ EXCEPT ![n] = from]]
             \/ \E e \in Environments, i \in Images :
                  container' = [container EXCEPT !.environment = e, !.image = i]
          /\ UNCHANGED <<parameter, secret, config, denied>>
          /\ Changes

\* What the run wrote is registered and becomes the service's revision.
Deployed == /\ outcome = "written"
            /\ container' = rendered
            /\ outcome' = "deployed"
            /\ UNCHANGED <<contract, parameter, secret, config, denied, at, args, resolution,
                           rendered, past, runs, changes>>

-------------------------------------------------------------------------------
Next == \/ Begin \/ FindConfig \/ Probe \/ Resolved \/ ReadLive \/ RefuseLive \/ Fails
        \/ \E k \in Keys : ResolveVault(k) \/ ResolveParameter(k) \/ ResolvePointer(k)
        \/ Publish \/ WriteSecret \/ MoveConfig \/ Permit \/ ByHand \/ Deployed

Spec == Init /\ [][Next]_vars

AccountTypes == /\ contract \in [Keys -> Sources]
                /\ parameter \in [Parameters -> Arns \cup {None, Unfit}]
                /\ secret \in [Arns -> (SUBSET JsonKeys) \cup {None, Unfit}]
                /\ config \in ConfigArns \cup {None}
                /\ denied \in BOOLEAN
                /\ container \in Containers
                /\ changes \in 0..MaxChanges

ResolutionTypes ==
  /\ at \in {"idle", "config", "resolve", "probe", "live", "done"}
  /\ todo \subseteq Keys
  /\ found \in ConfigArns \cup {None}
  /\ probing \in Keys \cup {None} /\ held \in Arns \cup {None}
  /\ at = "probe" => probing # None /\ held # None /\ contract[probing].kind = "pointer"
  /\ bindings \in Secrets
  /\ problems \subseteq Keys /\ warnings \subseteq Keys

ResultTypes ==
  /\ args \in Options
  /\ rendered \in Containers \cup {NoContainer}
  /\ outcome \in {"none yet", "refused", "failed", "written", "deployed", "no drift", "differs"}
  /\ outcome = "written" => rendered \in Containers
  /\ runs \in 0..MaxRuns

TypeOK == AccountTypes /\ ResolutionTypes /\ ResultTypes

\* What SPEC.md 3.2 and 4 say the source of key k resolves to, when its parameter is read in
\* account a and the secret behind it in account b: one valueFrom or none.
Gives(source, k, a, b) ==
  CASE source.kind = "vault" -> {From("vault", a.config, k)} \cap ValuesFrom
    [] source.kind = "parameter" ->
         IF a.parameter[source.parameter] = None THEN {}
         ELSE {From("parameter", source.parameter, None)}
    [] source.kind = "pointer" ->
         {From("pointer", arn, source.jsonKey) :
            arn \in {x \in Arns : /\ a.parameter[source.parameter] = x
                                  /\ \/ source.jsonKey = None
                                     \/ b.denied
                                     \/ Holds(b.secret[x], source.jsonKey)}}

\* All it has resolved to since the run began.
Given(k) == UNION {Gives(contract[k], k, a, b) : a \in past, b \in past}

\* A rendered task definition binds the keys of the contract, every one of them, to what the
\* key's source gave at some moment of the run, and nothing else: no failure on the way to a
\* source, and no change of the account between two reads, loses a key or lets a binding of
\* the live revision through (sources.py:85-158, cli.py:264-268).
RendersTheContract == outcome = "written" =>
  /\ rendered.environment = Literals
  /\ \A k \in Keys : rendered.secrets[k] \in Given(k)
  /\ \A n \in OtherNames : rendered.secrets[n] = None

\* A jsonKey bound without a warning was seen in the secret during the run; a warning means
\* that the role was denied ("keep the documented denied-read mode distinct from failed reads
\* and proven absence", sources.py:151).
UnwarnedKeysWereSeen == outcome \in {"written", "no drift", "differs"} =>
  \A k \in Keys : contract[k].kind = "pointer" /\ contract[k].jsonKey # None =>
    IF k \in warnings THEN \E b \in past : b.denied
    ELSE \E b \in past : Holds(b.secret[bindings[k].of], contract[k].jsonKey)

\* "drift: none" is true: at some moment of the audit the service ran what the contract gave
\* during the audit, with no other secret, and the image asked for (drift.py:28-47).
NoDriftIsTrue == outcome = "no drift" => \E a \in past :
  /\ a.container.environment = Literals
  /\ \A k \in Keys : a.container.secrets[k] \in Given(k)
  /\ \A n \in OtherNames : a.container.secrets[n] = None
  /\ args.image \in {None, a.container.image}

\* A reported difference is one: while the account stands still an audit never finds drift in
\* a service that runs what the contract gives, so none right after a deploy (SPEC.md 7, 9).
DriftIsTrue == outcome = "differs" => \E a \in past :
  \/ a.container.environment # Literals
  \/ \E k \in Keys : Given(k) # {a.container.secrets[k]}
  \/ \E n \in OtherNames : a.container.secrets[n] # None
  \/ args.image \notin {None, a.container.image}

-------------------------------------------------------------------------------
\* Why the properties hold.

Underway == at \notin {"idle", "done"}

\* What a run has read, the account held at some moment of the run.
ReadsArePast ==
  /\ Underway => account \in past
  /\ found # None => \E a \in past : a.config = found
  /\ at = "probe" => /\ contract[probing].jsonKey # None
                     /\ \E a \in past : a.parameter[contract[probing].parameter] = held
  /\ \A k \in Keys : bindings[k] # None => bindings[k] \in Given(k)

\* A key is bound, reported or still to do.
KeysAreAccountedFor ==
  /\ Underway => \A k \in Keys : \/ k \in todo \cup problems
                                  \/ bindings[k] # None
                                  \/ (at = "probe" /\ probing = k)
  /\ at \in {"resolve", "probe"} /\ found = None => VaultKeys \subseteq problems
  /\ at = "config" => todo = Keys
  /\ at = "live" => todo = {} /\ problems = {}
  /\ \A n \in OtherNames : bindings[n] = None

WarningsArePast ==
  /\ \A k \in warnings : \E b \in past : b.denied
  /\ \A k \in Keys \ warnings :
       contract[k].kind = "pointer" /\ contract[k].jsonKey # None /\ bindings[k] # None =>
         \E b \in past : Holds(b.secret[bindings[k].of], contract[k].jsonKey)

\* What a run ends with is made of its bindings and of one container that was live.
EndsOnBindings ==
  /\ outcome \in {"written", "no drift", "differs"} =>
       at = "done" /\ \A k \in Keys : bindings[k] # None
  /\ outcome = "written" => rendered.environment = Literals /\ rendered.secrets = bindings
  /\ outcome = "no drift" => \E a \in past :
       /\ a.container.environment = Literals
       /\ \A n \in Names : a.container.secrets[n] = bindings[n]
       /\ args.image \in {None, a.container.image}
  /\ outcome = "differs" => \E a \in past :
       \/ a.container.environment # Literals
       \/ \E n \in Names : a.container.secrets[n] # bindings[n]
       \/ args.image \notin {None, a.container.image}

RunsAreFaithful == ReadsArePast /\ KeysAreAccountedFor /\ WarningsArePast /\ EndsOnBindings
===============================================================================
