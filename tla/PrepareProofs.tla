---------------------------- MODULE PrepareProofs ----------------------------
(***************************************************************************)
(* What a run of render or drift reports is true, for every contract, every *)
(* account and any number of changes of the account in between: Prepare     *)
(* with RunsAreFaithful as its inductive invariant.                         *)
(***************************************************************************)
EXTENDS Prepare, TLAPS

-------------------------------------------------------------------------------
(* Types                                                                   *)

\* The bounds are numbers.
LEMMA Limits == MaxRuns \in Nat /\ MaxChanges \in Nat
BY PrepareAssumption

\* None is no name, ARN, image or binding.
LEMMA NoneIsApart ==
  /\ None \notin Keys /\ None \notin Arns /\ None \notin ConfigArns /\ None \notin Images
  /\ None \notin ValuesFrom
BY PrepareAssumption

\* The three kinds of source make bindings: a pointer,
LEMMA PointerValue ==
  ASSUME NEW arn \in Arns, NEW key \in JsonKeys \cup {None}
  PROVE  From("pointer", arn, key) \in ValuesFrom
BY DEF ValuesFrom, From

\* a parameter
LEMMA ParameterValue ==
  ASSUME NEW p \in Parameters PROVE From("parameter", p, None) \in ValuesFrom
BY DEF ValuesFrom, From

\* and a key of the config secret.
LEMMA VaultValue ==
  ASSUME NEW arn \in ConfigArns, NEW k \in Keys PROVE From("vault", arn, k) \in ValuesFrom
BY DEF ValuesFrom, From

\* The fields of a source, by its kind.
LEMMA SourceTypes ==
  ASSUME contract \in [Keys -> Sources], NEW k \in Keys
  PROVE  /\ contract[k].kind \in {"pointer", "parameter"} => contract[k].parameter \in Parameters
         /\ contract[k].kind = "pointer" => contract[k].jsonKey \in JsonKeys \cup {None}
         /\ contract[k].kind \in {"pointer", "parameter", "vault"}
<1>1. contract[k] \in Sources
  OBVIOUS
<1> QED
  BY <1>1 DEF Sources

\* Binding one more name.
LEMMA BoundSecrets ==
  ASSUME NEW secrets \in Secrets, NEW n \in Names, NEW from \in ValuesFrom \cup {None}
  PROVE  [secrets EXCEPT ![n] = from] \in Secrets
BY DEF Secrets

\* No name is bound.
LEMMA UnboundType == Unbound \in Secrets
BY DEF Unbound, Secrets

\* The steps of a run keep the types,
LEMMA RunTypeStep ==
  ASSUME TypeOK,
         \/ Begin \/ FindConfig \/ Probe \/ Resolved \/ ReadLive \/ RefuseLive \/ Fails
         \/ \E k \in Keys : ResolveVault(k) \/ ResolveParameter(k) \/ ResolvePointer(k)
  PROVE  TypeOK'
<1>1. AccountTypes'
  <2>1. UNCHANGED <<contract, parameter, secret, config, denied, container, changes>>
    BY DEF Begin, FindConfig, Probe, Probed, Resolved, ReadLive, RefuseLive, Fails, ResolveVault,
           ResolveParameter, ResolvePointer, world
  <2> QED
    BY <2>1 DEF TypeOK, AccountTypes
<1>2. CASE Begin
  <2>1. ResolutionTypes'
    BY <1>2, UnboundType, PrepareAssumption DEF TypeOK, ResolutionTypes, Begin
  <2>2. rendered' \in Containers \cup {NoContainer}
    BY <1>2 DEF Begin
  <2>3. args' \in Options /\ outcome' = "none yet"
    BY <1>2 DEF Begin
  <2>4. runs' \in 0..MaxRuns
    <3>1. runs < MaxRuns /\ runs' = runs + 1
      BY <1>2 DEF Begin
    <3>2. runs \in 0..MaxRuns
      BY DEF TypeOK, ResultTypes
    <3> QED
      BY <3>1, <3>2, Limits
  <2>5. ResultTypes'
    BY <2>2, <2>3, <2>4, Zenon DEF ResultTypes
  <2> QED
    BY <1>1, <2>1, <2>5 DEF TypeOK
<1>3. CASE FindConfig
  BY <1>1, <1>3 DEF FindConfig, VaultKeys, TypeOK, ResolutionTypes, ResultTypes, AccountTypes, world
<1>4. CASE Probe
  <2>1. ResolutionTypes'
    BY <1>4, SourceTypes, PointerValue, BoundSecrets, PrepareAssumption
    DEF TypeOK, AccountTypes, ResolutionTypes, Probe, Probed, Kept, Bind, Report, reading, Names
  <2>2. ResultTypes'
    BY <1>4 DEF TypeOK, ResultTypes, Probe, Probed
  <2> QED
    BY <1>1, <2>1, <2>2 DEF TypeOK
<1>5. CASE Resolved \/ ReadLive \/ RefuseLive \/ Fails
  <2>1. ResolutionTypes'
    BY <1>5 DEF TypeOK, ResolutionTypes, Resolved, ReadLive, RefuseLive, Fails, Ends, resolution,
                reading
  <2>2. Rendered(container) \in Containers
    BY PrepareAssumption
    DEF TypeOK, AccountTypes, ResolutionTypes, ResultTypes, Rendered, Containers, Options
  <2>3. ResultTypes'
    BY <1>5, <2>2 DEF TypeOK, ResultTypes, Resolved, ReadLive, RefuseLive, Fails, Ends
  <2> QED
    BY <1>1, <2>1, <2>3 DEF TypeOK
<1>6. ASSUME NEW k \in Keys, ResolveVault(k) \/ ResolveParameter(k) \/ ResolvePointer(k)
      PROVE  TypeOK'
  <2>1. /\ todo' \subseteq Keys /\ problems' \subseteq Keys /\ warnings' \subseteq Keys
        /\ found' \in ConfigArns \cup {None}
    BY <1>6 DEF ResolveVault, ResolveParameter, ResolvePointer, Resolving, Bind, Report, reading,
                TypeOK, ResolutionTypes
  <2>2. bindings' \in Secrets
    <3>1. ASSUME NEW from \in ValuesFrom, Bind(k, from) PROVE bindings' \in Secrets
      <4>1. bindings \in Secrets /\ k \in Names /\ from \in ValuesFrom \cup {None}
        BY DEF Names, TypeOK, ResolutionTypes
      <4>2. [bindings EXCEPT ![k] = from] \in Secrets
        BY <4>1, BoundSecrets
      <4> QED
        BY <3>1, <4>2 DEF Bind
    <3>2. CASE ResolveVault(k)
      BY <3>1, <3>2, VaultValue DEF ResolveVault, TypeOK, ResolutionTypes
    <3>3. CASE ResolveParameter(k)
      BY <3>1, <3>3, SourceTypes, ParameterValue
      DEF ResolveParameter, Report, TypeOK, AccountTypes, ResolutionTypes
    <3>4. CASE ResolvePointer(k)
      BY <3>1, <3>4, PointerValue DEF ResolvePointer, Report, TypeOK, ResolutionTypes
    <3> QED
      BY <1>6, <3>2, <3>3, <3>4
  <2>3. /\ at' \in {"idle", "config", "resolve", "probe", "live", "done"}
        /\ probing' \in Keys \cup {None} /\ held' \in Arns \cup {None}
        /\ at' = "probe" =>
             probing' # None /\ held' # None /\ contract'[probing'].kind = "pointer"
    BY <1>6, NoneIsApart DEF ResolveVault, ResolveParameter, ResolvePointer, Resolving, reading,
                             TypeOK, ResolutionTypes
  <2>4. ResolutionTypes'
    BY <2>1, <2>2, <2>3, Zenon DEF ResolutionTypes
  <2>5. ResultTypes'
    BY <1>6 DEF ResolveVault, ResolveParameter, ResolvePointer, TypeOK, ResultTypes
  <2> QED
    BY <1>1, <2>4, <2>5 DEF TypeOK
<1> QED
  BY <1>2, <1>3, <1>4, <1>5, <1>6

\* so do the changes of the account,
LEMMA AccountTypeStep ==
  ASSUME TypeOK, Publish \/ WriteSecret \/ MoveConfig \/ Permit \/ ByHand \/ Deployed
  PROVE  TypeOK'
<1>1. ResolutionTypes'
  BY DEF TypeOK, ResolutionTypes, Publish, WriteSecret, MoveConfig, Permit, ByHand, Deployed,
         Changes, resolution, reading
<1>2. ResultTypes'
  BY DEF TypeOK, ResultTypes, Publish, WriteSecret, MoveConfig, Permit, ByHand, Deployed, Changes
<1>3. container' \in Containers
  <2>1. CASE ByHand
    <3>1. ASSUME NEW n \in Names, NEW from \in ValuesFrom \cup {None},
                 container' = [container EXCEPT !.secrets = [@ EXCEPT ![n] = from]]
          PROVE  container' \in Containers
      <4>1. container.secrets \in Secrets
        BY DEF TypeOK, AccountTypes, Containers
      <4>2. [container.secrets EXCEPT ![n] = from] \in Secrets
        BY <4>1, BoundSecrets
      <4> QED
        BY <3>1, <4>2 DEF TypeOK, AccountTypes, Containers
    <3> QED
      BY <2>1, <3>1 DEF ByHand, TypeOK, AccountTypes, Containers
  <2> QED
    BY <2>1 DEF TypeOK, AccountTypes, ResultTypes, Publish, WriteSecret, MoveConfig, Permit, Deployed
<1>4. contract' \in [Keys -> Sources] /\ parameter' \in [Parameters -> Arns \cup {None, Unfit}]
  BY DEF TypeOK, AccountTypes, Publish, WriteSecret, MoveConfig, Permit, ByHand, Deployed, Changes
<1>5. secret' \in [Arns -> (SUBSET JsonKeys) \cup {None, Unfit}]
  BY DEF TypeOK, AccountTypes, Publish, WriteSecret, MoveConfig, Permit, ByHand, Deployed
<1>6. config' \in ConfigArns \cup {None} /\ denied' \in BOOLEAN
  BY DEF TypeOK, AccountTypes, Publish, WriteSecret, MoveConfig, Permit, ByHand, Deployed
<1>7. changes' \in 0..MaxChanges
  <2>1. \/ changes < MaxChanges /\ changes' = changes + 1
        \/ changes' = changes
    BY DEF Publish, WriteSecret, MoveConfig, Permit, ByHand, Deployed, Changes
  <2>2. changes \in 0..MaxChanges
    BY DEF TypeOK, AccountTypes
  <2> QED
    BY <2>1, <2>2, Limits
<1>8. AccountTypes'
  BY <1>3, <1>4, <1>5, <1>6, <1>7, Zenon DEF AccountTypes
<1> QED
  BY <1>1, <1>2, <1>8 DEF TypeOK

\* and with them every step.
LEMMA TypeStep == TypeOK /\ [Next]_vars => TypeOK'
<1>1. CASE UNCHANGED vars
  <2>1. /\ UNCHANGED <<contract, parameter, secret, config, denied, container, at, args, todo>>
        /\ UNCHANGED <<found, probing, held, bindings, problems, warnings, rendered, outcome, runs>>
        /\ UNCHANGED changes
    BY <1>1 DEF vars, world, resolution, reading
  <2>2. AccountTypes' <=> AccountTypes
    BY <2>1, Zenon DEF AccountTypes
  <2>3. ResolutionTypes' <=> ResolutionTypes
    BY <2>1, Zenon DEF ResolutionTypes
  <2>4. ResultTypes' <=> ResultTypes
    BY <2>1, Zenon DEF ResultTypes
  <2> QED
    BY <2>2, <2>3, <2>4 DEF TypeOK
<1> QED
  BY <1>1, RunTypeStep, AccountTypeStep DEF Next

\* Every variable of a run and of the account keeps its type.
THEOREM PrepareTypeCorrect == Spec => []TypeOK
<1>1. Init => TypeOK
  <2> SUFFICES ASSUME Init PROVE TypeOK
    OBVIOUS
  <2>1. secret \in [Arns -> (SUBSET JsonKeys) \cup {None, Unfit}] /\ changes \in 0..MaxChanges
    <3>1. secret = [a \in Arns |-> JsonKeys] /\ changes = 0
      BY DEF Init
    <3> QED
      BY <3>1, Limits
  <2>2. parameter \in [Parameters -> Arns \cup {None, Unfit}]
    BY DEF Init
  <2>3. AccountTypes
    BY <2>1, <2>2 DEF Init, AccountTypes
  <2>4. ResolutionTypes
    BY UnboundType DEF Init, ResolutionTypes
  <2>5. args \in Options /\ runs \in 0..MaxRuns
    <3>1. args = [drift |-> FALSE, image |-> None] /\ runs = 0
      BY DEF Init
    <3> QED
      BY <3>1, Limits DEF Options
  <2>6. ResultTypes
    BY <2>5, Zenon DEF Init, ResultTypes
  <2> QED
    BY <2>3, <2>4, <2>6 DEF TypeOK
<1> QED
  BY <1>1, TypeStep, PTL DEF Spec

-------------------------------------------------------------------------------
(* What a source gives                                                     *)

\* What a source gives in two accounts of the past it has given.
LEMMA GivenInPast ==
  ASSUME NEW k, NEW a \in past, NEW b \in past, NEW v \in Gives(contract[k], k, a, b)
  PROVE  v \in Given(k)
BY DEF Given

\* What a source has given it goes on having given, whatever the account becomes.
LEMMA GivenGrows ==
  ASSUME NEW k, contract' = contract, past \subseteq past'
  PROVE  Given(k) \subseteq Given(k)'
BY DEF Given

\* What each kind of source gives in two accounts: a key of the config secret,
LEMMA VaultGives ==
  ASSUME NEW source, NEW k \in Keys, NEW a, NEW b, source.kind = "vault", a.config \in ConfigArns
  PROVE  From("vault", a.config, k) \in Gives(source, k, a, b)
<1>1. From("vault", a.config, k) \in ValuesFrom
  BY VaultValue
<1> QED
  BY <1>1 DEF Gives

\* a parameter,
LEMMA ParameterGives ==
  ASSUME NEW source, NEW k, NEW a, NEW b, source.kind = "parameter",
         a.parameter[source.parameter] # None
  PROVE  From("parameter", source.parameter, None) \in Gives(source, k, a, b)
BY DEF Gives

\* and a pointer, whose target may be looked into later.
LEMMA PointerGives ==
  ASSUME NEW source, NEW k, NEW a, NEW b, NEW arn \in Arns, source.kind = "pointer",
         a.parameter[source.parameter] = arn,
         \/ source.jsonKey = None \/ b.denied \/ Holds(b.secret[arn], source.jsonKey)
  PROVE  From("pointer", arn, source.jsonKey) \in Gives(source, k, a, b)
BY DEF Gives

-------------------------------------------------------------------------------
(* Runs are faithful                                                       *)

\* While a run goes on, nothing that it ends with has been said.
LEMMA NothingSaidYet ==
  ASSUME EndsOnBindings, at # "done", outcome' \in {outcome, "refused", "failed", "none yet"}
  PROVE  EndsOnBindings'
<1>1. outcome' \notin {"written", "no drift", "differs"}
  BY DEF EndsOnBindings
<1> QED
  BY <1>1 DEF EndsOnBindings

\* Changes of the account beside a run only add to its past.
LEMMA PastGrows ==
  ASSUME RunsAreFaithful,
         UNCHANGED <<contract, at, args, todo, found, probing, held>>,
         UNCHANGED <<bindings, problems, warnings, rendered>>,
         outcome' \in {outcome, "deployed"},
         past \subseteq past', Underway => account' \in past'
  PROVE  RunsAreFaithful'
<1>1. ReadsArePast'
  BY GivenGrows DEF RunsAreFaithful, ReadsArePast, Underway
<1>2. KeysAreAccountedFor'
  BY DEF RunsAreFaithful, KeysAreAccountedFor, Underway, VaultKeys
<1>3. WarningsArePast'
  BY DEF RunsAreFaithful, WarningsArePast
<1>4. EndsOnBindings'
  BY DEF RunsAreFaithful, EndsOnBindings
<1> QED
  BY <1>1, <1>2, <1>3, <1>4 DEF RunsAreFaithful

\* A step of a run that binds nothing.
LEMMA NothingBound ==
  ASSUME ReadsArePast, WarningsArePast, contract' = contract, past' = past,
         UNCHANGED world, UNCHANGED <<bindings, warnings>>, at \notin {"idle", "done"},
         found' \in {None, found, config},
         at' = "probe" => /\ contract[probing'].jsonKey # None
                          /\ parameter[contract[probing'].parameter] = held'
  PROVE  ReadsArePast' /\ WarningsArePast'
<1>1. account \in past /\ account' = account
  BY DEF ReadsArePast, Underway, account, world
<1>2. account.config = config /\ account.parameter = parameter
  BY DEF account
<1>3. found' # None => \E a \in past' : a.config = found'
  BY <1>1, <1>2 DEF ReadsArePast
<1>4. at' = "probe" => /\ contract'[probing'].jsonKey # None
                       /\ \E a \in past' : a.parameter[contract'[probing'].parameter] = held'
  BY <1>1, <1>2
<1>5. \A k \in Keys : bindings'[k] # None => bindings'[k] \in Given(k)'
  BY DEF ReadsArePast, Given
<1>6. WarningsArePast'
  BY DEF WarningsArePast
<1> QED
  BY <1>1, <1>3, <1>4, <1>5, <1>6 DEF ReadsArePast, Underway

\* A step of a run that binds key k to what its source gives.
LEMMA KeyBound ==
  ASSUME TypeOK, ReadsArePast, WarningsArePast, contract' = contract, past' = past,
         UNCHANGED world, found' = found, at \notin {"idle", "done"}, at' # "probe",
         NEW k \in Keys, NEW from \in Given(k), Bind(k, from),
         warnings \subseteq warnings', \A j \in warnings' : \E b \in past : b.denied,
         \/ contract[k].kind # "pointer"
         \/ contract[k].jsonKey = None
         \/ k \in warnings'
         \/ \E b \in past : Holds(b.secret[from.of], contract[k].jsonKey)
  PROVE  ReadsArePast' /\ WarningsArePast'
<1>1. account \in past /\ account' = account
  BY DEF ReadsArePast, Underway, account, world
<1>2. bindings \in Secrets /\ bindings' = [bindings EXCEPT ![k] = from] /\ k \in Names
  BY DEF TypeOK, ResolutionTypes, Bind, Names
<1>3. bindings'[k] = from /\ \A j \in Keys \ {k} : bindings'[j] = bindings[j]
  BY <1>2 DEF Secrets, Names
<1>4. \A j \in Keys : bindings'[j] # None => bindings'[j] \in Given(j)'
  BY <1>3 DEF ReadsArePast, Given
<1>5. ASSUME NEW j \in Keys \ warnings', contract'[j].kind = "pointer",
             contract'[j].jsonKey # None, bindings'[j] # None
      PROVE  \E b \in past' : Holds(b.secret[bindings'[j].of], contract'[j].jsonKey)
  BY <1>3, <1>5 DEF WarningsArePast
<1>6. WarningsArePast'
  BY <1>5 DEF WarningsArePast
<1> QED
  BY <1>1, <1>4, <1>6 DEF ReadsArePast, Underway

\* The key that was done next is bound.
LEMMA KeyAccounted ==
  ASSUME TypeOK, KeysAreAccountedFor, contract' = contract, found' = found,
         NEW k \in Keys, NEW from \in ValuesFrom, Bind(k, from), at' = "resolve",
         \/ at = "resolve" /\ todo' = todo \ {k}
         \/ at = "probe" /\ todo' = todo /\ probing = k
  PROVE  KeysAreAccountedFor'
<1>1. bindings \in Secrets /\ bindings' = [bindings EXCEPT ![k] = from] /\ problems' = problems
  BY DEF TypeOK, ResolutionTypes, Bind
<1>2. bindings'[k] = from /\ \A n \in Names \ {k} : bindings'[n] = bindings[n]
  BY <1>1 DEF Secrets, Names
<1>3. bindings'[k] # None
  BY <1>2, NoneIsApart
<1>4. k \notin OtherNames
  BY PrepareAssumption
<1> QED
  BY <1>1, <1>2, <1>3, <1>4 DEF KeysAreAccountedFor, Underway, VaultKeys, Names

\* The key that was done next is reported.
LEMMA KeyReported ==
  ASSUME RunsAreFaithful, contract' = contract, found' = found, past' = past, UNCHANGED world,
         NEW k \in Keys, Report(k), at' = "resolve", warnings' = warnings, EndsOnBindings',
         \/ at = "resolve" /\ todo' = todo \ {k}
         \/ at = "probe" /\ todo' = todo /\ probing = k
  PROVE  RunsAreFaithful'
<1>1. bindings' = bindings /\ problems' = problems \cup {k}
  BY DEF Report
<1>2. ReadsArePast' /\ WarningsArePast'
  BY <1>1, NothingBound DEF RunsAreFaithful
<1>3. KeysAreAccountedFor'
  BY <1>1 DEF RunsAreFaithful, KeysAreAccountedFor, Underway, VaultKeys
<1> QED
  BY <1>2, <1>3 DEF RunsAreFaithful

\* A run begins with nothing read and every key to do.
LEMMA BeginStep ==
  ASSUME TypeOK, RunsAreFaithful, Begin PROVE RunsAreFaithful'
<1>1. at' = "config" /\ todo' = Keys /\ found' = None /\ outcome' = "none yet"
  BY DEF Begin
<1>2. bindings' = Unbound /\ warnings' = {} /\ account' = account /\ past' = {account}
  BY DEF Begin, account, world
<1>3. \A n \in Names : bindings'[n] = None
  BY <1>2 DEF Unbound
<1>4. ReadsArePast'
  BY <1>1, <1>2, <1>3 DEF ReadsArePast, Underway, Names
<1>5. KeysAreAccountedFor'
  BY <1>1, <1>3 DEF KeysAreAccountedFor, Underway, Names
<1>6. WarningsArePast'
  BY <1>2, <1>3 DEF WarningsArePast, Names
<1>7. EndsOnBindings'
  BY <1>1 DEF EndsOnBindings
<1> QED
  BY <1>4, <1>5, <1>6, <1>7 DEF RunsAreFaithful

\* The config secret is found.
LEMMA FindConfigStep ==
  ASSUME TypeOK, RunsAreFaithful, FindConfig PROVE RunsAreFaithful'
<1>1. ReadsArePast' /\ WarningsArePast'
  BY NothingBound DEF FindConfig, RunsAreFaithful
<1>2. KeysAreAccountedFor'
  BY DEF FindConfig, RunsAreFaithful, KeysAreAccountedFor, Underway, VaultKeys
<1>3. EndsOnBindings'
  BY NothingSaidYet DEF FindConfig, RunsAreFaithful
<1> QED
  BY <1>1, <1>2, <1>3 DEF RunsAreFaithful

\* A key of the config secret is bound without being read.
LEMMA ResolveVaultStep ==
  ASSUME TypeOK, RunsAreFaithful, NEW k \in Keys, ResolveVault(k) PROVE RunsAreFaithful'
<1>1. /\ at = "resolve" /\ at' = "resolve" /\ todo' = todo \ {k} /\ contract[k].kind = "vault"
      /\ contract' = contract /\ past' = past /\ UNCHANGED world /\ found' = found
      /\ warnings' = warnings /\ outcome' = outcome
  BY DEF ResolveVault, Resolving, reading
<1>2. EndsOnBindings'
  BY <1>1, NothingSaidYet DEF RunsAreFaithful
<1>3. CASE found = None
  <2>1. UNCHANGED <<bindings, problems>>
    BY <1>3 DEF ResolveVault
  <2>2. ReadsArePast' /\ WarningsArePast'
    BY <1>1, <2>1, NothingBound DEF RunsAreFaithful
  <2>3. k \in problems
    BY <1>1, <1>3 DEF RunsAreFaithful, KeysAreAccountedFor, VaultKeys
  <2>4. KeysAreAccountedFor'
    BY <1>1, <1>3, <2>1, <2>3 DEF RunsAreFaithful, KeysAreAccountedFor, Underway, VaultKeys
  <2> QED
    BY <1>2, <2>2, <2>4 DEF RunsAreFaithful
<1>4. CASE found # None
  <2>1. Bind(k, From("vault", found, k))
    BY <1>4 DEF ResolveVault
  <2>2. found \in ConfigArns /\ From("vault", found, k) \in ValuesFrom
    BY <1>4, VaultValue DEF TypeOK, ResolutionTypes
  <2>3. PICK a \in past : a.config = found
    BY <1>4 DEF RunsAreFaithful, ReadsArePast
  <2>4. From("vault", found, k) \in Given(k)
    BY <1>1, <2>2, <2>3, VaultGives, GivenInPast
  <2>5. ReadsArePast' /\ WarningsArePast'
    BY <1>1, <2>1, <2>4, KeyBound DEF RunsAreFaithful, WarningsArePast
  <2>6. KeysAreAccountedFor'
    BY <1>1, <1>4, <2>1, <2>2, KeyAccounted DEF RunsAreFaithful
  <2> QED
    BY <1>2, <2>5, <2>6 DEF RunsAreFaithful
<1> QED
  BY <1>3, <1>4

\* A parameter is bound, or reported.
LEMMA ResolveParameterStep ==
  ASSUME TypeOK, RunsAreFaithful, NEW k \in Keys, ResolveParameter(k) PROVE RunsAreFaithful'
<1>1. /\ at = "resolve" /\ at' = "resolve" /\ todo' = todo \ {k} /\ contract[k].kind = "parameter"
      /\ contract' = contract /\ past' = past /\ UNCHANGED world /\ found' = found
      /\ warnings' = warnings /\ outcome' = outcome
  BY DEF ResolveParameter, Resolving, reading
<1>2. EndsOnBindings'
  BY <1>1, NothingSaidYet DEF RunsAreFaithful
<1>3. CASE Report(k)
  BY <1>1, <1>2, <1>3, KeyReported
<1>4. CASE /\ parameter[contract[k].parameter] # None
           /\ Bind(k, From("parameter", contract[k].parameter, None))
  <2>1. From("parameter", contract[k].parameter, None) \in ValuesFrom
    BY <1>1, SourceTypes, ParameterValue DEF TypeOK, AccountTypes
  <2>2. account \in past /\ account.parameter = parameter
    BY <1>1 DEF RunsAreFaithful, ReadsArePast, Underway, account
  <2>3. From("parameter", contract[k].parameter, None) \in Given(k)
    BY <1>1, <1>4, <2>2, ParameterGives, GivenInPast
  <2>4. ReadsArePast' /\ WarningsArePast'
    BY <1>1, <1>4, <2>3, KeyBound DEF RunsAreFaithful, WarningsArePast
  <2>5. KeysAreAccountedFor'
    BY <1>1, <1>4, <2>1, KeyAccounted DEF RunsAreFaithful
  <2> QED
    BY <1>2, <2>4, <2>5 DEF RunsAreFaithful
<1> QED
  BY <1>3, <1>4 DEF ResolveParameter

\* A pointer is bound, reported, or its target is looked into next.
LEMMA ResolvePointerStep ==
  ASSUME TypeOK, RunsAreFaithful, NEW k \in Keys, ResolvePointer(k) PROVE RunsAreFaithful'
<1> DEFINE arn == parameter[contract[k].parameter]
<1>1. /\ at = "resolve" /\ todo' = todo \ {k} /\ contract[k].kind = "pointer"
      /\ contract' = contract /\ past' = past /\ UNCHANGED world /\ found' = found
      /\ warnings' = warnings /\ outcome' = outcome
  BY DEF ResolvePointer, Resolving
<1>2. EndsOnBindings'
  BY <1>1, NothingSaidYet DEF RunsAreFaithful
<1>3. CASE Report(k) /\ at' = "resolve"
  BY <1>1, <1>2, <1>3, KeyReported
<1>4. CASE /\ arn \in Arns /\ contract[k].jsonKey = None /\ at' = "resolve"
           /\ Bind(k, From("pointer", arn, None))
  <2>1. From("pointer", arn, None) \in ValuesFrom
    BY <1>4, PointerValue
  <2>2. account \in past /\ account.parameter = parameter
    BY <1>1 DEF RunsAreFaithful, ReadsArePast, Underway, account
  <2>3. From("pointer", arn, contract[k].jsonKey) \in Gives(contract[k], k, account, account)
    BY <1>1, <1>4, <2>2, PointerGives
  <2>4. From("pointer", arn, None) \in Given(k)
    BY <1>4, <2>2, <2>3, GivenInPast
  <2>5. ReadsArePast' /\ WarningsArePast'
    BY <1>1, <1>4, <2>4, KeyBound DEF RunsAreFaithful, WarningsArePast
  <2>6. KeysAreAccountedFor'
    BY <1>1, <1>4, <2>1, KeyAccounted DEF RunsAreFaithful
  <2> QED
    BY <1>2, <2>5, <2>6 DEF RunsAreFaithful
<1>5. CASE /\ contract[k].jsonKey # None /\ at' = "probe" /\ probing' = k /\ held' = arn
           /\ UNCHANGED <<bindings, problems>>
  <2>1. ReadsArePast' /\ WarningsArePast'
    BY <1>1, <1>5, NothingBound DEF RunsAreFaithful
  <2>2. KeysAreAccountedFor'
    BY <1>1, <1>5 DEF RunsAreFaithful, KeysAreAccountedFor, Underway, VaultKeys
  <2> QED
    BY <1>2, <2>1, <2>2 DEF RunsAreFaithful
<1> QED
  BY <1>1, <1>3, <1>4, <1>5 DEF ResolvePointer

\* A target was looked into: its key is bound, reported, or bound with a warning.
LEMMA ProbeStep ==
  ASSUME TypeOK, RunsAreFaithful, Probe PROVE RunsAreFaithful'
<1> DEFINE k == probing
           key == contract[probing].jsonKey
           from == From("pointer", held, key)
<1>1. /\ at = "probe" /\ at' = "resolve" /\ todo' = todo /\ found' = found
      /\ contract' = contract /\ past' = past /\ UNCHANGED world /\ outcome' = outcome
  BY DEF Probe, Probed, reading
<1>2. k \in Keys /\ held \in Arns /\ contract[k].kind = "pointer" /\ key # None
  BY <1>1 DEF TypeOK, ResolutionTypes, RunsAreFaithful, ReadsArePast
<1>3. EndsOnBindings'
  BY <1>1, NothingSaidYet DEF RunsAreFaithful
<1>4. CASE Report(k) /\ warnings' = warnings
  BY <1>1, <1>2, <1>3, <1>4, KeyReported
<1>5. CASE Kept /\ \/ ~denied /\ Seen /\ warnings' = warnings
                   \/ denied /\ warnings' = warnings \cup {k}
  <2>1. from \in ValuesFrom /\ from.of = held
    BY <1>2, SourceTypes, PointerValue DEF TypeOK, AccountTypes, From
  <2>2. account \in past /\ account.secret = secret /\ (account.denied <=> denied)
    BY <1>1 DEF RunsAreFaithful, ReadsArePast, Underway, account
  <2>3. PICK a \in past : a.parameter[contract[k].parameter] = held
    BY <1>1 DEF RunsAreFaithful, ReadsArePast
  <2>4. account.denied \/ Holds(account.secret[held], key)
    BY <1>5, <2>2 DEF Seen
  <2>5. from \in Given(k)
    BY <1>2, <2>2, <2>3, <2>4, PointerGives, GivenInPast
  <2>6. warnings \subseteq warnings' /\ \A j \in warnings' : \E b \in past : b.denied
    BY <1>5, <2>2 DEF RunsAreFaithful, WarningsArePast
  <2>7. k \in warnings' \/ \E b \in past : Holds(b.secret[from.of], key)
    BY <1>5, <2>1, <2>2 DEF Seen
  <2>8. ReadsArePast' /\ WarningsArePast'
    BY <1>1, <1>2, <1>5, <2>5, <2>6, <2>7, KeyBound DEF RunsAreFaithful, Kept
  <2>9. KeysAreAccountedFor'
    BY <1>1, <1>2, <1>5, <2>1, KeyAccounted DEF RunsAreFaithful, Kept
  <2> QED
    BY <1>3, <2>8, <2>9 DEF RunsAreFaithful
<1> QED
  BY <1>4, <1>5 DEF Probe

\* With every key done a run goes on to the live revision; or it ends without a result.
LEMMA EndStep ==
  ASSUME TypeOK, RunsAreFaithful, Resolved \/ RefuseLive \/ Fails PROVE RunsAreFaithful'
<1>1. /\ at \in {"config", "resolve", "live"} /\ at' \in {"live", "done"}
      /\ at' = "live" => todo = {} /\ problems = {}
      /\ contract' = contract /\ past' = past /\ UNCHANGED world
      /\ UNCHANGED <<todo, found, bindings, problems, warnings>>
      /\ outcome' \in {outcome, "refused", "failed"}
  BY DEF Resolved, RefuseLive, Fails, Ends, resolution, reading
<1>2. ReadsArePast' /\ WarningsArePast'
  BY <1>1, NothingBound DEF RunsAreFaithful
<1>3. KeysAreAccountedFor'
  BY <1>1 DEF RunsAreFaithful, KeysAreAccountedFor, Underway
<1>4. EndsOnBindings'
  BY <1>1, NothingSaidYet DEF RunsAreFaithful
<1> QED
  BY <1>2, <1>3, <1>4 DEF RunsAreFaithful

\* The live container is read, and the result is made of the bindings.
LEMMA ReadLiveStep ==
  ASSUME TypeOK, RunsAreFaithful, ReadLive PROVE RunsAreFaithful'
<1>1. /\ at = "live" /\ at' = "done" /\ rendered' = Rendered(container)
      /\ contract' = contract /\ past' = past /\ UNCHANGED world /\ args' = args
      /\ UNCHANGED <<todo, found, bindings, problems, warnings>>
  BY DEF ReadLive, Ends, resolution, reading
<1>2. /\ outcome' = "no drift" => ~Differs(rendered', container)
      /\ outcome' = "differs" => Differs(rendered', container)
  BY DEF ReadLive, Ends
<1>3. ReadsArePast' /\ WarningsArePast'
  BY <1>1, NothingBound DEF RunsAreFaithful
<1>4. KeysAreAccountedFor'
  BY <1>1 DEF RunsAreFaithful, KeysAreAccountedFor, Underway
<1>5. account \in past /\ account.container = container
  BY <1>1 DEF RunsAreFaithful, ReadsArePast, Underway, account
<1>6. /\ rendered'.environment = Literals /\ rendered'.secrets = bindings
      /\ args.image # None => rendered'.image = args.image
  BY <1>1 DEF Rendered
<1>7. \A k \in Keys : bindings[k] # None
  BY <1>1 DEF RunsAreFaithful, KeysAreAccountedFor, Underway
<1>8. EndsOnBindings'
  BY <1>1, <1>2, <1>5, <1>6, <1>7 DEF EndsOnBindings, Differs
<1> QED
  BY <1>3, <1>4, <1>8 DEF RunsAreFaithful

\* Changes of the account only add to the past.
LEMMA AccountStep ==
  ASSUME RunsAreFaithful, Publish \/ WriteSecret \/ MoveConfig \/ Permit \/ ByHand \/ Deployed
  PROVE  RunsAreFaithful'
<1>1. CASE Publish \/ WriteSecret \/ MoveConfig \/ Permit \/ ByHand
  BY <1>1, PastGrows
  DEF Publish, WriteSecret, MoveConfig, Permit, ByHand, Changes, resolution, reading
<1>2. CASE Deployed
  <2>1. ~Underway
    BY <1>2 DEF Deployed, RunsAreFaithful, EndsOnBindings, Underway
  <2> QED
    BY <1>2, <2>1, PastGrows DEF Deployed, resolution, reading
<1> QED
  BY <1>1, <1>2

\* Every step keeps a run faithful.
LEMMA FaithfulStep == TypeOK /\ RunsAreFaithful /\ [Next]_vars => RunsAreFaithful'
<1> SUFFICES ASSUME TypeOK, RunsAreFaithful, [Next]_vars PROVE RunsAreFaithful'
  OBVIOUS
<1>1. CASE UNCHANGED vars
  <2>1. account' = account
    BY <1>1 DEF vars, world, account
  <2>2. Underway => account \in past
    BY DEF RunsAreFaithful, ReadsArePast
  <2> QED
    BY <1>1, <2>1, <2>2, PastGrows DEF vars, world, resolution, reading
<1> QED
  BY <1>1, BeginStep, FindConfigStep, ResolveVaultStep, ResolveParameterStep, ResolvePointerStep,
     ProbeStep, EndStep, ReadLiveStep, AccountStep
  DEF Next

\* The inductive invariant: what a run has read it read during the run, every key is bound,
\* reported or to do, and what a run says is made of its bindings.
THEOREM RunsStayFaithful == Spec => []RunsAreFaithful
<1>1. Init => RunsAreFaithful
  <2> SUFFICES ASSUME Init PROVE RunsAreFaithful
    OBVIOUS
  <2>1. /\ at = "idle" /\ found = None /\ outcome = "none yet" /\ warnings = {}
        /\ \A n \in Names : bindings[n] = None
    BY DEF Init, Unbound
  <2> QED
    BY <2>1 DEF RunsAreFaithful, ReadsArePast, KeysAreAccountedFor, WarningsArePast, EndsOnBindings,
                Underway, Names
<1> QED
  BY <1>1, FaithfulStep, PrepareTypeCorrect, PTL DEF Spec

-------------------------------------------------------------------------------
(* What runs say is true                                                   *)

\* A rendered task definition binds every key of the contract to what its source gave during
\* the run, and nothing else.
THEOREM RenderIsTheContract == Spec => []RendersTheContract
<1>1. RunsAreFaithful => RendersTheContract
  BY DEF RunsAreFaithful, ReadsArePast, KeysAreAccountedFor, EndsOnBindings, RendersTheContract
<1> QED
  BY <1>1, RunsStayFaithful, PTL

\* A key inside a secret that is bound without a warning was seen there during the run.
THEOREM SilenceIsProof == Spec => []UnwarnedKeysWereSeen
<1>1. RunsAreFaithful => UnwarnedKeysWereSeen
  BY DEF RunsAreFaithful, WarningsArePast, EndsOnBindings, UnwarnedKeysWereSeen
<1> QED
  BY <1>1, RunsStayFaithful, PTL

\* An audit that finds no drift saw a service that ran what the contract gave.
THEOREM NoDriftIsSound == Spec => []NoDriftIsTrue
<1>1. RunsAreFaithful => NoDriftIsTrue
  BY DEF RunsAreFaithful, ReadsArePast, KeysAreAccountedFor, EndsOnBindings, NoDriftIsTrue, Names
<1> QED
  BY <1>1, RunsStayFaithful, PTL

\* An audit that finds drift saw a service that did not run what the contract alone gave.
THEOREM DriftIsSound == Spec => []DriftIsTrue
<1>1. RunsAreFaithful => DriftIsTrue
  BY DEF RunsAreFaithful, ReadsArePast, KeysAreAccountedFor, EndsOnBindings, DriftIsTrue, Names
<1> QED
  BY <1>1, RunsStayFaithful, PTL
==============================================================================
