------------------------------- MODULE Contract -------------------------------
(***************************************************************************)
(* `ecsc check`: load and check of src/src/ecs_contract/contract.py, with  *)
(* the names of reserved.py, on two files that developers edit.            *)
(*                                                                         *)
(* A JSON object is the sequence of its <<name, value>> pairs as they are  *)
(* written, repeated names included; the dict that Python makes of it      *)
(* keeps the last value of a name.  A key is told by the sets it is in, a  *)
(* text by what the patterns of contract.py find in it, a problem by its   *)
(* place and by what is wrong.                                             *)
(***************************************************************************)
EXTENDS Naturals, Sequences, FiniteSets

CONSTANTS Environments,
          Keys,
          Invalid, Reserved, SecretShaped,  \* keys that are no variable names, reserved, ...
          Allowed,      \* --allow-secret-shaped of the check that reviews a contract
          Literals, Sources,  \* entries that developers write under parameters and secrets
          Declared,     \* the environments that both files start with
          MaxEdits,     \* bound on the edits
          All,          \* no --environment is given: check every declared one
          NA,           \* no environment, no key
          NotAnObject   \* no JSON, JSON that is no object, or missing where one is required

Sections == {"parameters", "secrets"}
TopFields == {"environments", "schema", "other"}
SourceKinds == {"pointer", "parameter", "vault"}
SourceFields == SourceKinds \cup {"jsonKey"}

\* An absolute parameter path, another parameter name, a text that is neither, a blank one, one
\* with an ARN, an account id, or both in it; a number is JSON that is no text.
Texts == {"path", "name", "words", "blank", "arn", "account", "arn of account", "number"}
WithArn == {"arn", "arn of account"}
WithAccount == {"account", "arn of account"}
EntriesOf(section) == IF section = "parameters" THEN Literals ELSE Sources

ASSUME ContractAssumption ==
  /\ Invalid \cup Reserved \cup SecretShaped \cup Allowed \subseteq Keys
  /\ Literals \subseteq Texts
  /\ Sources \subseteq {NotAnObject} \cup Seq(STRING \X Texts)
  /\ Declared \in Seq(Environments)
  /\ MaxEdits \in Nat
  /\ NA \notin Environments \cup Keys
  /\ \A asked \in SUBSET Environments : asked # All

VARIABLES files,   \* the file of each section
          report,  \* the last check: what was asked, and the problems; none since the last edit
          edits

vars == <<files, report, edits>>

-------------------------------------------------------------------------------
\* JSON objects

Names(pairs) == {pairs[i][1] : i \in DOMAIN pairs}
Twice(pairs) == {n \in Names(pairs) : \E i, j \in DOMAIN pairs :
                                        i # j /\ pairs[i][1] = n /\ pairs[j][1] = n}
Value(pairs, n) == pairs[CHOOSE i \in DOMAIN pairs :
                           /\ pairs[i][1] = n
                           /\ \A j \in DOMAIN pairs : pairs[j][1] = n => j <= i][2]

\* What a name has been given, every time it is written.
Values(pairs, n) == {pairs[i][2] : i \in {j \in DOMAIN pairs : pairs[j][1] = n}}

Pairs(v) == IF v = NotAnObject THEN <<>> ELSE v
Get(object, n) == IF n \in Names(Pairs(object)) THEN Value(Pairs(object), n) ELSE NotAnObject

If(condition, what) == IF condition THEN {what} ELSE {}

-------------------------------------------------------------------------------
\* load

Problem(section, e, k, what) == [file |-> section, environment |-> e, key |-> k, what |-> what]

Readable(section) == Get(files[section], "environments") # NotAnObject
EnvironmentPairs(section) == Pairs(Get(files[section], "environments"))
EnvironmentsOf(section) == Names(EnvironmentPairs(section))
Body(section, e) == Get(Get(files[section], "environments"), e)
Entries(section, e) == Pairs(Get(Body(section, e), section))

\* A repeated field, told by whether it is the one with the contract in it.
Again(n, holder) == IF n = holder THEN "object twice" ELSE "field twice"

BodyProblems(section, e) ==
  LET body == Body(section, e)
  IN IF body = NotAnObject THEN {Problem(section, e, NA, "no object")}
     ELSE {Problem(section, e, NA, Again(n, section)) : n \in Twice(body)}
          \cup If(~(Names(body) \subseteq {section}), Problem(section, e, NA, "unknown field"))
          \cup If(Get(body, section) = NotAnObject, Problem(section, e, NA, "no section"))
          \cup {Problem(section, e, k, "twice") : k \in Twice(Entries(section, e))}

FieldProblems(section) ==
  {Problem(section, NA, NA, Again(n, "environments")) : n \in Twice(files[section])}
  \cup If(~(Names(files[section]) \subseteq {"environments", "schema"}),
          Problem(section, NA, NA, "unknown field"))
  \cup If(~Readable(section), Problem(section, NA, NA, "no environments object"))

\* Not the code: an environment that is written twice goes unnoticed.
LoadProblemsOfDict(section) ==
  IF files[section] = NotAnObject THEN {Problem(section, NA, NA, "no object")}
  ELSE FieldProblems(section)
       \cup UNION {BodyProblems(section, e) : e \in EnvironmentsOf(section)}

LoadProblems(section) ==
  IF files[section] = NotAnObject THEN {Problem(section, NA, NA, "no object")}
  ELSE FieldProblems(section)
       \cup {Problem(section, e, NA, "twice") : e \in Twice(EnvironmentPairs(section))}
       \cup UNION {BodyProblems(section, e) : e \in EnvironmentsOf(section)}

-------------------------------------------------------------------------------
\* check: what is wrong with an entry

NameFaults(k) == IF k \in Invalid THEN {"invalid name"} ELSE If(k \in Reserved, "reserved name")

LiteralFaults(text) == IF text \in WithArn THEN {"arn"} ELSE If(text \in WithAccount, "account")

ParameterFaults(k, text, allowed) ==
  NameFaults(k)
  \cup If(k \in SecretShaped \ allowed, "secret-shaped")
  \cup (IF text = "number" THEN {"not a string"} ELSE LiteralFaults(text))

SourceValueFaults(field, text) ==
  IF text \in {"number", "blank"} THEN {"empty"}
  ELSE IF LiteralFaults(text) # {} THEN LiteralFaults(text)
  ELSE If(field = "pointer" /\ text # "path", "no absolute path")
       \cup If(field = "parameter" /\ text = "words", "no parameter name")

\* Not the code: of two sources the first counts.
SecretFaultsFirst(k, source) ==
  LET names == Names(source) IN
  NameFaults(k)
  \cup (IF source = NotAnObject THEN {"no source object"}
        ELSE If(Twice(source) # {}, "field twice")
             \cup If(~(names \subseteq SourceFields), "unknown field")
             \cup If(names \cap SourceKinds = {}, "no source")
             \cup If("jsonKey" \in names /\ "pointer" \notin names, "jsonKey without pointer")
             \cup UNION {SourceValueFaults(n, Value(source, n)) : n \in names \cap SourceFields})

SecretFaults(k, source) ==
  LET names == Names(source) IN
  NameFaults(k)
  \cup (IF source = NotAnObject THEN {"no source object"}
        ELSE If(Twice(source) # {}, "field twice")
             \cup If(~(names \subseteq SourceFields), "unknown field")
             \cup If(names \cap SourceKinds = {}, "no source")
             \cup If(Cardinality(names \cap SourceKinds) > 1, "more than one source")
             \cup If("jsonKey" \in names /\ "pointer" \notin names, "jsonKey without pointer")
             \cup UNION {SourceValueFaults(n, Value(source, n)) : n \in names \cap SourceFields})

-------------------------------------------------------------------------------
\* check

EntryProblems(e, allowed) ==
  LET parameters == Entries("parameters", e)
      secrets == Entries("secrets", e)
  IN (UNION {{Problem("parameters", e, k, what) :
                what \in ParameterFaults(k, Value(parameters, k), allowed)} : k \in Names(parameters)})
     \cup (UNION {{Problem("secrets", e, k, what) : what \in SecretFaults(k, Value(secrets, k))} :
                    k \in Names(secrets)})
     \cup {Problem("secrets", e, k, "in both files") : k \in Names(parameters) \cap Names(secrets)}

\* Not the code: file and environment are swapped.
UndeclaredSwapped(e) == {Problem(e, section, NA, "not declared") :
                           section \in {s \in Sections : Readable(s) /\ e \notin EnvironmentsOf(s)}}

Undeclared(e) == {Problem(section, e, NA, "not declared") :
                    section \in {s \in Sections : Readable(s) /\ e \notin EnvironmentsOf(s)}}

EveryEnvironment == UNION {EnvironmentsOf(s) : s \in Sections}

\* Not the code: the environments are those of the parameters file.
AskedOfParameters(asked) == IF asked = All THEN EnvironmentsOf("parameters") ELSE asked

Asked(asked) == IF asked = All THEN EveryEnvironment ELSE asked

\* Not the code: entries are looked at once the files are in order.
ProblemsInTurn(asked, allowed) ==
  LET found == UNION {LoadProblems(s) : s \in Sections}
  IN IF found # {} THEN found
     ELSE If(asked = All /\ Asked(All) = {}, Problem("parameters", NA, NA, "no environments"))
          \cup UNION {Undeclared(e) \cup EntryProblems(e, allowed) : e \in Asked(asked)}

Problems(asked, allowed) ==
  (UNION {LoadProblems(s) : s \in Sections})
  \cup If(asked = All /\ Asked(All) = {} /\ \A s \in Sections : Readable(s),
          Problem("parameters", NA, NA, "no environments"))
  \cup UNION {Undeclared(e) \cup EntryProblems(e, allowed) : e \in Asked(asked)}

None == [asked |-> {}, allowed |-> {}, problems |-> {}]

Check(asked, allowed) ==
  /\ report' = [asked |-> asked, allowed |-> allowed, problems |-> Problems(asked, allowed)]
  /\ UNCHANGED <<files, edits>>

\* action.yml and contract-check.yml have an input for --allow-secret-shaped, deploy.yml has none.
Review == \E asked \in {All} \cup ((SUBSET Environments) \ {{}}) : Check(asked, Allowed)
DeployCheck == \E e \in Environments : Check({e}, {})

-------------------------------------------------------------------------------
\* Developers edit the files

Init == /\ files = [section \in Sections |->
                      <<<<"environments",
                          [i \in DOMAIN Declared |-> <<Declared[i], <<<<section, <<>>>>>>>>]>>>>]
        /\ report = None
        /\ edits = 0

Write(section, file) == /\ edits' = edits + 1
                        /\ files' = [files EXCEPT ![section] = file]
                        /\ report' = None

\* The fields of an object that have objects in them, for more to be written there.
Open(object) == {i \in DOMAIN Pairs(object) : Pairs(object)[i][2] # NotAnObject}

Break(section) == files[section] # NotAnObject /\ Write(section, NotAnObject)

\* A field of the file: one that no contract has, the schema, or the environments once more.
AddField(section) ==
  /\ files[section] # NotAnObject
  /\ \E field \in (TopFields \X {NotAnObject}) \cup {<<"environments", <<>>>>} :
       Write(section, Append(files[section], field))

AddEnvironment(section) ==
  \E i \in Open(files[section]), e \in Environments,
     body \in {NotAnObject, <<>>, <<<<section, <<>>>>>>} :
    Write(section, [files[section] EXCEPT ![i][2] = Append(@, <<e, body>>)])

\* A field of an environment's body: one that no contract has, or the section once more.
AddEnvironmentField(section) ==
  \E i \in Open(files[section]) : \E j \in Open(files[section][i][2]),
     field \in ({section, "other"} \X {NotAnObject}) \cup {<<section, <<>>>>} :
    Write(section, [files[section] EXCEPT ![i][2][j][2] = Append(@, field)])

AddEntry(section) ==
  \E i \in Open(files[section]) : \E j \in Open(files[section][i][2]) :
    \E m \in Open(files[section][i][2][j][2]), k \in Keys, entry \in EntriesOf(section) :
      Write(section, [files[section] EXCEPT ![i][2][j][2][m][2] = Append(@, <<k, entry>>)])

Edit == /\ edits < MaxEdits
        /\ \E section \in Sections : \/ Break(section) \/ AddField(section)
                                     \/ AddEnvironment(section) \/ AddEnvironmentField(section)
                                     \/ AddEntry(section)

Next == Edit \/ Review \/ DeployCheck

Spec == Init /\ [][Next]_vars

-------------------------------------------------------------------------------
Objects(pairs) == {NotAnObject} \cup Seq(pairs)
Bodies(section) == Objects({section, "other"} \X Objects(Keys \X EntriesOf(section)))
Files(section) == Objects(TopFields \X Objects(Environments \X Bodies(section)))

TypeOK == /\ DOMAIN files = Sections
          /\ \A section \in Sections : files[section] \in Files(section)
          /\ report.asked \in {All} \cup SUBSET Environments
          /\ report.allowed \in {Allowed, {}}
          /\ \A p \in report.problems : /\ p.file \in Sections
                                       /\ p.environment \in Environments \cup {NA}
                                       /\ p.key \in Keys \cup {NA}
          /\ edits \in 0..MaxEdits

-------------------------------------------------------------------------------
\* SPEC.md 6.1, on the files as they are written

\* Every body that a file has for an environment, and every section in those; what they give a
\* key, every time it is written.
Blocks(section, e) ==
  UNION {Values(Pairs(object), e) : object \in Values(Pairs(files[section]), "environments")}
EntryLists(section, e) == UNION {Values(Pairs(body), section) : body \in Blocks(section, e)}
Written(section, e, k) == UNION {Values(Pairs(list), k) : list \in EntryLists(section, e)}

\* Rules 2 to 6, 11 and 12: exactly one source; jsonKey beside a pointer only; texts that hold no
\* ARN and no account id; an absolute path for a pointer; no repeated and no unknown field.
IsSource(source) ==
  /\ source # NotAnObject
  /\ Twice(source) = {}
  /\ Names(source) \in {{kind} : kind \in SourceKinds} \cup {{"pointer", "jsonKey"}}
  /\ \A i \in DOMAIN source :
       source[i][2] \in CASE source[i][1] = "pointer" -> {"path"}
                         [] source[i][1] = "parameter" -> {"path", "name"}
                         [] OTHER -> {"path", "name", "words"}

\* Rules 1 to 8, 10, 11 and 12, of one key in one file.
IsWrong(section, e, k, allowed) ==
  /\ Written(section, e, k) # {}
  /\ \/ k \in Invalid \cup Reserved
     \/ \E list \in EntryLists(section, e) : k \in Twice(Pairs(list))
     \/ /\ section = "parameters"
        /\ \/ k \in SecretShaped \ allowed
           \/ ~(Written(section, e, k) \subseteq {"path", "name", "words", "blank"})
     \/ /\ section = "secrets"
        /\ \/ Written("parameters", e, k) # {}
           \/ \E source \in Written(section, e, k) : ~IsSource(source)

InOrderBody(section, body) ==
  /\ body # NotAnObject
  /\ Names(body) = {section} /\ Twice(body) = {}
  /\ \A list \in Values(body, section) : list # NotAnObject /\ Twice(list) = {}

InOrder(section) ==
  LET file == files[section]
  IN /\ file # NotAnObject
     /\ "environments" \in Names(file) /\ Names(file) \subseteq {"environments", "schema"}
     /\ Twice(file) = {}
     /\ \A object \in Values(file, "environments") :
          /\ object # NotAnObject /\ Twice(object) = {}
          /\ \A i \in DOMAIN object : InOrderBody(section, object[i][2])

Conforms(asked, allowed) ==
  /\ \A s \in Sections : InOrder(s)
  /\ EveryEnvironment # {}
  /\ \A e \in IF asked = All THEN EveryEnvironment ELSE asked, s \in Sections :
       e \in EnvironmentsOf(s) /\ \A k \in Keys : ~IsWrong(s, e, k, allowed)

Checked == report # None

\* A check accepts the contracts that SPEC.md 6.1 does and no others, although it looks at dicts
\* in which the last of two values has replaced the other (contract.py:30-39, 152-202).
AcceptsWhatConforms ==
  Checked => (report.problems = {} <=> Conforms(report.asked, report.allowed))

\* "It fails the pull request instead of the deploy" (README.md:83-84): what passes the check of a
\* pull request, of all environments, passes the check that a deploy of one begins with.
ReviewedIsDeployable ==
  Problems(All, Allowed) = {} => \A e \in EveryEnvironment : Problems({e}, {}) = {}

\* Only names that the review allows come between it and the deploys, which have no way to allow
\* any (deploy.yml:135-161): what can be deployed in each environment passes the review, and what
\* passes it can be deployed if no parameter of any environment is secret-shaped.
OnlyAllowedNamesStopDeploys ==
  EveryEnvironment # {} /\ (\A e \in EveryEnvironment : Problems({e}, {}) = {}) <=>
    /\ Problems(All, Allowed) = {}
    /\ \A e \in EveryEnvironment : Names(Entries("parameters", e)) \cap SecretShaped = {}

\* "It reports every problem, not only the first" (SPEC.md 6.1): every key that is wrong in an
\* environment that is asked for, or in any, is named by a problem, and the problems of keys name
\* no others; unless a problem says that the environments of a file, the environment, or a section
\* of it are written twice, so that the dict has dropped some of what is written for it.
WrongKeysAreNamed ==
  Checked =>
    \A s \in Sections, e \in IF report.asked = All THEN Environments ELSE report.asked, k \in Keys :
      LET named == \E p \in report.problems : p.file = s /\ p.environment = e /\ p.key = k
          dropped == \E t \in Sections, place \in {e, NA}, what \in {"twice", "object twice"} :
                       Problem(t, place, NA, what) \in report.problems
      IN /\ named => IsWrong(s, e, k, report.allowed)
         /\ IsWrong(s, e, k, report.allowed) => named \/ dropped

\* What sources.py makes of an accepted contract does not depend on the order in which it asks
\* for the kinds of a source (sources.py:76-83, which passes over a source of no kind), and no
\* key is bound that is also a parameter.
AcceptedIsResolvable == Checked /\ report.problems = {} => \A e \in Asked(report.asked) :
  /\ \A k \in Names(Entries("secrets", e)) :
       LET source == Value(Entries("secrets", e), k) IN
       /\ \E kind \in SourceKinds : Names(source) \cap SourceKinds = {kind}
       /\ "jsonKey" \in Names(source) => "pointer" \in Names(source)
  /\ Names(Entries("secrets", e)) \cap Names(Entries("parameters", e)) = {}
===============================================================================
