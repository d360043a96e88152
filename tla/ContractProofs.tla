---------------------------- MODULE ContractProofs ----------------------------
(***************************************************************************)
(* Theorems about the check of a contract, for all files, keys and         *)
(* environments.                                                           *)
(***************************************************************************)
EXTENDS Contract, FiniteSetTheorems, WellFoundedInduction, TLAPS

-------------------------------------------------------------------------------
(* Types                                                                   *)

\* The two parts of a pair.
LEMMA PairAt ==
  ASSUME NEW X, NEW Y, NEW pairs \in Seq(X \X Y), NEW i \in DOMAIN pairs
  PROVE  pairs[i][1] \in X /\ pairs[i][2] \in Y
<1>1. pairs[i] \in X \X Y
  OBVIOUS
<1> QED
  BY <1>1

\* The pairs of an object are a sequence, of something that is no object the empty one.
LEMMA PairsTypes ==
  ASSUME NEW S, NEW v \in Objects(S)
  PROVE  Pairs(v) \in Seq(S) /\ (v # NotAnObject => Pairs(v) = v /\ v \in Seq(S))
BY DEF Objects, Pairs

\* What is an object.
LEMMA IsObject ==
  ASSUME NEW S
  PROVE  /\ NotAnObject \in Objects(S) /\ <<>> \in Objects(S)
         /\ \A pairs \in Seq(S) : pairs \in Objects(S)
         /\ \A pair \in S : <<pair>> \in Objects(S)
         /\ \A pairs \in Seq(S), pair \in S : Append(pairs, pair) \in Objects(S)
BY DEF Objects

\* What can be written in is a field's value that is an object.
LEMMA OpenValue ==
  ASSUME NEW X, NEW S, NEW T, T = X \X Objects(S), NEW object \in Objects(T), NEW i \in Open(object)
  PROVE  /\ object \in Seq(T) /\ i \in DOMAIN object
         /\ object[i][2] \in Objects(S) /\ object[i][2] \in Seq(S)
<1>1. object # NotAnObject
  BY DEF Open, Pairs
<1>2. object \in Seq(X \X Objects(S)) /\ i \in DOMAIN object /\ object[i][2] # NotAnObject
  BY <1>1, PairsTypes DEF Open
<1>3. object[i][2] \in Objects(S)
  BY <1>2, PairAt
<1> QED
  BY <1>2, <1>3, PairsTypes

\* A field whose value is replaced.
LEMMA ValueReplaced ==
  ASSUME NEW X, NEW Y, NEW pairs \in Seq(X \X Y), NEW i \in DOMAIN pairs, NEW v \in Y
  PROVE  [pairs EXCEPT ![i][2] = v] \in Seq(X \X Y)
<1>1. pairs[i] \in X \X Y
  OBVIOUS
<1>2. [pairs[i] EXCEPT ![2] = v] \in X \X Y
  BY <1>1
<1> QED
  BY <1>2

\* An edit keeps the types if it writes a file.
LEMMA FileWritten ==
  ASSUME TypeOK, NEW section \in Sections, NEW file \in Files(section), edits < MaxEdits,
         Write(section, file)
  PROVE  TypeOK'
<1>1. DOMAIN files' = Sections /\ \A s \in Sections : files'[s] \in Files(s)
  BY DEF TypeOK, Write
<1>2. report'.asked = {} /\ report'.allowed = {} /\ report'.problems = {}
  BY DEF Write, None
<1>3. edits' \in 0..MaxEdits
  <2>1. edits' = edits + 1 /\ edits \in 0..MaxEdits
    BY DEF Write, TypeOK
  <2> QED
    BY <2>1, ContractAssumption
<1> QED
  BY <1>1, <1>2, <1>3 DEF TypeOK

\* Every edit keeps the types.
LEMMA EditTypes == TypeOK /\ Edit => TypeOK'
<1> SUFFICES ASSUME TypeOK, edits < MaxEdits, NEW section \in Sections,
                    \/ Break(section) \/ AddField(section) \/ AddEnvironment(section)
                    \/ AddEnvironmentField(section) \/ AddEntry(section)
             PROVE  TypeOK'
  BY DEF Edit
<1> DEFINE file == files[section]
           Items == Keys \X EntriesOf(section)
           Lists == Objects(Items)
           Fields == {section, "other"} \X Lists
           Environs == Environments \X Objects(Fields)
           Top == TopFields \X Objects(Environs)
<1>1. /\ file \in Objects(Top) /\ Files(section) = Objects(Top)
      /\ Bodies(section) = Objects(Fields)
  BY DEF TypeOK, Files, Bodies
<1>0. /\ Top = TopFields \X Objects(Environs)
      /\ Environs = Environments \X Objects(Fields)
      /\ Fields = {section, "other"} \X Objects(Items)
  OBVIOUS
<1> HIDE DEF file, Items, Lists, Fields, Environs, Top
<1>2. CASE Break(section)
  BY <1>1, <1>2, FileWritten DEF Break, Objects
<1>3. CASE AddField(section)
  <2>1. PICK field \in (TopFields \X {NotAnObject}) \cup {<<"environments", <<>>>>} :
               Write(section, Append(file, field))
    BY <1>3 DEF AddField, file
  <2>2. field \in Top
    <3>1. "environments" \in TopFields /\ NotAnObject \in Objects(Environs) /\ <<>> \in Objects(Environs)
      BY IsObject DEF TopFields
    <3> QED
      BY <3>1 DEF Top
  <2>3. file \in Seq(Top)
    BY <1>1, <1>3, PairsTypes DEF AddField, file
  <2>4. Append(file, field) \in Objects(Top)
    BY <2>2, <2>3, IsObject
  <2> QED
    BY <1>1, <2>1, <2>4, FileWritten
<1>4. CASE AddEnvironment(section)
  <2>1. PICK i \in Open(file), e \in Environments, body \in {NotAnObject, <<>>, <<<<section, <<>>>>>>} :
               Write(section, [file EXCEPT ![i][2] = Append(@, <<e, body>>)])
    BY <1>4 DEF AddEnvironment, file
  <2>2. /\ file \in Seq(Top) /\ i \in DOMAIN file
        /\ file[i][2] \in Seq(Environs)
    BY <1>1, <1>0, OpenValue
  <2>3. body \in Objects(Fields)
    <3>1. <<section, <<>>>> \in Fields
      BY IsObject DEF Fields, Lists
    <3> QED
      BY <2>1, <3>1, IsObject
  <2>4. Append(file[i][2], <<e, body>>) \in Objects(Environs)
    <3>1. <<e, body>> \in Environs
      BY <2>3 DEF Environs
    <3> QED
      BY <2>2, <3>1, IsObject
  <2>5. [file EXCEPT ![i][2] = Append(@, <<e, body>>)] \in Objects(Top)
    <3> DEFINE new == Append(file[i][2], <<e, body>>)
    <3>1. [file EXCEPT ![i][2] = new] \in Seq(Top)
      <4> HIDE DEF new
      <4> QED
        BY <2>2, <2>4, ValueReplaced DEF Top, new
    <3> QED
      BY <3>1, IsObject
  <2> QED
    BY <1>1, <2>1, <2>5, FileWritten
<1>5. CASE AddEnvironmentField(section)
  <2>1. PICK i \in Open(file) : \E j \in Open(file[i][2]),
               field \in ({section, "other"} \X {NotAnObject}) \cup {<<section, <<>>>>} :
                 Write(section, [file EXCEPT ![i][2][j][2] = Append(@, field)])
    BY <1>5 DEF AddEnvironmentField, file
  <2>2. PICK j \in Open(file[i][2]),
               field \in ({section, "other"} \X {NotAnObject}) \cup {<<section, <<>>>>} :
                 Write(section, [file EXCEPT ![i][2][j][2] = Append(@, field)])
    BY <2>1
  <2>3. /\ file \in Seq(Top) /\ i \in DOMAIN file
        /\ file[i][2] \in Seq(Environs) /\ file[i][2] \in Objects(Environs)
    BY <1>1, <1>0, OpenValue
  <2>4. j \in DOMAIN file[i][2] /\ file[i][2][j][2] \in Seq(Fields)
    BY <2>3, <1>0, OpenValue
  <2>5. field \in Fields
    <3>1. NotAnObject \in Lists /\ <<>> \in Lists
      BY IsObject DEF Lists
    <3> QED
      BY <3>1 DEF Fields
  <2> DEFINE body == Append(file[i][2][j][2], field)
             object == [file[i][2] EXCEPT ![j][2] = body]
  <2>6. body \in Objects(Fields)
    BY <2>4, <2>5, IsObject
  <2>7. object \in Objects(Environs)
    <3> HIDE DEF body
    <3>1. object \in Seq(Environs)
      BY <2>3, <2>4, <2>6, ValueReplaced DEF Environs
    <3> QED
      BY <3>1, IsObject
  <2>8. [file EXCEPT ![i][2] = object] \in Objects(Top)
    <3> HIDE DEF object
    <3>1. [file EXCEPT ![i][2] = object] \in Seq(Top)
      BY <2>3, <2>7, ValueReplaced DEF Top
    <3> QED
      BY <3>1, IsObject
  <2>9. [file EXCEPT ![i][2][j][2] = Append(@, field)] = [file EXCEPT ![i][2] = object]
    OBVIOUS
  <2> HIDE DEF object, body
  <2> QED
    BY <1>1, <2>2, <2>8, <2>9, FileWritten
<1>6. CASE AddEntry(section)
  <2>1. PICK i \in Open(file) : \E j \in Open(file[i][2]) :
               \E m \in Open(file[i][2][j][2]), k \in Keys, entry \in EntriesOf(section) :
                 Write(section, [file EXCEPT ![i][2][j][2][m][2] = Append(@, <<k, entry>>)])
    BY <1>6 DEF AddEntry, file
  <2>2. PICK j \in Open(file[i][2]) :
               \E m \in Open(file[i][2][j][2]), k \in Keys, entry \in EntriesOf(section) :
                 Write(section, [file EXCEPT ![i][2][j][2][m][2] = Append(@, <<k, entry>>)])
    BY <2>1
  <2>3. PICK m \in Open(file[i][2][j][2]), k \in Keys, entry \in EntriesOf(section) :
               Write(section, [file EXCEPT ![i][2][j][2][m][2] = Append(@, <<k, entry>>)])
    BY <2>2
  <2>4. /\ file \in Seq(Top) /\ i \in DOMAIN file
        /\ file[i][2] \in Seq(Environs) /\ file[i][2] \in Objects(Environs)
    BY <1>1, <1>0, OpenValue
  <2>5. /\ j \in DOMAIN file[i][2]
        /\ file[i][2][j][2] \in Seq(Fields) /\ file[i][2][j][2] \in Objects(Fields)
    BY <2>4, <1>0, OpenValue
  <2>6. m \in DOMAIN file[i][2][j][2] /\ file[i][2][j][2][m][2] \in Seq(Items)
    BY <2>5, <1>0, OpenValue
  <2> DEFINE list == Append(file[i][2][j][2][m][2], <<k, entry>>)
             body == [file[i][2][j][2] EXCEPT ![m][2] = list]
             object == [file[i][2] EXCEPT ![j][2] = body]
  <2>7. list \in Lists
    <3>1. <<k, entry>> \in Items
      BY DEF Items
    <3> QED
      BY <2>6, <3>1, IsObject DEF Lists
  <2>8. body \in Objects(Fields)
    <3> HIDE DEF list
    <3>1. body \in Seq(Fields)
      BY <2>5, <2>6, <2>7, ValueReplaced DEF Fields
    <3> QED
      BY <3>1, IsObject
  <2>9. object \in Objects(Environs)
    <3> HIDE DEF body
    <3>1. object \in Seq(Environs)
      BY <2>4, <2>5, <2>8, ValueReplaced DEF Environs
    <3> QED
      BY <3>1, IsObject
  <2>10. [file EXCEPT ![i][2] = object] \in Objects(Top)
    <3> HIDE DEF object
    <3>1. [file EXCEPT ![i][2] = object] \in Seq(Top)
      BY <2>4, <2>9, ValueReplaced DEF Top
    <3> QED
      BY <3>1, IsObject
  <2>11. [file EXCEPT ![i][2][j][2][m][2] = Append(@, <<k, entry>>)] = [file EXCEPT ![i][2] = object]
    OBVIOUS
  <2> HIDE DEF object, body, list
  <2> QED
    BY <1>1, <2>3, <2>10, <2>11, FileWritten
<1> QED
  BY <1>2, <1>3, <1>4, <1>5, <1>6

\* The least of the distances to N belongs to the last.
LEMMA LastOf ==
  ASSUME NEW N \in Nat, NEW I \in SUBSET (1..N), I # {}
  PROVE  \E i \in I : \A j \in I : j <= i
<1> DEFINE R == {ss \in Nat \X Nat : ss[1] < ss[2]}
           T == {N - i : i \in I}
<1>1. IsWellFoundedOn(R, Nat)
  BY NatLessThanWellFounded DEF OpToRel
<1>2. T \subseteq Nat /\ T # {}
  <2>1. \A i \in I : N - i \in Nat
    <3> TAKE i \in I
    <3>1. i \in 1..N
      OBVIOUS
    <3> QED
      BY <3>1
  <2>2. PICK i \in I : TRUE
    OBVIOUS
  <2>3. N - i \in T
    OBVIOUS
  <2> QED
    BY <2>1, <2>3
<1> HIDE DEF R
<1>3. PICK t \in T : \A y \in T : ~(<<y, t>> \in R)
  BY <1>1, <1>2, WFMin
<1>4. PICK i \in I : t = N - i
  BY <1>3
<1>5. \A j \in I : j <= i
  <2> TAKE j \in I
  <2>1. N - j \in T /\ N - j \in Nat /\ N - i \in Nat /\ i \in Nat /\ j \in Nat
    BY <1>2
  <2>2. ~(N - j < N - i)
    BY <1>3, <1>4, <2>1 DEF R
  <2> QED
    BY <2>1, <2>2
<1> QED
  BY <1>5

\* The value of a name is one of those that it is written with, the last.
LEMMA ValueIsOf ==
  ASSUME NEW S, NEW pairs \in Seq(S), NEW n \in Names(pairs)
  PROVE  \E i \in DOMAIN pairs : /\ pairs[i][1] = n
                                 /\ \A j \in DOMAIN pairs : pairs[j][1] = n => j <= i
                                 /\ Value(pairs, n) = pairs[i][2]
<1> DEFINE I == {i \in DOMAIN pairs : pairs[i][1] = n}
<1>1. I \in SUBSET (1..Len(pairs)) /\ I # {} /\ Len(pairs) \in Nat
  BY DEF Names
<1>2. \E i \in I : \A j \in I : j <= i
  <2> HIDE DEF I
  <2> QED
    BY <1>1, LastOf
<1> QED
  BY <1>2 DEF Value

\* What a dict has for a name is one of the values that the name is written with, if it is written.
LEMMA GetIsWritten ==
  ASSUME NEW S, NEW object \in Objects(S), NEW n
  PROVE  \/ Get(object, n) = NotAnObject /\ n \notin Names(Pairs(object))
         \/ n \in Names(Pairs(object)) /\ Get(object, n) \in Values(Pairs(object), n)
<1> DEFINE pairs == Pairs(object)
<1>1. pairs \in Seq(S)
  BY PairsTypes
<1>2. ASSUME n \in Names(pairs)
      PROVE  Value(pairs, n) \in Values(pairs, n)
  BY <1>1, <1>2, ValueIsOf DEF Values
<1> QED
  BY <1>2 DEF Get

\* Its values are of the type of the object's.
LEMMA GetIsAValue ==
  ASSUME NEW X, NEW Y, NEW object \in Objects(X \X Y), NEW n
  PROVE  Get(object, n) = NotAnObject \/ Get(object, n) \in Y
<1> DEFINE pairs == Pairs(object)
<1>1. pairs \in Seq(X \X Y)
  BY PairsTypes
<1>2. \A v \in Values(pairs, n) : v \in Y
  BY <1>1, PairAt DEF Values
<1> QED
  BY <1>2, GetIsWritten

\* The environments of a file are an object, or none.
LEMMA EnvironmentPairsTypes ==
  ASSUME TypeOK, NEW section \in Sections
  PROVE  /\ Get(files[section], "environments") \in Objects(Environments \X Bodies(section))
         /\ EnvironmentPairs(section) \in Seq(Environments \X Bodies(section))
<1> DEFINE Environs == Objects(Environments \X Bodies(section))
<1>1. files[section] \in Objects(TopFields \X Environs)
  BY DEF TypeOK, Files
<1>2. NotAnObject \in Environs
  BY DEF Objects
<1> HIDE DEF Environs
<1>3. Get(files[section], "environments") \in Environs
  BY <1>1, <1>2, GetIsAValue
<1> QED
  BY <1>3, PairsTypes DEF EnvironmentPairs, Environs

\* The body is an object, or none.
LEMMA BodyTypes ==
  ASSUME TypeOK, NEW section \in Sections, NEW e
  PROVE  Body(section, e) \in Bodies(section)
<1>1. NotAnObject \in Bodies(section)
  BY DEF Bodies, Objects
<1> QED
  BY <1>1, EnvironmentPairsTypes, GetIsAValue DEF Body

\* The entries are pairs of a key and an entry of its section.
LEMMA EntriesTypes ==
  ASSUME TypeOK, NEW section \in Sections, NEW e
  PROVE  Entries(section, e) \in Seq(Keys \X EntriesOf(section))
<1> DEFINE Lists == Objects(Keys \X EntriesOf(section))
<1>1. Body(section, e) \in Objects({section, "other"} \X Lists)
  BY BodyTypes DEF Bodies
<1>2. NotAnObject \in Lists
  BY DEF Objects
<1> HIDE DEF Lists
<1>3. Get(Body(section, e), section) \in Lists
  BY <1>1, <1>2, GetIsAValue
<1> QED
  BY <1>3, PairsTypes DEF Entries, Lists

\* The names in a sequence of pairs.
LEMMA NamesTypes ==
  ASSUME NEW X, NEW Y, NEW pairs \in Seq(X \X Y)
  PROVE  Names(pairs) \subseteq X
BY PairAt DEF Names

\* The environments that check looks at.
LEMMA EnvironmentTypes ==
  ASSUME TypeOK, NEW section \in Sections
  PROVE  EnvironmentsOf(section) \subseteq Environments
<1>1. EnvironmentPairs(section) \in Seq(Environments \X Bodies(section))
  BY EnvironmentPairsTypes
<1> QED
  BY <1>1, NamesTypes DEF EnvironmentsOf

InPlace(p) == /\ p.file \in Sections
              /\ p.environment \in Environments \cup {NA}
              /\ p.key \in Keys \cup {NA}

\* A problem with a file, an environment and a key has a place.
LEMMA ProblemInPlace ==
  ASSUME NEW section \in Sections, NEW e \in Environments \cup {NA}, NEW k \in Keys \cup {NA},
         NEW what
  PROVE  InPlace(Problem(section, e, k, what))
BY DEF InPlace, Problem

\* Where a problem of a body comes from,
LEMMA BodyProblemsOf ==
  ASSUME NEW section, NEW e, NEW p
  PROVE  p \in BodyProblems(section, e) <=>
           LET body == Body(section, e)
           IN  \/ body = NotAnObject /\ p = Problem(section, e, NA, "no object")
               \/ /\ body # NotAnObject
                  /\ \/ \E n \in Twice(body) : p = Problem(section, e, NA, Again(n, section))
                     \/ /\ ~(Names(body) \subseteq {section})
                        /\ p = Problem(section, e, NA, "unknown field")
                     \/ /\ Get(body, section) = NotAnObject
                        /\ p = Problem(section, e, NA, "no section")
                     \/ \E k \in Twice(Entries(section, e)) : p = Problem(section, e, k, "twice")
<1> DEFINE body == Body(section, e)
           repeated == {Problem(section, e, NA, Again(n, section)) : n \in Twice(body)}
           unknown == If(~(Names(body) \subseteq {section}), Problem(section, e, NA, "unknown field"))
           none == If(Get(body, section) = NotAnObject, Problem(section, e, NA, "no section"))
           twice == {Problem(section, e, k, "twice") : k \in Twice(Entries(section, e))}
<1>1. BodyProblems(section, e) =
        IF body = NotAnObject THEN {Problem(section, e, NA, "no object")}
        ELSE repeated \cup unknown \cup none \cup twice
  BY DEF BodyProblems
<1>2. p \in repeated <=> \E n \in Twice(body) : p = Problem(section, e, NA, Again(n, section))
  BY Zenon
<1>3. p \in unknown <=> ~(Names(body) \subseteq {section}) /\ p = Problem(section, e, NA, "unknown field")
  BY DEF If
<1>4. p \in none <=> Get(body, section) = NotAnObject /\ p = Problem(section, e, NA, "no section")
  BY DEF If
<1>5. p \in twice <=> \E k \in Twice(Entries(section, e)) : p = Problem(section, e, k, "twice")
  BY Zenon
<1> DEFINE ofRepeated == \E n \in Twice(body) : p = Problem(section, e, NA, Again(n, section))
           ofTwice == \E k \in Twice(Entries(section, e)) : p = Problem(section, e, k, "twice")
           ofUnknown == ~(Names(body) \subseteq {section}) /\ p = Problem(section, e, NA, "unknown field")
           ofNone == Get(body, section) = NotAnObject /\ p = Problem(section, e, NA, "no section")
<1>6. /\ p \in repeated <=> ofRepeated
      /\ p \in twice <=> ofTwice
      /\ p \in unknown <=> ofUnknown
      /\ p \in none <=> ofNone
  BY <1>2, <1>3, <1>4, <1>5
<1>7. p \in BodyProblems(section, e) <=>
        \/ body = NotAnObject /\ p = Problem(section, e, NA, "no object")
        \/ body # NotAnObject /\ (ofRepeated \/ ofUnknown \/ ofNone \/ ofTwice)
  <2> HIDE DEF repeated, unknown, none, twice, ofRepeated, ofTwice, ofUnknown, ofNone, body
  <2> QED
    BY <1>1, <1>6
<1> HIDE DEF repeated, unknown, none, twice
<1> QED
  BY <1>7, Zenon

\* of the fields of a file,
LEMMA FieldProblemsOf ==
  ASSUME NEW section, NEW p
  PROVE  p \in FieldProblems(section) <=>
           \/ \E n \in Twice(files[section]) : p = Problem(section, NA, NA, Again(n, "environments"))
           \/ /\ ~(Names(files[section]) \subseteq {"environments", "schema"})
              /\ p = Problem(section, NA, NA, "unknown field")
           \/ ~Readable(section) /\ p = Problem(section, NA, NA, "no environments object")
<1> DEFINE repeated == {Problem(section, NA, NA, Again(n, "environments")) : n \in Twice(files[section])}
           isUnknown == ~(Names(files[section]) \subseteq {"environments", "schema"})
           unknown == If(isUnknown, Problem(section, NA, NA, "unknown field"))
           none == If(~Readable(section), Problem(section, NA, NA, "no environments object"))
<1>1. FieldProblems(section) = repeated \cup unknown \cup none
  BY DEF FieldProblems
<1>2. p \in repeated <=>
        \E n \in Twice(files[section]) : p = Problem(section, NA, NA, Again(n, "environments"))
  BY Zenon
<1>3. p \in unknown <=> isUnknown /\ p = Problem(section, NA, NA, "unknown field")
  BY DEF If
<1>4. p \in none <=> ~Readable(section) /\ p = Problem(section, NA, NA, "no environments object")
  BY DEF If
<1>5. p \in FieldProblems(section) <=> p \in repeated \/ p \in unknown \/ p \in none
  <2> HIDE DEF repeated, unknown, none
  <2> QED
    BY <1>1
<1> HIDE DEF repeated, unknown, none
<1> QED
  BY <1>2, <1>3, <1>4, <1>5, Zenon

\* and of load.
LEMMA LoadProblemsOf ==
  ASSUME NEW section, NEW p
  PROVE  p \in LoadProblems(section) <=>
           \/ files[section] = NotAnObject /\ p = Problem(section, NA, NA, "no object")
           \/ /\ files[section] # NotAnObject
              /\ \/ p \in FieldProblems(section)
                 \/ \E e \in Twice(EnvironmentPairs(section)) : p = Problem(section, e, NA, "twice")
                 \/ \E e \in EnvironmentsOf(section) : p \in BodyProblems(section, e)
<1> DEFINE repeated == {Problem(section, e, NA, "twice") : e \in Twice(EnvironmentPairs(section))}
           ofBodies == UNION {BodyProblems(section, e) : e \in EnvironmentsOf(section)}
<1>1. LoadProblems(section) = IF files[section] = NotAnObject THEN {Problem(section, NA, NA, "no object")}
                              ELSE FieldProblems(section) \cup repeated \cup ofBodies
  BY DEF LoadProblems
<1>2. p \in repeated <=> \E e \in Twice(EnvironmentPairs(section)) : p = Problem(section, e, NA, "twice")
  BY Zenon
<1>3. p \in ofBodies <=> \E e \in EnvironmentsOf(section) : p \in BodyProblems(section, e)
  BY Zenon
<1>4. p \in LoadProblems(section) <=>
        \/ files[section] = NotAnObject /\ p = Problem(section, NA, NA, "no object")
        \/ files[section] # NotAnObject /\ (p \in FieldProblems(section) \/ p \in repeated \/ p \in ofBodies)
  <2> HIDE DEF repeated, ofBodies
  <2> QED
    BY <1>1
<1> HIDE DEF repeated, ofBodies
<1> QED
  BY <1>2, <1>3, <1>4, Zenon

\* The problems of an environment's entries: of a parameter, of a secret, and of both.
OfParameter(p, e, allowed) ==
  \E k \in Names(Entries("parameters", e)) :
    \E what \in ParameterFaults(k, Value(Entries("parameters", e), k), allowed) :
      p = Problem("parameters", e, k, what)
OfSecret(p, e) ==
  \E k \in Names(Entries("secrets", e)) :
    \E what \in SecretFaults(k, Value(Entries("secrets", e), k)) :
      p = Problem("secrets", e, k, what)
OfBoth(p, e) ==
  \E k \in Names(Entries("parameters", e)) \cap Names(Entries("secrets", e)) :
    p = Problem("secrets", e, k, "in both files")

\* There are no others.
LEMMA EntryProblemsOf ==
  ASSUME NEW e, NEW allowed, NEW p
  PROVE  p \in EntryProblems(e, allowed) <=>
           OfParameter(p, e, allowed) \/ OfSecret(p, e) \/ OfBoth(p, e)
<1> DEFINE parameters == Entries("parameters", e)
           secrets == Entries("secrets", e)
           ofParameter(k) == {Problem("parameters", e, k, what) :
                                what \in ParameterFaults(k, Value(parameters, k), allowed)}
           ofSecret(k) == {Problem("secrets", e, k, what) :
                             what \in SecretFaults(k, Value(secrets, k))}
           ofParameters == UNION {ofParameter(k) : k \in Names(parameters)}
           ofSecrets == UNION {ofSecret(k) : k \in Names(secrets)}
           ofBoth == {Problem("secrets", e, k, "in both files") :
                        k \in Names(parameters) \cap Names(secrets)}
<1>1. p \in ofParameters <=> \E k \in Names(parameters) :
                               \E what \in ParameterFaults(k, Value(parameters, k), allowed) :
                                  p = Problem("parameters", e, k, what)
  <2>1. \A k : p \in ofParameter(k) <=> \E what \in ParameterFaults(k, Value(parameters, k), allowed) :
                                         p = Problem("parameters", e, k, what)
    OBVIOUS
  <2> HIDE DEF ofParameter
  <2>2. p \in ofParameters <=> \E k \in Names(parameters) : p \in ofParameter(k)
    BY Zenon
  <2> QED
    BY <2>1, <2>2, Zenon
<1>2. p \in ofSecrets <=> \E k \in Names(secrets) :
                            \E what \in SecretFaults(k, Value(secrets, k)) :
                               p = Problem("secrets", e, k, what)
  <2>1. \A k : p \in ofSecret(k) <=> \E what \in SecretFaults(k, Value(secrets, k)) :
                                      p = Problem("secrets", e, k, what)
    OBVIOUS
  <2> HIDE DEF ofSecret
  <2>2. p \in ofSecrets <=> \E k \in Names(secrets) : p \in ofSecret(k)
    BY Zenon
  <2> QED
    BY <2>1, <2>2, Zenon
<1>3. p \in ofBoth <=> \E k \in Names(parameters) \cap Names(secrets) :
                         p = Problem("secrets", e, k, "in both files")
  BY Zenon
<1>4. EntryProblems(e, allowed) = ofParameters \cup ofSecrets \cup ofBoth
  BY DEF EntryProblems
<1>5. p \in EntryProblems(e, allowed) <=> p \in ofParameters \/ p \in ofSecrets \/ p \in ofBoth
  <2> HIDE DEF ofParameters, ofSecrets, ofBoth
  <2> QED
    BY <1>4
<1> QED
  BY <1>1, <1>2, <1>3, <1>5 DEF OfParameter, OfSecret, OfBoth

\* So has each problem of load (contract.py:88-149),
LEMMA LoadProblemsInPlace ==
  ASSUME TypeOK, NEW section \in Sections
  PROVE  \A p \in LoadProblems(section) : InPlace(p)
<1>1. \A e \in Environments \cup {NA} : \A k \in Keys \cup {NA} : \A what :
        InPlace(Problem(section, e, k, what))
  BY ProblemInPlace
<1>2. EnvironmentsOf(section) \subseteq Environments /\ Twice(EnvironmentPairs(section)) \subseteq Environments
  BY EnvironmentTypes DEF Twice, EnvironmentsOf
<1>3. \A e : Twice(Entries(section, e)) \subseteq Keys
  BY EntriesTypes, NamesTypes DEF Twice
<1>4. \A p \in FieldProblems(section) : InPlace(p)
  <2> TAKE p \in FieldProblems(section)
  <2>1. \E what : p = Problem(section, NA, NA, what)
    BY FieldProblemsOf, Zenon
  <2> QED
    BY <1>1, <2>1
<1>5. \A e \in EnvironmentsOf(section) : \A p \in BodyProblems(section, e) : InPlace(p)
  <2> TAKE e \in EnvironmentsOf(section)
  <2> TAKE p \in BodyProblems(section, e)
  <2>1. \E k \in Keys \cup {NA} : \E what : p = Problem(section, e, k, what)
    <3>1. \/ \E what : p = Problem(section, e, NA, what)
          \/ \E k \in Twice(Entries(section, e)) : p = Problem(section, e, k, "twice")
      BY BodyProblemsOf, Zenon
    <3> QED
      BY <1>3, <3>1
  <2> QED
    BY <1>1, <1>2, <2>1
<1> SUFFICES ASSUME NEW p \in LoadProblems(section)
             PROVE  InPlace(p)
  OBVIOUS
<1>6. \/ p = Problem(section, NA, NA, "no object")
      \/ p \in FieldProblems(section)
      \/ \E e \in Twice(EnvironmentPairs(section)) : p = Problem(section, e, NA, "twice")
      \/ \E e \in EnvironmentsOf(section) : p \in BodyProblems(section, e)
  BY LoadProblemsOf, Zenon
<1> QED
  BY <1>1, <1>2, <1>4, <1>5, <1>6

\* of the entries of an environment (contract.py:181-200),
LEMMA EntryProblemsInPlace ==
  ASSUME TypeOK, NEW e \in Environments, NEW allowed
  PROVE  \A p \in EntryProblems(e, allowed) : InPlace(p)
<1>1. \A s \in Sections : \A k \in Names(Entries(s, e)) : \A what : InPlace(Problem(s, e, k, what))
  BY EntriesTypes, NamesTypes, ProblemInPlace
<1>2. "parameters" \in Sections /\ "secrets" \in Sections
  BY DEF Sections
<1>3. \A p : OfParameter(p, e, allowed) \/ OfSecret(p, e) \/ OfBoth(p, e) => InPlace(p)
  BY <1>1, <1>2, Zenon DEF OfParameter, OfSecret, OfBoth
<1> QED
  BY <1>3, EntryProblemsOf

\* Where a problem comes from.
LEMMA FoundBy ==
  ASSUME NEW asked, NEW allowed, NEW p
  PROVE  p \in Problems(asked, allowed) <=>
           \/ \E s \in Sections : p \in LoadProblems(s)
           \/ /\ asked = All /\ Asked(All) = {} /\ \A s \in Sections : Readable(s)
              /\ p = Problem("parameters", NA, NA, "no environments")
           \/ \E e \in Asked(asked) : p \in Undeclared(e) \/ p \in EntryProblems(e, allowed)
<1> DEFINE loading == UNION {LoadProblems(s) : s \in Sections}
           missing == asked = All /\ Asked(All) = {} /\ \A s \in Sections : Readable(s)
           none == Problem("parameters", NA, NA, "no environments")
           checking == UNION {Undeclared(e) \cup EntryProblems(e, allowed) : e \in Asked(asked)}
<1>1. p \in loading <=> \E s \in Sections : p \in LoadProblems(s)
  BY Zenon
<1>2. p \in checking <=> \E e \in Asked(asked) : p \in Undeclared(e) \/ p \in EntryProblems(e, allowed)
  BY Zenon
<1>3. p \in If(missing, none) <=> missing /\ p = none
  BY DEF If
<1>4. Problems(asked, allowed) = loading \cup If(missing, none) \cup checking
  BY DEF Problems
<1> HIDE DEF loading, checking
<1> QED
  BY <1>1, <1>2, <1>3, <1>4, Zenon

\* and of check (contract.py:152-202).
LEMMA ProblemsInPlace ==
  ASSUME TypeOK, NEW asked \in {All} \cup SUBSET Environments, NEW allowed
  PROVE  \A p \in Problems(asked, allowed) : InPlace(p)
<1>1. Asked(asked) \subseteq Environments
  BY EnvironmentTypes DEF Asked, EveryEnvironment
<1>2. \A e \in Asked(asked) : \A p \in Undeclared(e) : InPlace(p)
  BY <1>1, ProblemInPlace DEF Undeclared
<1>3. InPlace(Problem("parameters", NA, NA, "no environments"))
  BY ProblemInPlace DEF Sections
<1> SUFFICES ASSUME NEW p \in Problems(asked, allowed)
             PROVE  InPlace(p)
  OBVIOUS
<1>4. \/ \E s \in Sections : p \in LoadProblems(s)
      \/ p = Problem("parameters", NA, NA, "no environments")
      \/ \E e \in Asked(asked) : p \in Undeclared(e) \/ p \in EntryProblems(e, allowed)
  BY FoundBy
<1>5. CASE \E s \in Sections : p \in LoadProblems(s)
  BY <1>5, LoadProblemsInPlace
<1>6. CASE \E e \in Asked(asked) : p \in Undeclared(e) \/ p \in EntryProblems(e, allowed)
  BY <1>1, <1>2, <1>6, EntryProblemsInPlace
<1> QED
  BY <1>3, <1>4, <1>5, <1>6

\* Each file, and each problem of a check, is what it is declared to be, for any files that
\* developers make of two contract files (contract.py:88-205).
THEOREM ContractTypeCorrect == Spec => []TypeOK
<1>1. Init => TypeOK
  <2> SUFFICES ASSUME Init
               PROVE  TypeOK
    OBVIOUS
  <2>1. \A section \in Sections : files[section] \in Files(section)
    <3> TAKE section \in Sections
    <3> DEFINE Environs == Environments \X Bodies(section)
               body == <<<<section, <<>>>>>>
               declared == [i \in DOMAIN Declared |-> <<Declared[i], body>>]
    <3>1. body \in Bodies(section)
      <4>1. <<section, <<>>>> \in {section, "other"} \X Objects(Keys \X EntriesOf(section))
        BY IsObject
      <4> QED
        BY <4>1, IsObject DEF Bodies
    <3>2. declared \in Seq(Environs)
      <4> HIDE DEF body
      <4> QED
        BY <3>1, ContractAssumption
    <3>3. <<"environments", declared>> \in TopFields \X Objects(Environs)
      <4> HIDE DEF declared, Environs
      <4> QED
        BY <3>2 DEF TopFields, Objects
    <3>4. files[section] = <<<<"environments", declared>>>>
      BY DEF Init
    <3> HIDE DEF declared, Environs
    <3>5. files[section] \in Objects(TopFields \X Objects(Environs))
      BY <3>3, <3>4 DEF Objects
    <3> QED
      BY <3>5 DEF Files, Environs
  <2> QED
    BY <2>1, ContractAssumption DEF Init, TypeOK, None
<1>2. TypeOK /\ [Next]_vars => TypeOK'
  <2> SUFFICES ASSUME TypeOK, [Next]_vars
               PROVE  TypeOK'
    OBVIOUS
  <2>1. CASE Edit
    BY <2>1, EditTypes
  <2>2. ASSUME NEW asked \in {All} \cup ((SUBSET Environments) \ {{}}),
               NEW allowed \in {Allowed, {}}, Check(asked, allowed)
        PROVE  TypeOK'
    BY <2>2, ProblemsInPlace DEF Check, TypeOK, InPlace
  <2>3. CASE UNCHANGED vars
    BY <2>3 DEF vars, TypeOK
  <2> QED
    BY <2>1, <2>2, <2>3 DEF Next, Review, DeployCheck
<1> QED
  BY <1>1, <1>2, PTL DEF Spec

-------------------------------------------------------------------------------
(* What stands between a reviewed contract and its deploys                 *)

\* A check that finds nothing is one that finds nothing in the files, none of the environments
\* undeclared, and nothing in the entries of any.
LEMMA NothingFound ==
  ASSUME NEW asked, NEW allowed
  PROVE  Problems(asked, allowed) = {} <=>
           /\ \A s \in Sections : LoadProblems(s) = {}
           /\ ~(asked = All /\ Asked(All) = {} /\ \A s \in Sections : Readable(s))
           /\ \A e \in Asked(asked) : Undeclared(e) = {} /\ EntryProblems(e, allowed) = {}
BY FoundBy

\* Nor does one that finds nothing in the entries of an environment find anything in one of them.
LEMMA NothingFoundInEntries ==
  ASSUME NEW e, NEW allowed
  PROVE  EntryProblems(e, allowed) = {} <=>
           /\ \A k \in Names(Entries("parameters", e)) :
                ParameterFaults(k, Value(Entries("parameters", e), k), allowed) = {}
           /\ \A k \in Names(Entries("secrets", e)) :
                SecretFaults(k, Value(Entries("secrets", e), k)) = {}
           /\ Names(Entries("parameters", e)) \cap Names(Entries("secrets", e)) = {}
<1> DEFINE parameters == Entries("parameters", e)
           secrets == Entries("secrets", e)
<1>1. ASSUME NEW k \in Names(parameters), NEW what \in ParameterFaults(k, Value(parameters, k), allowed)
      PROVE  EntryProblems(e, allowed) # {}
  <2>1. Problem("parameters", e, k, what) \in EntryProblems(e, allowed)
    BY <1>1, EntryProblemsOf DEF OfParameter
  <2> QED
    BY <2>1
<1>2. ASSUME NEW k \in Names(secrets), NEW what \in SecretFaults(k, Value(secrets, k))
      PROVE  EntryProblems(e, allowed) # {}
  <2>1. Problem("secrets", e, k, what) \in EntryProblems(e, allowed)
    BY <1>2, EntryProblemsOf DEF OfSecret
  <2> QED
    BY <2>1
<1>3. ASSUME NEW k \in Names(parameters) \cap Names(secrets)
      PROVE  EntryProblems(e, allowed) # {}
  BY <1>3, EntryProblemsOf DEF OfBoth
<1>4. ASSUME NEW p \in EntryProblems(e, allowed)
      PROVE  \/ \E k \in Names(parameters) : ParameterFaults(k, Value(parameters, k), allowed) # {}
             \/ \E k \in Names(secrets) : SecretFaults(k, Value(secrets, k)) # {}
             \/ Names(parameters) \cap Names(secrets) # {}
  <2>1. OfParameter(p, e, allowed) \/ OfSecret(p, e) \/ OfBoth(p, e)
    BY <1>4, EntryProblemsOf
  <2> QED
    BY <2>1, Zenon DEF OfParameter, OfSecret, OfBoth
<1> HIDE DEF parameters, secrets
<1>5. EntryProblems(e, allowed) = {} <=>
        /\ \A k \in Names(parameters) : ParameterFaults(k, Value(parameters, k), allowed) = {}
        /\ \A k \in Names(secrets) : SecretFaults(k, Value(secrets, k)) = {}
        /\ Names(parameters) \cap Names(secrets) = {}
  BY <1>1, <1>2, <1>3, <1>4
<1> QED
  BY <1>5 DEF parameters, secrets

\* A file that load finds nothing in could be read.
LEMMA ReadableWithoutProblems ==
  ASSUME NEW section, LoadProblems(section) = {}
  PROVE  Readable(section)
<1>1. files[section] # NotAnObject /\ FieldProblems(section) = {}
  BY LoadProblemsOf, Zenon
<1> QED
  BY <1>1, FieldProblemsOf

\* Where no name is allowed, a parameter's name must not be secret-shaped; the rest is as it is
\* where some are.
LEMMA NoneAllowed ==
  ASSUME NEW e
  PROVE  EntryProblems(e, {}) = {} <=>
           EntryProblems(e, Allowed) = {} /\ Names(Entries("parameters", e)) \cap SecretShaped = {}
<1>1. \A k, text : ParameterFaults(k, text, {}) = {} <=>
                     ParameterFaults(k, text, Allowed) = {} /\ k \notin SecretShaped
  BY DEF ParameterFaults, If
<1> QED
  BY <1>1, NothingFoundInEntries

\* Environments are checked apart: the state need not be reached by edits, only typed.
LEMMA DeploysAreTheReview == TypeOK => OnlyAllowedNamesStopDeploys
<1> SUFFICES ASSUME TypeOK
             PROVE  OnlyAllowedNamesStopDeploys
  OBVIOUS
<1>1. Asked(All) = EveryEnvironment
  BY DEF Asked
<1>2. \A e \in EveryEnvironment : Asked({e}) = {e} /\ {e} # All
  <2> TAKE e \in EveryEnvironment
  <2>1. {e} \in SUBSET Environments
    BY EnvironmentTypes DEF EveryEnvironment
  <2> QED
    BY <2>1, ContractAssumption DEF Asked
<1>3. ASSUME NEW e \in EveryEnvironment
      PROVE  Problems({e}, {}) = {} <=>
               /\ \A s \in Sections : LoadProblems(s) = {}
               /\ Undeclared(e) = {} /\ EntryProblems(e, Allowed) = {}
               /\ Names(Entries("parameters", e)) \cap SecretShaped = {}
  BY <1>2, NothingFound, NoneAllowed
<1>4. Problems(All, Allowed) = {} <=>
        /\ \A s \in Sections : LoadProblems(s) = {}
        /\ EveryEnvironment # {}
        /\ \A e \in EveryEnvironment : Undeclared(e) = {} /\ EntryProblems(e, Allowed) = {}
  BY <1>1, NothingFound, ReadableWithoutProblems
<1> QED
  BY <1>3, <1>4 DEF OnlyAllowedNamesStopDeploys

\* The check of a pull request differs from those of the deploys in the names that it is given
\* to allow, and in nothing else, whatever the files hold (contract.py:167-202, 241-250,
\* cli.py:213-220, deploy.yml:135-140).
THEOREM OnlyNamesComeBetween == Spec => []OnlyAllowedNamesStopDeploys
BY ContractTypeCorrect, DeploysAreTheReview, PTL

-------------------------------------------------------------------------------
(* What an accepted contract binds                                         *)

\* Kinds of source of which there is one at least and one at most.
LEMMA AtMostOneKind ==
  ASSUME NEW S, S \cap SourceKinds # {}, ~(Cardinality(S \cap SourceKinds) > 1)
  PROVE  \E kind : S \cap SourceKinds = {kind}
<1> DEFINE kinds == S \cap SourceKinds
<1>1. kinds # {} /\ ~(Cardinality(kinds) > 1)
  OBVIOUS
<1>2. IsFiniteSet(kinds)
  <2>1. IsFiniteSet(SourceKinds)
    <3>1. IsFiniteSet({"pointer"}) /\ IsFiniteSet({"parameter"}) /\ IsFiniteSet({"vault"})
      BY FS_Singleton
    <3>2. SourceKinds = ({"pointer"} \cup {"parameter"}) \cup {"vault"}
      BY DEF SourceKinds
    <3> QED
      BY <3>1, <3>2, FS_Union
  <2> QED
    BY <2>1, FS_Subset
<1>3. Cardinality(kinds) = 1
  <2>1. Cardinality(kinds) \in Nat
    BY <1>2, FS_CardinalityType
  <2>2. Cardinality(kinds) # 0
    BY <1>1, <1>2, FS_EmptySet
  <2> QED
    BY <1>1, <2>1, <2>2
<1> QED
  BY <1>2, <1>3, FS_Singleton

\* An entry in which nothing is wrong has one source, and a jsonKey beside a pointer only.
LEMMA FaultlessSource ==
  ASSUME NEW k, NEW source, SecretFaults(k, source) = {}
  PROVE  /\ \E kind \in SourceKinds : Names(source) \cap SourceKinds = {kind}
         /\ "jsonKey" \in Names(source) => "pointer" \in Names(source)
<1> DEFINE kinds == Names(source) \cap SourceKinds
<1>1. /\ kinds # {}
      /\ ~(Cardinality(kinds) > 1)
      /\ ~("jsonKey" \in Names(source) /\ "pointer" \notin Names(source))
  <2>1. source # NotAnObject
    BY DEF SecretFaults
  <2>2. /\ If(kinds = {}, "no source") = {}
        /\ If(Cardinality(kinds) > 1, "more than one source") = {}
        /\ If("jsonKey" \in Names(source) /\ "pointer" \notin Names(source),
              "jsonKey without pointer") = {}
    BY <2>1 DEF SecretFaults
  <2> QED
    BY <2>2 DEF If
<1>2. PICK kind : kinds = {kind}
  BY <1>1, AtMostOneKind
<1> QED
  BY <1>1, <1>2

\* A report tells what is wrong with the files as they are: an edit withdraws it.
IsCurrent == report # None => /\ report.problems = Problems(report.asked, report.allowed)
                              /\ report.asked # {}

\* Problems depend on the files and on nothing else.
LEMMA Unedited ==
  ASSUME files' = files
  PROVE  \A asked, allowed : Problems(asked, allowed)' = Problems(asked, allowed)
<1>1. \A s : Readable(s)' <=> Readable(s)
  BY DEF Readable
<1>2. \A s : EnvironmentPairs(s)' = EnvironmentPairs(s)
  BY DEF EnvironmentPairs
<1>3. \A s : EnvironmentsOf(s)' = EnvironmentsOf(s)
  BY <1>2 DEF EnvironmentsOf
<1>4. \A s, e : Body(s, e)' = Body(s, e) /\ Entries(s, e)' = Entries(s, e)
  BY DEF Entries, Body
<1>5. \A s, e : BodyProblems(s, e)' = BodyProblems(s, e)
  BY <1>4 DEF BodyProblems
<1>6. \A s : LoadProblems(s)' = LoadProblems(s)
  <2>1. \A s : FieldProblems(s)' = FieldProblems(s)
    BY <1>1 DEF FieldProblems
  <2> QED
    BY <1>2, <1>3, <1>5, <2>1 DEF LoadProblems
<1>7. \A e : Undeclared(e)' = Undeclared(e)
  BY <1>1, <1>3 DEF Undeclared
<1>8. \A e, allowed : EntryProblems(e, allowed)' = EntryProblems(e, allowed)
  <2> TAKE e, allowed
  <2>1. /\ Entries("parameters", e)' = Entries("parameters", e)
        /\ Entries("secrets", e)' = Entries("secrets", e)
    BY <1>4
  <2> DEFINE Of(parameters, secrets) ==
        (UNION {{Problem("parameters", e, k, what) :
                   what \in ParameterFaults(k, Value(parameters, k), allowed)} : k \in Names(parameters)})
        \cup (UNION {{Problem("secrets", e, k, what) :
                        what \in SecretFaults(k, Value(secrets, k))} : k \in Names(secrets)})
        \cup {Problem("secrets", e, k, "in both files") : k \in Names(parameters) \cap Names(secrets)}
  <2>2. EntryProblems(e, allowed) = Of(Entries("parameters", e), Entries("secrets", e))
    BY DEF EntryProblems
  <2>3. EntryProblems(e, allowed)' = Of(Entries("parameters", e)', Entries("secrets", e)')
    BY DEF EntryProblems
  <2> HIDE DEF Of
  <2> QED
    BY <2>1, <2>2, <2>3
<1>9. \A asked : Asked(asked)' = Asked(asked)
  BY <1>3 DEF Asked, EveryEnvironment
<1> QED
  BY <1>1, <1>6, <1>7, <1>8, <1>9 DEF Problems

\* Between two edits a report stays true of the files.
LEMMA ReportsAreCurrent == Spec => []IsCurrent
<1>1. Init => IsCurrent
  BY DEF Init, IsCurrent
<1>2. IsCurrent /\ [Next]_vars => IsCurrent'
  <2> SUFFICES ASSUME IsCurrent, [Next]_vars
               PROVE  IsCurrent'
    OBVIOUS
  <2>1. CASE Edit
    <3>1. report' = None
      <4>1. PICK section \in Sections : \/ Break(section) \/ AddField(section)
                                        \/ AddEnvironment(section) \/ AddEnvironmentField(section)
                                        \/ AddEntry(section)
        BY <2>1, Zenon DEF Edit
      <4>2. CASE Break(section) \/ AddField(section)
        BY <4>2 DEF Break, AddField, Write
      <4>3. CASE AddEnvironment(section)
        BY <4>3 DEF AddEnvironment, Write
      <4>4. CASE AddEnvironmentField(section)
        BY <4>4, Zenon DEF AddEnvironmentField, Write
      <4>5. CASE AddEntry(section)
        BY <4>5, Zenon DEF AddEntry, Write
      <4> QED
        BY <4>1, <4>2, <4>3, <4>4, <4>5
    <3> QED
      BY <3>1 DEF IsCurrent, None
  <2>2. ASSUME NEW asked \in {All} \cup ((SUBSET Environments) \ {{}}), NEW allowed,
               Check(asked, allowed)
        PROVE  IsCurrent'
    <3>1. /\ report' = [asked |-> asked, allowed |-> allowed, problems |-> Problems(asked, allowed)]
          /\ files' = files /\ asked # {}
      BY <2>2, ContractAssumption DEF Check
    <3> QED
      BY <3>1, Unedited DEF IsCurrent
  <2>3. CASE UNCHANGED vars
    BY <2>3, Unedited DEF vars, IsCurrent
  <2> QED
    BY <2>1, <2>2, <2>3 DEF Next, Review, DeployCheck
<1> QED
  BY <1>1, <1>2, PTL DEF Spec

\* Each secret of an accepted contract has one source, which sources.py finds in whatever order
\* it looks for it, and none is a parameter as well (contract.py:152-202, 259-288, sources.py:76-83).
THEOREM AcceptedBindsOnce == Spec => []AcceptedIsResolvable
<1>1. IsCurrent => AcceptedIsResolvable
  <2> SUFFICES ASSUME IsCurrent, report # None, report.problems = {},
                      NEW e \in Asked(report.asked)
               PROVE  /\ \A k \in Names(Entries("secrets", e)) :
                           LET source == Value(Entries("secrets", e), k) IN
                           /\ \E kind \in SourceKinds : Names(source) \cap SourceKinds = {kind}
                           /\ "jsonKey" \in Names(source) => "pointer" \in Names(source)
                      /\ Names(Entries("secrets", e)) \cap Names(Entries("parameters", e)) = {}
    BY DEF AcceptedIsResolvable, Checked
  <2>1. EntryProblems(e, report.allowed) = {}
    BY NothingFound DEF IsCurrent
  <2> QED
    BY <2>1, NothingFoundInEntries, FaultlessSource
<1> QED
  BY <1>1, ReportsAreCurrent, PTL

-------------------------------------------------------------------------------
(* What is accepted is what conforms, and every wrong key is named         *)

\* A name that is written once has the value it is written with.
LEMMA OnlyValue ==
  ASSUME NEW S, NEW pairs \in Seq(S), NEW i \in DOMAIN pairs, pairs[i][1] \notin Twice(pairs)
  PROVE  Value(pairs, pairs[i][1]) = pairs[i][2]
<1>1. pairs[i][1] \in Names(pairs)
  BY DEF Names
<1>2. PICK j \in DOMAIN pairs : pairs[j][1] = pairs[i][1] /\ Value(pairs, pairs[i][1]) = pairs[j][2]
  BY <1>1, ValueIsOf
<1>3. i = j
  BY <1>1, <1>2 DEF Twice
<1> QED
  BY <1>2, <1>3

\* The faults of a parameter (contract.py:229-256) are what the rules of SPEC.md 6.1 say of one.
LEMMA ParameterFaultless ==
  ASSUME NEW k, NEW text \in Texts, NEW allowed
  PROVE  ParameterFaults(k, text, allowed) = {} <=>
           /\ k \notin Invalid \cup Reserved /\ k \notin SecretShaped \ allowed
           /\ text \in {"path", "name", "words", "blank"}
<1>1. NameFaults(k) = {} <=> k \notin Invalid \cup Reserved
  BY DEF NameFaults, If
<1>2. LiteralFaults(text) = {} <=> text \notin WithArn \cup WithAccount
  BY DEF LiteralFaults, If
<1>3. (IF text = "number" THEN {"not a string"} ELSE LiteralFaults(text)) = {}
        <=> text \in {"path", "name", "words", "blank"}
  BY <1>2 DEF Texts, WithArn, WithAccount
<1>4. If(k \in SecretShaped \ allowed, "secret-shaped") = {} <=> k \notin SecretShaped \ allowed
  BY DEF If
<1> QED
  BY <1>1, <1>3, <1>4 DEF ParameterFaults

\* The texts that a field of a source can hold.
TextsOf(field) == CASE field = "pointer" -> {"path"}
                    [] field = "parameter" -> {"path", "name"}
                    [] OTHER -> {"path", "name", "words"}

\* A field of a source has no fault just when it holds one of them (contract.py:291-325).
LEMMA SourceTexts ==
  ASSUME NEW field \in SourceFields, NEW text \in Texts
  PROVE  SourceValueFaults(field, text) = {} <=> text \in TextsOf(field)
<1>1. LiteralFaults(text) = {} <=> text \notin WithArn \cup WithAccount
  BY DEF LiteralFaults, If
<1>2. TextsOf(field) = IF field = "pointer" THEN {"path"}
                       ELSE IF field = "parameter" THEN {"path", "name"}
                       ELSE {"path", "name", "words"}
  BY DEF TextsOf
<1>3. CASE text \in {"number", "blank"} \cup WithArn \cup WithAccount
  BY <1>1, <1>2, <1>3 DEF SourceValueFaults, WithArn, WithAccount
<1>4. CASE text \in {"path", "name", "words"}
  BY <1>1, <1>2, <1>4 DEF SourceValueFaults, If, WithArn, WithAccount
<1> QED
  BY <1>3, <1>4 DEF Texts, WithArn, WithAccount

\* The faults of a secret's source (contract.py:259-325) are what the rules say of one.
LEMMA SecretFaultless ==
  ASSUME NEW k, NEW source \in Sources
  PROVE  SecretFaults(k, source) = {} <=> k \notin Invalid \cup Reserved /\ IsSource(source)
<1> DEFINE names == Names(source)
           kinds == names \cap SourceKinds
           ofTexts == UNION {SourceValueFaults(n, Value(source, n)) : n \in names \cap SourceFields}
<1>1. NameFaults(k) = {} <=> k \notin Invalid \cup Reserved
  BY DEF NameFaults, If
<1>2. CASE source = NotAnObject
  BY <1>2 DEF SecretFaults, IsSource
<1>3. CASE source # NotAnObject
  <2>1. source \in Seq(STRING \X Texts)
    BY <1>3, ContractAssumption
  <2>2. ofTexts = {} <=> \A n \in names \cap SourceFields : Value(source, n) \in TextsOf(n)
    <3>1. \A n \in names : Value(source, n) \in Texts
      BY <2>1, ValueIsOf, PairAt
    <3>2. ofTexts = {} <=> \A n \in names \cap SourceFields : SourceValueFaults(n, Value(source, n)) = {}
      BY Zenon
    <3> QED
      BY <3>1, <3>2, SourceTexts
  <2>3. SecretFaults(k, source) = {} <=>
          /\ NameFaults(k) = {} /\ Twice(source) = {} /\ names \subseteq SourceFields /\ kinds # {}
          /\ ~(Cardinality(kinds) > 1)
          /\ ~("jsonKey" \in names /\ "pointer" \notin names)
          /\ ofTexts = {}
    <3> DEFINE twice == If(Twice(source) # {}, "field twice")
               unknown == If(~(names \subseteq SourceFields), "unknown field")
               none == If(kinds = {}, "no source")
               many == If(Cardinality(kinds) > 1, "more than one source")
               alone == If("jsonKey" \in names /\ "pointer" \notin names, "jsonKey without pointer")
    <3>1. SecretFaults(k, source) =
            NameFaults(k) \cup (twice \cup unknown \cup none \cup many \cup alone \cup ofTexts)
      BY <1>3 DEF SecretFaults
    <3>2. /\ twice = {} <=> Twice(source) = {}
          /\ unknown = {} <=> names \subseteq SourceFields
          /\ none = {} <=> kinds # {}
          /\ many = {} <=> ~(Cardinality(kinds) > 1)
          /\ alone = {} <=> ~("jsonKey" \in names /\ "pointer" \notin names)
      BY DEF If
    <3> HIDE DEF names, kinds, ofTexts, twice, unknown, none, many, alone
    <3>3. SecretFaults(k, source) = {} <=>
            /\ NameFaults(k) = {} /\ twice = {} /\ unknown = {} /\ none = {} /\ many = {}
            /\ alone = {} /\ ofTexts = {}
      BY <3>1
    <3> QED
      BY <3>2, <3>3
  <2>4. names \in {{kind} : kind \in SourceKinds} \cup {{"pointer", "jsonKey"}} <=>
          /\ names \subseteq SourceFields /\ kinds # {} /\ ~(Cardinality(kinds) > 1)
          /\ ~("jsonKey" \in names /\ "pointer" \notin names)
    <3>1. ASSUME NEW kind \in SourceKinds, names = {kind}
          PROVE  /\ names \subseteq SourceFields /\ kinds # {} /\ ~(Cardinality(kinds) > 1)
                 /\ ~("jsonKey" \in names /\ "pointer" \notin names)
      <4>1. kinds = {kind}
        BY <3>1
      <4>2. Cardinality(kinds) = 1
        BY <4>1, FS_Singleton
      <4> QED
        BY <3>1, <4>1, <4>2 DEF SourceFields, SourceKinds
    <3>2. ASSUME names = {"pointer", "jsonKey"}
          PROVE  /\ names \subseteq SourceFields /\ kinds # {} /\ ~(Cardinality(kinds) > 1)
                 /\ ~("jsonKey" \in names /\ "pointer" \notin names)
      <4>1. kinds = {"pointer"}
        BY <3>2 DEF SourceKinds
      <4>2. Cardinality(kinds) = 1
        BY <4>1, FS_Singleton
      <4> QED
        BY <3>2, <4>1, <4>2 DEF SourceFields, SourceKinds
    <3>3. ASSUME names \subseteq SourceFields, kinds # {}, ~(Cardinality(kinds) > 1),
                 ~("jsonKey" \in names /\ "pointer" \notin names)
          PROVE  names \in {{kind} : kind \in SourceKinds} \cup {{"pointer", "jsonKey"}}
      <4>1. PICK kind : kinds = {kind}
        BY <3>3, AtMostOneKind
      <4>2. CASE "jsonKey" \in names
        <5>1. kind = "pointer"
          BY <3>3, <4>1, <4>2 DEF SourceKinds
        <5>2. names = {"pointer", "jsonKey"}
          BY <3>3, <4>1, <4>2, <5>1 DEF SourceFields
        <5> QED
          BY <5>2
      <4>3. CASE "jsonKey" \notin names
        <5>1. names = {kind} /\ kind \in SourceKinds
          BY <3>3, <4>1, <4>3 DEF SourceFields
        <5> QED
          BY <5>1
      <4> QED
        BY <4>2, <4>3
    <3> HIDE DEF names, kinds
    <3> QED
      BY <3>1, <3>2, <3>3
  <2>5. ASSUME Twice(source) = {}, names \subseteq SourceFields
        PROVE  (\A n \in names \cap SourceFields : Value(source, n) \in TextsOf(n))
                 <=> \A i \in DOMAIN source : source[i][2] \in TextsOf(source[i][1])
    <3>1. \A i \in DOMAIN source : source[i][1] \in names /\ Value(source, source[i][1]) = source[i][2]
      BY <2>1, <2>5, OnlyValue DEF Names
    <3>2. \A n \in names : \E i \in DOMAIN source : source[i][1] = n
      BY DEF Names
    <3> QED
      BY <2>5, <3>1, <3>2
  <2>6. IsSource(source) <=>
          /\ Twice(source) = {}
          /\ names \in {{kind} : kind \in SourceKinds} \cup {{"pointer", "jsonKey"}}
          /\ \A i \in DOMAIN source : source[i][2] \in TextsOf(source[i][1])
    BY <1>3 DEF IsSource, TextsOf
  <2> HIDE DEF names, kinds, ofTexts
  <2> QED
    BY <1>1, <2>2, <2>3, <2>4, <2>5, <2>6
<1> QED
  BY <1>2, <1>3

\* A problem with this file, environment and key; a set of problems that has one.
IsAt(p, s, e, k) == p.file = s /\ p.environment = e /\ p.key = k
Named(problems, s, e, k) == \E p \in problems : IsAt(p, s, e, k)

\* What check finds wrong with a key.
Faulty(s, e, k, allowed) ==
  \/ k \in Twice(Entries(s, e))
  \/ /\ k \in Names(Entries(s, e))
     /\ \/ s = "parameters" /\ ParameterFaults(k, Value(Entries(s, e), k), allowed) # {}
        \/ s = "secrets" /\ SecretFaults(k, Value(Entries(s, e), k)) # {}
        \/ s = "secrets" /\ k \in Names(Entries("parameters", e))

\* A problem is at the place it was made for.
LEMMA PlaceOf ==
  ASSUME NEW s, NEW e, NEW k, NEW what, NEW t, NEW x, NEW y
  PROVE  IsAt(Problem(s, e, k, what), t, x, y) <=> s = t /\ e = x /\ k = y
BY DEF IsAt, Problem

\* An environment that something is found in is one that the file has, with the section in it.
LEMMA FoundInFile ==
  ASSUME NEW s, NEW e
  PROVE  /\ Names(Entries(s, e)) # {} => Body(s, e) # NotAnObject /\ Get(Body(s, e), s) # NotAnObject
         /\ Body(s, e) # NotAnObject => e \in EnvironmentsOf(s)
         /\ EnvironmentsOf(s) # {} => Readable(s)
         /\ Readable(s) => files[s] # NotAnObject
<1>1. \A n : Get(NotAnObject, n) = NotAnObject
  BY DEF Get, Pairs, Names
<1>2. Names(Pairs(NotAnObject)) = {}
  BY DEF Pairs, Names
<1> QED
  BY <1>1, <1>2 DEF Entries, Body, EnvironmentsOf, EnvironmentPairs, Readable, Get

\* A key that is written twice in an environment is a problem of load, and the only one with a key.
LEMMA TwiceIsFound ==
  ASSUME TypeOK, NEW s \in Sections, NEW e \in Environments, NEW k \in Keys
  PROVE  (\E t \in Sections : Named(LoadProblems(t), s, e, k)) <=> k \in Twice(Entries(s, e))
<1>1. k # NA
  BY ContractAssumption
<1>2. ASSUME NEW t \in Sections, NEW p \in LoadProblems(t), IsAt(p, s, e, k)
      PROVE  k \in Twice(Entries(s, e))
  <2>1. \A x, what : p # Problem(t, x, NA, what)
    BY <1>1, <1>2, PlaceOf
  <2>2. PICK x \in EnvironmentsOf(t) : p \in BodyProblems(t, x)
    <3>1. p \notin FieldProblems(t)
      BY <2>1, FieldProblemsOf, Zenon
    <3> QED
      BY <1>2, <2>1, <3>1, LoadProblemsOf, Zenon
  <2>3. \E y \in Twice(Entries(t, x)) : p = Problem(t, x, y, "twice")
    <3>1. /\ p # Problem(t, x, NA, "no object") /\ p # Problem(t, x, NA, "unknown field")
          /\ p # Problem(t, x, NA, "no section")
          /\ \A n : p # Problem(t, x, NA, Again(n, t))
      BY <2>1
    <3>2. p \in BodyProblems(t, x)
      BY <2>2
    <3> QED
      BY <3>1, <3>2, BodyProblemsOf, ZenonT(60)
  <2>4. PICK y \in Twice(Entries(t, x)) : IsAt(Problem(t, x, y, "twice"), s, e, k)
    BY <1>2, <2>3
  <2>5. t = s /\ x = e /\ y = k
    BY <2>4, PlaceOf
  <2> QED
    BY <2>4, <2>5
<1>3. ASSUME k \in Twice(Entries(s, e))
      PROVE  Named(LoadProblems(s), s, e, k)
  <2> DEFINE p == Problem(s, e, k, "twice")
  <2>1. Body(s, e) # NotAnObject /\ e \in EnvironmentsOf(s) /\ files[s] # NotAnObject
    BY <1>3, FoundInFile DEF Twice
  <2>2. p \in BodyProblems(s, e)
    BY <1>3, <2>1, BodyProblemsOf
  <2>3. p \in LoadProblems(s)
    BY <2>1, <2>2, LoadProblemsOf
  <2>4. IsAt(p, s, e, k)
    BY PlaceOf
  <2> HIDE DEF p
  <2> QED
    BY <2>3, <2>4 DEF Named
<1> QED
  BY <1>2, <1>3 DEF Named

\* The problems of a check name no other keys than those,
LEMMA NamedIsFaulty ==
  ASSUME TypeOK, NEW asked, NEW allowed, NEW s \in Sections, NEW e \in Environments, NEW k \in Keys,
         Named(Problems(asked, allowed), s, e, k)
  PROVE  Faulty(s, e, k, allowed)
<1>1. PICK p \in Problems(asked, allowed) : IsAt(p, s, e, k)
  BY DEF Named
<1>2. CASE \E t \in Sections : p \in LoadProblems(t)
  BY <1>1, <1>2, TwiceIsFound DEF Named, Faulty
<1>3. CASE \E x \in Asked(asked) : p \in EntryProblems(x, allowed)
  <2>1. PICK x \in Asked(asked) : p \in EntryProblems(x, allowed)
    BY <1>3
  <2>2. \A t, y, what : p = Problem(t, x, y, what) => t = s /\ x = e /\ y = k
    BY <1>1, PlaceOf
  <2>3. CASE OfParameter(p, x, allowed)
    <3>1. PICK y \in Names(Entries("parameters", x)) :
               \E what \in ParameterFaults(y, Value(Entries("parameters", x), y), allowed) :
                  p = Problem("parameters", x, y, what)
      BY <2>3 DEF OfParameter
    <3>2. /\ "parameters" = s /\ x = e /\ y = k
          /\ ParameterFaults(y, Value(Entries("parameters", x), y), allowed) # {}
      BY <2>2, <3>1
    <3> QED
      BY <3>1, <3>2 DEF Faulty
  <2>4. CASE OfSecret(p, x)
    <3>1. PICK y \in Names(Entries("secrets", x)) :
               \E what \in SecretFaults(y, Value(Entries("secrets", x), y)) :
                  p = Problem("secrets", x, y, what)
      BY <2>4 DEF OfSecret
    <3>2. /\ "secrets" = s /\ x = e /\ y = k
          /\ SecretFaults(y, Value(Entries("secrets", x), y)) # {}
      BY <2>2, <3>1
    <3> QED
      BY <3>1, <3>2 DEF Faulty
  <2>5. CASE OfBoth(p, x)
    <3>1. PICK y \in Names(Entries("parameters", x)) \cap Names(Entries("secrets", x)) :
               p = Problem("secrets", x, y, "in both files")
      BY <2>5 DEF OfBoth
    <3>2. "secrets" = s /\ x = e /\ y = k
      BY <2>2, <3>1
    <3> QED
      BY <3>1, <3>2 DEF Faulty
  <2> QED
    BY <2>1, <2>3, <2>4, <2>5, EntryProblemsOf
<1>4. \A t, x, what : p # Problem(t, x, NA, what)
  BY <1>1, PlaceOf, ContractAssumption
<1>5. \A x : p \notin Undeclared(x)
  BY <1>4, Zenon DEF Undeclared
<1> QED
  BY <1>1, <1>2, <1>3, <1>4, <1>5, FoundBy

\* and all of those in the environments that are asked for.
LEMMA FaultyIsNamed ==
  ASSUME TypeOK, NEW asked, NEW allowed, NEW s \in Sections, NEW e \in Environments, NEW k \in Keys,
         e \in Asked(asked), Faulty(s, e, k, allowed)
  PROVE  Named(Problems(asked, allowed), s, e, k)
<1>1. CASE k \in Twice(Entries(s, e))
  <2>1. PICK t \in Sections : Named(LoadProblems(t), s, e, k)
    BY <1>1, TwiceIsFound
  <2>2. \A p \in LoadProblems(t) : p \in Problems(asked, allowed)
    BY FoundBy
  <2> QED
    BY <2>1, <2>2 DEF Named
<1>2. ASSUME NEW what, Problem(s, e, k, what) \in EntryProblems(e, allowed)
      PROVE  Named(Problems(asked, allowed), s, e, k)
  <2>1. Problem(s, e, k, what) \in Problems(asked, allowed)
    BY <1>2, FoundBy
  <2>2. IsAt(Problem(s, e, k, what), s, e, k)
    BY PlaceOf
  <2> QED
    BY <2>1, <2>2, Zenon DEF Named
<1>3. ASSUME k \notin Twice(Entries(s, e))
      PROVE  \E what : Problem(s, e, k, what) \in EntryProblems(e, allowed)
  <2>1. k \in Names(Entries(s, e))
    BY <1>3 DEF Faulty
  <2>2. CASE s = "parameters" /\ ParameterFaults(k, Value(Entries(s, e), k), allowed) # {}
    <3>1. PICK what : what \in ParameterFaults(k, Value(Entries(s, e), k), allowed)
      BY <2>2
    <3>2. Problem(s, e, k, what) \in EntryProblems(e, allowed)
      BY <2>1, <2>2, <3>1, EntryProblemsOf DEF OfParameter
    <3> QED
      BY <3>2
  <2>3. CASE s = "secrets" /\ SecretFaults(k, Value(Entries(s, e), k)) # {}
    <3>1. PICK what : what \in SecretFaults(k, Value(Entries(s, e), k))
      BY <2>3
    <3>2. Problem(s, e, k, what) \in EntryProblems(e, allowed)
      BY <2>1, <2>3, <3>1, EntryProblemsOf DEF OfSecret
    <3> QED
      BY <3>2
  <2>4. CASE s = "secrets" /\ k \in Names(Entries("parameters", e))
    <3>1. Problem(s, e, k, "in both files") \in EntryProblems(e, allowed)
      BY <2>1, <2>4, EntryProblemsOf DEF OfBoth
    <3> QED
      BY <3>1
  <2> QED
    BY <1>3, <2>2, <2>3, <2>4 DEF Faulty
<1> QED
  BY <1>1, <1>2, <1>3

\* What a dict has for a name is what is written for it, if it is written once.
LEMMA OnlyValueOf ==
  ASSUME NEW S, NEW object \in Objects(S), NEW n, n \notin Twice(Pairs(object)),
         NEW v \in Values(Pairs(object), n)
  PROVE  n \in Names(Pairs(object)) /\ Get(object, n) = v
<1> DEFINE pairs == Pairs(object)
<1>1. pairs \in Seq(S)
  BY PairsTypes
<1>2. PICK i \in DOMAIN pairs : pairs[i][1] = n /\ v = pairs[i][2]
  BY DEF Values
<1>3. n \in Names(pairs)
  BY <1>2 DEF Names
<1>4. Value(pairs, n) = v
  BY <1>1, <1>2, OnlyValue
<1> QED
  BY <1>3, <1>4 DEF Get

\* What check looks at is one of the lists that are written,
LEMMA EntriesAreAList ==
  ASSUME TypeOK, NEW s \in Sections, NEW e, Names(Entries(s, e)) # {}
  PROVE  Get(Body(s, e), s) \in EntryLists(s, e) /\ Entries(s, e) = Pairs(Get(Body(s, e), s))
<1> DEFINE object == Get(files[s], "environments")
<1>1. object # NotAnObject /\ Body(s, e) # NotAnObject /\ Get(Body(s, e), s) # NotAnObject
  BY FoundInFile DEF Readable
<1>2. /\ files[s] \in Objects(TopFields \X Objects(Environments \X Bodies(s)))
      /\ object \in Objects(Environments \X Bodies(s))
      /\ Body(s, e) \in Objects({s, "other"} \X Objects(Keys \X EntriesOf(s)))
  BY EnvironmentPairsTypes, BodyTypes DEF TypeOK, Files, Bodies
<1>3. object \in Values(Pairs(files[s]), "environments")
  BY <1>1, <1>2, GetIsWritten
<1>4. Body(s, e) \in Values(Pairs(object), e)
  BY <1>1, <1>2, GetIsWritten DEF Body
<1>5. Get(Body(s, e), s) \in Values(Pairs(Body(s, e)), s)
  BY <1>1, <1>2, GetIsWritten
<1> HIDE DEF object
<1>6. Body(s, e) \in Blocks(s, e)
  BY <1>3, <1>4 DEF Blocks
<1> QED
  BY <1>5, <1>6 DEF EntryLists, Entries

\* The environments of a file, an environment and its section are written once.
Undropped(s, e) == /\ "environments" \notin Twice(Pairs(files[s]))
                   /\ e \notin Twice(EnvironmentPairs(s))
                   /\ s \notin Twice(Pairs(Body(s, e)))

\* the only one, if those are written once,
LEMMA OnlyList ==
  ASSUME TypeOK, NEW s \in Sections, NEW e, Undropped(s, e), NEW list \in EntryLists(s, e)
  PROVE  e \in EnvironmentsOf(s) /\ Pairs(list) = Entries(s, e)
<1> DEFINE object == Get(files[s], "environments")
<1>1. /\ files[s] \in Objects(TopFields \X Objects(Environments \X Bodies(s)))
      /\ object \in Objects(Environments \X Bodies(s))
      /\ Body(s, e) \in Objects({s, "other"} \X Objects(Keys \X EntriesOf(s)))
  BY EnvironmentPairsTypes, BodyTypes DEF TypeOK, Files, Bodies
<1>2. PICK body \in Blocks(s, e) : list \in Values(Pairs(body), s)
  BY DEF EntryLists
<1>3. PICK x \in Values(Pairs(files[s]), "environments") : body \in Values(Pairs(x), e)
  BY <1>2 DEF Blocks
<1>4. x = object
  BY <1>1, <1>3, OnlyValueOf DEF Undropped
<1>5. e \in EnvironmentsOf(s) /\ body = Body(s, e)
  BY <1>1, <1>3, <1>4, OnlyValueOf DEF Undropped, Body, EnvironmentsOf, EnvironmentPairs
<1>6. list = Get(Body(s, e), s)
  BY <1>1, <1>2, <1>5, OnlyValueOf DEF Undropped
<1> QED
  BY <1>5, <1>6 DEF Entries

\* and what it gives a key is written for the key,
LEMMA ValueIsWritten ==
  ASSUME TypeOK, NEW s \in Sections, NEW e, NEW k \in Names(Entries(s, e))
  PROVE  Value(Entries(s, e), k) \in Written(s, e, k)
<1>1. PICK list \in EntryLists(s, e) : Entries(s, e) = Pairs(list)
  BY EntriesAreAList
<1>2. Value(Entries(s, e), k) \in Values(Entries(s, e), k)
  <2>1. Entries(s, e) \in Seq(Keys \X EntriesOf(s))
    BY EntriesTypes
  <2>2. PICK i \in DOMAIN Entries(s, e) : /\ Entries(s, e)[i][1] = k
                                          /\ Value(Entries(s, e), k) = Entries(s, e)[i][2]
    BY <2>1, ValueIsOf
  <2> QED
    BY <2>2 DEF Values
<1> QED
  BY <1>1, <1>2 DEF Written

\* and all that is, if none of it is dropped and the key is written once.
LEMMA OnlyWritten ==
  ASSUME TypeOK, NEW s \in Sections, NEW e, Undropped(s, e), NEW k, NEW entry \in Written(s, e, k)
  PROVE  /\ e \in EnvironmentsOf(s) /\ k \in Names(Entries(s, e))
         /\ k \notin Twice(Entries(s, e)) => entry = Value(Entries(s, e), k)
<1>1. PICK list \in EntryLists(s, e) : entry \in Values(Pairs(list), k)
  BY DEF Written
<1>2. e \in EnvironmentsOf(s) /\ Entries(s, e) = Pairs(list)
  BY OnlyList
<1>3. PICK i \in DOMAIN Entries(s, e) : Entries(s, e)[i][1] = k /\ entry = Entries(s, e)[i][2]
  BY <1>1, <1>2 DEF Values
<1>4. Entries(s, e) \in Seq(Keys \X EntriesOf(s))
  BY EntriesTypes
<1> QED
  BY <1>2, <1>3, <1>4, OnlyValue DEF Names

\* What check looks at is an entry of its file.
LEMMA ValueTypes ==
  ASSUME TypeOK, NEW s \in Sections, NEW e, NEW k \in Names(Entries(s, e))
  PROVE  Value(Entries(s, e), k) \in EntriesOf(s)
<1>1. Entries(s, e) \in Seq(Keys \X EntriesOf(s))
  BY EntriesTypes
<1>2. PICK i \in DOMAIN Entries(s, e) : Value(Entries(s, e), k) = Entries(s, e)[i][2]
  BY <1>1, ValueIsOf
<1> QED
  BY <1>1, <1>2, PairAt

\* The problems of keys name none that is in order: the rules hold of what is written, and
\* nothing is made of a key that is not.
LEMMA NamedIsWrong ==
  ASSUME TypeOK, NEW asked, NEW allowed, NEW s \in Sections, NEW e \in Environments, NEW k \in Keys,
         Named(Problems(asked, allowed), s, e, k)
  PROVE  IsWrong(s, e, k, allowed)
<1> DEFINE value == Value(Entries(s, e), k)
<1>1. Faulty(s, e, k, allowed) /\ k \in Names(Entries(s, e))
  BY NamedIsFaulty DEF Faulty, Twice
<1>2. value \in Written(s, e, k) /\ value \in EntriesOf(s)
  BY <1>1, ValueIsWritten, ValueTypes
<1>3. CASE k \in Twice(Entries(s, e))
  <2>1. \E list \in EntryLists(s, e) : Entries(s, e) = Pairs(list)
    BY <1>1, EntriesAreAList
  <2> QED
    BY <1>2, <1>3, <2>1 DEF IsWrong
<1>4. CASE s = "parameters" /\ ParameterFaults(k, value, allowed) # {}
  <2>1. value \in Texts
    BY <1>2, <1>4, ContractAssumption DEF EntriesOf
  <2>2. \/ k \in Invalid \cup Reserved \/ k \in SecretShaped \ allowed
        \/ value \notin {"path", "name", "words", "blank"}
    BY <1>4, <2>1, ParameterFaultless
  <2> QED
    BY <1>2, <1>4, <2>2 DEF IsWrong
<1>5. CASE s = "secrets" /\ SecretFaults(k, value) # {}
  <2>1. value \in Sources
    BY <1>2, <1>5 DEF EntriesOf
  <2>2. k \in Invalid \cup Reserved \/ ~IsSource(value)
    BY <1>5, <2>1, SecretFaultless
  <2> QED
    BY <1>2, <1>5, <2>2 DEF IsWrong
<1>6. CASE s = "secrets" /\ k \in Names(Entries("parameters", e))
  <2>1. Written("parameters", e, k) # {}
    BY <1>6, ValueIsWritten DEF Sections
  <2> QED
    BY <1>2, <1>6, <2>1 DEF IsWrong
<1> QED
  BY <1>1, <1>3, <1>4, <1>5, <1>6 DEF Faulty

\* A wrong key of an environment that is asked for, or of any, is named, unless what is written
\* for it may have been dropped, so that it is not looked at.
LEMMA WrongIsNamed ==
  ASSUME TypeOK, NEW asked, NEW allowed, NEW s \in Sections, NEW e \in Environments, NEW k \in Keys,
         asked = All \/ e \in Asked(asked), IsWrong(s, e, k, allowed),
         \A t \in Sections : Undropped(t, e)
  PROVE  Named(Problems(asked, allowed), s, e, k)
<1> DEFINE value == Value(Entries(s, e), k)
<1>1. e \in EnvironmentsOf(s) /\ k \in Names(Entries(s, e))
  BY OnlyWritten DEF IsWrong
<1>2. e \in Asked(asked)
  BY <1>1 DEF Asked, EveryEnvironment
<1> SUFFICES ASSUME k \notin Twice(Entries(s, e))
             PROVE  Faulty(s, e, k, allowed)
  BY <1>2, FaultyIsNamed DEF Faulty
<1>3. \A entry \in Written(s, e, k) : entry = value
  BY OnlyWritten
<1>4. value \in EntriesOf(s)
  BY <1>1, ValueTypes
<1>5. ~(\E list \in EntryLists(s, e) : k \in Twice(Pairs(list)))
  BY OnlyList
<1>6. CASE s = "parameters"
  <2>1. value \in Texts
    BY <1>4, <1>6, ContractAssumption DEF EntriesOf
  <2>2. \/ k \in Invalid \cup Reserved \/ k \in SecretShaped \ allowed
        \/ value \notin {"path", "name", "words", "blank"}
    BY <1>3, <1>5, <1>6 DEF IsWrong
  <2>3. ParameterFaults(k, value, allowed) # {}
    <3> HIDE DEF value
    <3> QED
      BY <2>1, <2>2, ParameterFaultless
  <2> QED
    BY <1>1, <1>6, <2>3 DEF Faulty
<1>7. CASE s = "secrets"
  <2>1. value \in Sources
    BY <1>4, <1>7 DEF EntriesOf
  <2>2. k \in Invalid \cup Reserved \/ Written("parameters", e, k) # {} \/ ~IsSource(value)
    BY <1>3, <1>5, <1>7 DEF IsWrong
  <2>3. Written("parameters", e, k) # {} => k \in Names(Entries("parameters", e))
    BY OnlyWritten DEF Sections
  <2>4. SecretFaults(k, value) # {} \/ k \in Names(Entries("parameters", e))
    BY <2>1, <2>2, <2>3, SecretFaultless
  <2> QED
    BY <1>1, <1>7, <2>4 DEF Faulty
<1> QED
  BY <1>6, <1>7 DEF Sections

\* Where something may have been dropped, load has found the repetition.
LEMMA DroppedIsFound ==
  ASSUME NEW asked, NEW allowed, NEW t \in Sections, NEW e, ~Undropped(t, e)
  PROVE  \E place \in {e, NA}, what \in {"twice", "object twice"} :
           Problem(t, place, NA, what) \in Problems(asked, allowed)
<1>1. Names(Pairs(NotAnObject)) = {}
  BY DEF Pairs, Names
<1>2. CASE "environments" \in Twice(Pairs(files[t]))
  <2>1. files[t] # NotAnObject /\ "environments" \in Twice(files[t])
    BY <1>1, <1>2 DEF Pairs, Twice
  <2>2. Problem(t, NA, NA, "object twice") \in FieldProblems(t)
    BY <2>1, FieldProblemsOf DEF Again
  <2>3. Problem(t, NA, NA, "object twice") \in LoadProblems(t)
    BY <2>1, <2>2, LoadProblemsOf
  <2> QED
    BY <2>3, FoundBy
<1>3. CASE e \in Twice(EnvironmentPairs(t))
  <2>1. files[t] # NotAnObject
    BY <1>3, FoundInFile DEF Twice, EnvironmentsOf
  <2>2. Problem(t, e, NA, "twice") \in LoadProblems(t)
    BY <1>3, <2>1, LoadProblemsOf
  <2> QED
    BY <2>2, FoundBy
<1>4. CASE t \in Twice(Pairs(Body(t, e)))
  <2>1. Body(t, e) # NotAnObject /\ t \in Twice(Body(t, e))
    BY <1>1, <1>4 DEF Pairs, Twice
  <2>2. e \in EnvironmentsOf(t) /\ files[t] # NotAnObject
    BY <2>1, FoundInFile
  <2>3. Problem(t, e, NA, "object twice") \in BodyProblems(t, e)
    BY <2>1, BodyProblemsOf DEF Again
  <2>4. Problem(t, e, NA, "object twice") \in LoadProblems(t)
    BY <2>2, <2>3, LoadProblemsOf
  <2> QED
    BY <2>4, FoundBy
<1> QED
  BY <1>2, <1>3, <1>4 DEF Undropped

\* What is asked for are environments.
LEMMA ReportOfAsked ==
  ASSUME TypeOK, NEW asked \in {All} \cup SUBSET Environments
  PROVE  Asked(asked) \subseteq Environments
BY EnvironmentTypes DEF Asked, EveryEnvironment

\* Every wrong key of the environments that are asked for is reported, not only the first, and no
\* other key, unless the report says that some of what is written may have been dropped: the
\* environments of a file, an environment or its section that is written twice
\* (contract.py:30-39, 88-202).
THEOREM AllWrongKeysAreNamed == Spec => []WrongKeysAreNamed
<1>1. TypeOK /\ IsCurrent => WrongKeysAreNamed
  <2> SUFFICES ASSUME TypeOK, IsCurrent, Checked, NEW s \in Sections, NEW k \in Keys,
                      NEW e \in IF report.asked = All THEN Environments ELSE report.asked
               PROVE  LET named == Named(report.problems, s, e, k)
                          dropped == \E t \in Sections, place \in {e, NA},
                                        what \in {"twice", "object twice"} :
                                       Problem(t, place, NA, what) \in report.problems
                      IN /\ named => IsWrong(s, e, k, report.allowed)
                         /\ IsWrong(s, e, k, report.allowed) => named \/ dropped
    BY Zenon DEF WrongKeysAreNamed, Named, IsAt
  <2>1. report.problems = Problems(report.asked, report.allowed)
    BY DEF IsCurrent, Checked
  <2>2. e \in Environments /\ (report.asked = All \/ e \in Asked(report.asked))
    BY DEF TypeOK, Asked
  <2> DEFINE problems == Problems(report.asked, report.allowed)
  <2>3. Named(problems, s, e, k) => IsWrong(s, e, k, report.allowed)
    BY <2>2, NamedIsWrong
  <2>4. IsWrong(s, e, k, report.allowed) /\ (\A t \in Sections : Undropped(t, e)) => Named(problems, s, e, k)
    BY <2>2, WrongIsNamed
  <2>5. \A t \in Sections : ~Undropped(t, e) =>
          \E place \in {e, NA}, what \in {"twice", "object twice"} : Problem(t, place, NA, what) \in problems
    BY DroppedIsFound
  <2> HIDE DEF problems
  <2>6. report.problems = problems
    BY <2>1 DEF problems
  <2> QED
    BY <2>3, <2>4, <2>5, <2>6
<1> QED
  BY <1>1, ContractTypeCorrect, ReportsAreCurrent, PTL

\* Load finds nothing in a body just when it is in order,
LEMMA BodyInOrder ==
  ASSUME TypeOK, NEW s \in Sections, NEW e
  PROVE  BodyProblems(s, e) = {} <=> InOrderBody(s, Body(s, e))
<1> DEFINE body == Body(s, e)
<1>1. body \in Objects({s, "other"} \X Objects(Keys \X EntriesOf(s)))
  BY BodyTypes DEF Bodies
<1>2. CASE body = NotAnObject
  BY <1>2 DEF BodyProblems, InOrderBody
<1>3. CASE body # NotAnObject
  <2> DEFINE repeated == {Problem(s, e, NA, Again(n, s)) : n \in Twice(body)}
             isUnknown == ~(Names(body) \subseteq {s})
             unknown == If(isUnknown, Problem(s, e, NA, "unknown field"))
             none == If(Get(body, s) = NotAnObject, Problem(s, e, NA, "no section"))
             twice == {Problem(s, e, k, "twice") : k \in Twice(Entries(s, e))}
  <2>1. BodyProblems(s, e) = repeated \cup unknown \cup none \cup twice
    BY <1>3 DEF BodyProblems
  <2>2. /\ repeated = {} <=> Twice(body) = {}
        /\ twice = {} <=> Twice(Entries(s, e)) = {}
    OBVIOUS
  <2>3. /\ unknown = {} <=> ~isUnknown
        /\ none = {} <=> Get(body, s) # NotAnObject
    BY DEF If
  <2>4. Pairs(body) = body
    BY <1>3 DEF Pairs
  <2>5. \/ Get(body, s) = NotAnObject /\ s \notin Names(body)
        \/ s \in Names(body) /\ Get(body, s) \in Values(body, s)
    BY <1>1, <2>4, GetIsWritten
  <2>6. Twice(body) = {} => \A v \in Values(body, s) : Get(body, s) = v
    BY <1>1, <2>4, OnlyValueOf
  <2>7. Get(body, s) # NotAnObject => Entries(s, e) = Get(body, s)
    BY DEF Entries, Pairs
  <2>8. InOrderBody(s, body) <=>
          /\ Names(body) = {s} /\ Twice(body) = {}
          /\ \A list \in Values(body, s) : list # NotAnObject /\ Twice(list) = {}
    BY <1>3 DEF InOrderBody
  <2> HIDE DEF body, repeated, unknown, none, twice
  <2>9. BodyProblems(s, e) = {} <=> repeated = {} /\ unknown = {} /\ none = {} /\ twice = {}
    BY <2>1
  <2>10. BodyProblems(s, e) = {} <=> InOrderBody(s, body)
    BY <1>3, <2>2, <2>3, <2>5, <2>6, <2>7, <2>8, <2>9
  <2> QED
    BY <2>10 DEF body
<1> QED
  BY <1>2, <1>3

\* and in a file (contract.py:88-149).
LEMMA LoadFindsDisorder ==
  ASSUME TypeOK, NEW s \in Sections
  PROVE  LoadProblems(s) = {} <=> InOrder(s)
<1> DEFINE file == files[s]
           object == Get(file, "environments")
<1>1. /\ file \in Objects(TopFields \X Objects(Environments \X Bodies(s)))
      /\ object \in Objects(Environments \X Bodies(s))
  BY EnvironmentPairsTypes DEF TypeOK, Files
<1>2. CASE file = NotAnObject
  BY <1>2 DEF LoadProblems, InOrder
<1>3. CASE file # NotAnObject
  <2> DEFINE again == {Problem(s, NA, NA, Again(n, "environments")) : n \in Twice(file)}
             isUnknown == ~(Names(file) \subseteq {"environments", "schema"})
             unknown == If(isUnknown, Problem(s, NA, NA, "unknown field"))
             none == If(~Readable(s), Problem(s, NA, NA, "no environments object"))
             repeated == {Problem(s, e, NA, "twice") : e \in Twice(EnvironmentPairs(s))}
             ofBodies == UNION {BodyProblems(s, e) : e \in EnvironmentsOf(s)}
  <2>1. LoadProblems(s) = (again \cup unknown \cup none) \cup repeated \cup ofBodies
    BY <1>3 DEF LoadProblems, FieldProblems
  <2>2. /\ again = {} <=> Twice(file) = {}
        /\ repeated = {} <=> Twice(EnvironmentPairs(s)) = {}
    OBVIOUS
  <2>3. /\ unknown = {} <=> ~isUnknown
        /\ none = {} <=> Readable(s)
    BY DEF If
  <2>4. ofBodies = {} <=> \A e \in EnvironmentsOf(s) : InOrderBody(s, Body(s, e))
    <3>1. ofBodies = {} <=> \A e \in EnvironmentsOf(s) : BodyProblems(s, e) = {}
      BY Zenon
    <3> QED
      BY <3>1, BodyInOrder
  <2>5. Pairs(file) = file
    BY <1>3 DEF Pairs
  <2>6. \/ object = NotAnObject /\ "environments" \notin Names(file)
        \/ "environments" \in Names(file) /\ object \in Values(file, "environments")
    BY <1>1, <2>5, GetIsWritten
  <2>7. Twice(file) = {} => \A v \in Values(file, "environments") : object = v
    BY <1>1, <2>5, OnlyValueOf
  <2>8. ASSUME object # NotAnObject, Twice(object) = {}
        PROVE  (\A e \in EnvironmentsOf(s) : InOrderBody(s, Body(s, e)))
                 <=> \A i \in DOMAIN object : InOrderBody(s, object[i][2])
    <3>1. Pairs(object) = object /\ EnvironmentsOf(s) = Names(object)
      BY <2>8 DEF Pairs, EnvironmentsOf, EnvironmentPairs
    <3>2. \A i \in DOMAIN object : object[i][1] \in Names(object)
                                     /\ object[i][2] = Body(s, object[i][1])
      <4> TAKE i \in DOMAIN object
      <4>1. object[i][1] \in Names(object) /\ object[i][2] \in Values(object, object[i][1])
        BY DEF Names, Values
      <4>2. Get(object, object[i][1]) = object[i][2]
        BY <1>1, <2>8, <3>1, <4>1, OnlyValueOf
      <4> QED
        BY <4>1, <4>2 DEF Body
    <3>3. \A e \in Names(object) : \E i \in DOMAIN object : object[i][1] = e
      BY DEF Names
    <3> HIDE DEF object
    <3> QED
      BY <3>1, <3>2, <3>3
  <2>9. Readable(s) <=> object # NotAnObject
    BY DEF Readable
  <2>10. object # NotAnObject => EnvironmentPairs(s) = object
    BY DEF EnvironmentPairs, Pairs
  <2>11. InOrder(s) <=>
           /\ "environments" \in Names(file) /\ ~isUnknown /\ Twice(file) = {}
           /\ \A x \in Values(file, "environments") :
                x # NotAnObject /\ Twice(x) = {} /\ \A i \in DOMAIN x : InOrderBody(s, x[i][2])
    BY <1>3 DEF InOrder
  <2> HIDE DEF file, object, again, isUnknown, unknown, none, repeated, ofBodies
  <2>12. LoadProblems(s) = {} <=>
           again = {} /\ unknown = {} /\ none = {} /\ repeated = {} /\ ofBodies = {}
    BY <2>1
  <2>13. LoadProblems(s) = {} <=>
           /\ Twice(file) = {} /\ ~isUnknown /\ object # NotAnObject /\ Twice(object) = {}
           /\ \A i \in DOMAIN object : InOrderBody(s, object[i][2])
    BY <2>2, <2>3, <2>4, <2>8, <2>9, <2>10, <2>12
  <2> QED
    BY <2>6, <2>7, <2>11, <2>13
<1> QED
  BY <1>2, <1>3

\* A problem of an environment's entries is with one of its keys.
LEMMA EntryProblemsNameKeys ==
  ASSUME TypeOK, NEW asked, NEW allowed, NEW e \in Environments, e \in Asked(asked),
         EntryProblems(e, allowed) # {}
  PROVE  \E s \in Sections, k \in Keys : Named(Problems(asked, allowed), s, e, k)
<1>1. PICK p : p \in EntryProblems(e, allowed)
  OBVIOUS
<1>2. \A s \in Sections : Names(Entries(s, e)) \subseteq Keys
  BY EntriesTypes, NamesTypes
<1>3. PICK s \in Sections, k \in Keys : \E what : p = Problem(s, e, k, what)
  <2>1. "parameters" \in Sections /\ "secrets" \in Sections
    BY DEF Sections
  <2>2. \/ \E k \in Names(Entries("parameters", e)) : \E what : p = Problem("parameters", e, k, what)
        \/ \E k \in Names(Entries("secrets", e)) : \E what : p = Problem("secrets", e, k, what)
    <3>1. OfParameter(p, e, allowed) \/ OfSecret(p, e) \/ OfBoth(p, e)
      BY <1>1, EntryProblemsOf
    <3> QED
      BY <3>1, Zenon DEF OfParameter, OfSecret, OfBoth
  <2> QED
    BY <1>2, <2>1, <2>2, Zenon
<1>4. p \in Problems(asked, allowed)
  BY <1>1, FoundBy
<1> QED
  BY <1>3, <1>4, PlaceOf DEF Named

\* A check accepts the contracts that follow the rules of SPEC.md 6.1 and no others, whatever the
\* files are made of (contract.py:88-205).
THEOREM AcceptedConforms == Spec => []AcceptsWhatConforms
<1>1. TypeOK /\ IsCurrent => AcceptsWhatConforms
  <2> SUFFICES ASSUME TypeOK, IsCurrent, Checked
               PROVE  report.problems = {} <=> Conforms(report.asked, report.allowed)
    BY DEF AcceptsWhatConforms
  <2> DEFINE asked == report.asked
             allowed == report.allowed
  <2>1. /\ report.problems = Problems(asked, allowed) /\ asked # {}
        /\ asked \in {All} \cup SUBSET Environments
    BY DEF IsCurrent, Checked, TypeOK
  <2>2. Asked(asked) \subseteq Environments
    BY <2>1, ReportOfAsked
  <2> HIDE DEF asked, allowed
  <2>3. Conforms(asked, allowed) <=>
          /\ \A s \in Sections : InOrder(s)
          /\ EveryEnvironment # {}
          /\ \A e \in Asked(asked), s \in Sections :
               e \in EnvironmentsOf(s) /\ \A k \in Keys : ~IsWrong(s, e, k, allowed)
    BY DEF Conforms, Asked
  <2>4. ASSUME Problems(asked, allowed) = {} PROVE Conforms(asked, allowed)
    <3>1. /\ \A s \in Sections : InOrder(s) /\ Readable(s)
          /\ ~(asked = All /\ Asked(All) = {})
          /\ \A e \in Asked(asked) : Undeclared(e) = {}
      BY <2>4, NothingFound, LoadFindsDisorder, ReadableWithoutProblems
    <3>2. \A e \in Asked(asked), s \in Sections : e \in EnvironmentsOf(s)
      BY <3>1 DEF Undeclared
    <3>3. \A e \in Asked(asked), s \in Sections, k \in Keys : ~IsWrong(s, e, k, allowed)
      <4>1. \A e : \A s \in Sections : Undropped(s, e)
        BY <2>4, DroppedIsFound
      <4>2. \A e, s, k : ~Named(Problems(asked, allowed), s, e, k)
        BY <2>4 DEF Named
      <4> QED
        BY <2>2, <4>1, <4>2, WrongIsNamed
    <3>4. EveryEnvironment # {}
      <4>1. CASE asked = All
        BY <3>1, <4>1 DEF Asked
      <4>2. CASE asked # All
        <5>1. PICK e : e \in Asked(asked)
          BY <2>1, <4>2 DEF Asked
        <5> QED
          BY <3>2, <5>1 DEF EveryEnvironment, Sections
      <4> QED
        BY <4>1, <4>2
    <3> QED
      BY <2>3, <3>1, <3>2, <3>3, <3>4
  <2>5. ASSUME Conforms(asked, allowed) PROVE Problems(asked, allowed) = {}
    <3>1. \A s \in Sections : LoadProblems(s) = {}
      BY <2>3, <2>5, LoadFindsDisorder
    <3>2. Asked(All) # {}
      BY <2>3, <2>5 DEF Asked
    <3>3. \A e \in Asked(asked) : Undeclared(e) = {}
      BY <2>3, <2>5 DEF Undeclared
    <3>4. \A e \in Asked(asked) : EntryProblems(e, allowed) = {}
      <4> SUFFICES ASSUME NEW e \in Asked(asked), EntryProblems(e, allowed) # {}
                   PROVE  FALSE
        OBVIOUS
      <4>1. PICK s \in Sections, k \in Keys : Named(Problems(asked, allowed), s, e, k)
        BY <2>2, EntryProblemsNameKeys
      <4>2. IsWrong(s, e, k, allowed)
        BY <2>2, <4>1, NamedIsWrong
      <4> QED
        BY <2>3, <2>5, <4>2
    <3> QED
      BY <3>1, <3>2, <3>3, <3>4, NothingFound
  <2> QED
    BY <2>1, <2>4, <2>5 DEF asked, allowed
<1> QED
  BY <1>1, ContractTypeCorrect, ReportsAreCurrent, PTL
===============================================================================
