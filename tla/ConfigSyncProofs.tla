--------------------------- MODULE ConfigSyncProofs ---------------------------
(***************************************************************************)
(* Theorems about ConfigSync, for every set of keys and values and any     *)
(* number of syncs that run one at a time.                                 *)
(***************************************************************************)
EXTENDS ConfigSync, TLAPS

\* The types hold whether or not syncs overlap.
THEOREM SyncTypeCorrect == Spec => []TypeOK
<1> USE SyncAssumption DEF TypeOK, Documents, Arguments, NoKeys, Ends
<1>1. Init => TypeOK
  BY DEF Init
<1>2. TypeOK /\ [Next]_syncVars => TypeOK'
  <2> SUFFICES ASSUME TypeOK, [Next]_syncVars PROVE TypeOK'
    OBVIOUS
  <2>1. ASSUME NEW s \in Syncs, Start(s) PROVE TypeOK'
    BY <2>1 DEF Start, Move
  <2>2. ASSUME NEW s \in Syncs, ReadValue(s) PROVE TypeOK'
    <3>1. PICK k \in args[s].names \ tried[s] :
            /\ tried' = [tried EXCEPT ![s] = @ \cup {k}]
            /\ \E value \in {vault[k], Absent} : read' = [read EXCEPT ![s][k] = value]
      BY <2>2 DEF ReadValue
    <3>2. k \in Keys /\ vault[k] \in Values \cup {Absent}
      OBVIOUS
    <3>3. tried' \in [Syncs -> SUBSET Keys] /\ read' \in [Syncs -> Documents]
      BY <3>1, <3>2
    <3> QED
      BY <2>2, <3>3 DEF ReadValue
  <2>3. ASSUME NEW s \in Syncs, ValuesRead(s) \/ RefuseDocument(s) \/ PutNothing(s) \/ Killed(s)
        PROVE  TypeOK'
    BY <2>3 DEF ValuesRead, RefuseDocument, PutNothing, Killed, Move
  <2>4. ASSUME NEW s \in Syncs, ReadDocument(s) PROVE TypeOK'
    BY <2>4 DEF ReadDocument, Move
  <2>5. ASSUME NEW s \in Syncs, Put(s) PROVE TypeOK'
    <3>1. Merged(existing[s], s) \in Documents
      BY DEF Merged
    <3> QED
      BY <2>5, <3>1 DEF Put, Move
  <2>6. CASE Rotate
    BY <2>6 DEF Rotate
  <2>7. CASE UNCHANGED syncVars
    BY <2>7 DEF syncVars
  <2> QED
    BY <2>1, <2>2, <2>3, <2>4, <2>5, <2>6, <2>7 DEF Next, Step
<1> QED
  BY <1>1, <1>2, PTL DEF Spec

\* One sync at a time runs; what it found in the secret is still there when it writes; and
\* once it has read the vault it has every value of its contract.
OneAtATime == \A s, t \in Syncs : Running(s) /\ Running(t) => s = t
FoundIsCurrent == \A s \in Syncs : at[s] = "put" => existing[s] = document
ReadIsComplete == \A s \in Syncs : at[s] \in {"document", "put", "written", "current"} =>
                    \A k \in args[s].names : read[s][k] # Absent
Serial == OneAtATime /\ FoundIsCurrent /\ ReadIsComplete /\ SyncedKeysArePresent

\* If the syncs exclude each other, every step keeps Serial.
LEMMA SerialSteps ==
  ASSUME Exclusive, TypeOK, Serial, [Next]_syncVars
  PROVE  Serial'
<1> USE SyncAssumption DEF TypeOK, Arguments, Serial, OneAtATime, FoundIsCurrent, ReadIsComplete,
        SyncedKeysArePresent, Running, Move
<1>1. ASSUME NEW s \in Syncs, Start(s) PROVE Serial'
  BY <1>1 DEF Start
<1>2. ASSUME NEW s \in Syncs, ReadValue(s) PROVE Serial'
  <2>1. /\ at' = at /\ document' = document /\ existing' = existing /\ args' = args
        /\ at[s] = "vault"
        /\ \A t \in Syncs \ {s} : read'[t] = read[t]
    BY <1>2 DEF ReadValue
  <2> QED
    BY <2>1
<1>3. ASSUME NEW s \in Syncs, ValuesRead(s) PROVE Serial'
  BY <1>3 DEF ValuesRead
<1>4. ASSUME NEW s \in Syncs, RefuseDocument(s) \/ Killed(s) PROVE Serial'
  BY <1>4 DEF RefuseDocument, Killed
<1>5. ASSUME NEW s \in Syncs, ReadDocument(s) PROVE Serial'
  BY <1>5 DEF ReadDocument
\* Nothing to write: the document found, which is the document, has the merged values.
<1>6. ASSUME NEW s \in Syncs, PutNothing(s) PROVE Serial'
  <2>1. UNCHANGED <<document, args, read, existing>> /\ at[s] = "put" /\ existing[s] = document
    BY <1>6 DEF PutNothing
  <2>2. at'[s] = "current" => \A k \in args[s].names : document[k] # Absent
    BY <1>6, <2>1 DEF PutNothing, Merged
  <2>3. document # Unusable
    BY <2>1
  <2>4. \A t \in Syncs \ {s} : at'[t] = at[t]
    BY <1>6 DEF PutNothing
  <2>5. at'[s] \in {"current", "dry", "failed"}
    BY <1>6 DEF PutNothing
  <2> QED
    BY <2>1, <2>2, <2>3, <2>4, <2>5
\* Keys of other contracts are carried over from the document, unless the sync prunes.
<1>7. ASSUME NEW s \in Syncs, Put(s) PROVE Serial'
  <2>1. /\ UNCHANGED <<args, read, existing>>
        /\ at[s] = "put" /\ existing[s] = document
        /\ document' = Merged(document, s)
        /\ at'[s] \in {"written", "failed"}
        /\ \A t \in Syncs \ {s} : at'[t] = at[t]
    BY <1>7 DEF Put
  <2>2. OneAtATime' /\ FoundIsCurrent' /\ ReadIsComplete'
    BY <2>1
  <2>3. document' \in Documents /\ \A k \in args[s].names : document'[k] # Absent
    BY <2>1 DEF Merged, Documents
  <2>4. ~args[s].prune => \A k \in Keys : document[k] # Absent => document'[k] # Absent
    BY <2>1 DEF Merged
  <2>5. SyncedKeysArePresent'
    BY <2>1, <2>3, <2>4
  <2> QED
    BY <2>2, <2>5
<1>8. CASE Rotate
  BY <1>8 DEF Rotate
<1>9. CASE UNCHANGED syncVars
  BY <1>9 DEF syncVars
<1> QED
  BY <1>1, <1>2, <1>3, <1>4, <1>5, <1>6, <1>7, <1>8, <1>9 DEF Next, Step

\* With one sync at a time the reads and writes of the document are as good as atomic, a key
\* leaves it only by pruning, and what a sync has reported stays true.
THEOREM SerialSyncsMerge ==
  ASSUME Exclusive
  PROVE  Spec => []SyncedKeysArePresent /\ MergesAreAtomic /\ KeysAreKept
<1>1. Init => Serial
  BY DEF Init, Serial, OneAtATime, FoundIsCurrent, ReadIsComplete, SyncedKeysArePresent, Running
<1>2. TypeOK /\ Serial /\ [Next]_syncVars => Serial'
  BY SerialSteps
<1>3. TypeOK /\ Serial /\ [Next]_syncVars =>
        [document' # document =>
           \E s \in Syncs : at[s] = "put" /\ document' = Merged(document, s)]_syncVars
  <2> SUFFICES ASSUME Serial, Next, document' # document
               PROVE  \E s \in Syncs : at[s] = "put" /\ document' = Merged(document, s)
    BY DEF syncVars
  <2>1. PICK s \in Syncs : Put(s)
    BY DEF Next, Step, Start, ReadValue, ValuesRead, ReadDocument, RefuseDocument, PutNothing,
           Killed, Rotate
  <2> QED
    BY <2>1 DEF Put, Serial, FoundIsCurrent
<1>4. TypeOK /\ Serial /\ [Next]_syncVars =>
        [\A k \in Keys : document # Unusable /\ document[k] # Absent /\ document'[k] = Absent =>
           \E s \in Syncs : at[s] = "put" /\ args[s].prune /\ ~args[s].dryRun
                              /\ k \notin args[s].names]_syncVars
  <2> SUFFICES ASSUME TypeOK, Serial, Next, NEW k \in Keys, document # Unusable,
                      document[k] # Absent, document'[k] = Absent
               PROVE  \E s \in Syncs : at[s] = "put" /\ args[s].prune /\ ~args[s].dryRun
                                         /\ k \notin args[s].names
    BY DEF syncVars
  <2>1. PICK s \in Syncs : Put(s)
    BY DEF Next, Step, Start, ReadValue, ValuesRead, ReadDocument, RefuseDocument, PutNothing,
           Killed, Rotate
  <2>2. document' = Merged(document, s) /\ \A n \in args[s].names : read[s][n] # Absent
    BY <2>1 DEF Put, Serial, FoundIsCurrent, ReadIsComplete
  <2> QED
    BY <2>1, <2>2 DEF Put, Merged
<1> QED
  BY <1>1, <1>2, <1>3, <1>4, SyncTypeCorrect, PTL DEF Spec, Serial, MergesAreAtomic, KeysAreKept

\* What a sync has reported as written stays in the document, if syncs exclude each other.
COROLLARY SyncedKeysStay == ASSUME Exclusive PROVE Spec => []SyncedKeysArePresent
BY SerialSyncsMerge

\* Only pruning takes a key out of the document, if syncs exclude each other.
COROLLARY OnlyPruningRemoves == ASSUME Exclusive PROVE Spec => KeysAreKept
BY SerialSyncsMerge
===============================================================================
