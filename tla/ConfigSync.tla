------------------------------ MODULE ConfigSync ------------------------------
(***************************************************************************)
(* `ecsc sync`: src/src/ecs_contract/sync.py and _sync of cli.py.          *)
(*                                                                         *)
(* A sync reads the value of every vault-sourced key of the contract, then *)
(* reads the service's config secret, merges the values into the document  *)
(* it found and writes the document back whole.  Nothing in the write says *)
(* which version of the document it was made from.                         *)
(*                                                                         *)
(* A document, and what a sync has read, is a function that gives Absent   *)
(* for a key that is not there.  Values are told apart, not looked into.   *)
(***************************************************************************)
CONSTANTS Syncs,      \* runs of `ecsc sync` on one config secret
          Keys,       \* names of vault-sourced keys
          Values,     \* what the vault can hold for a key
          Absent,
          Unusable,   \* the secret holds something that is not a JSON object of strings
          Exclusive   \* the syncs run one at a time, as deploy.yml's concurrency group has it

Documents == [Keys -> Values \cup {Absent}]

ASSUME SyncAssumption == /\ Absent \notin Values
                         /\ Unusable \notin Documents
                         /\ Exclusive \in BOOLEAN

NoKeys == [k \in Keys |-> Absent]
Arguments == [names : SUBSET Keys,  \* the contract's vault-sourced keys
              prune : BOOLEAN,      \* --prune
              dryRun : BOOLEAN]     \* --dry-run

VARIABLES vault,     \* what the external store holds
          document,  \* what the config secret holds
          args,      \* each sync's contract and options
          at,        \* where each sync is
          tried,     \* the keys whose values it has asked the vault for
          read,      \* the values it got
          existing   \* the document it found

syncVars == <<vault, document, args, at, tried, read, existing>>

Running(s) == at[s] \in {"vault", "document", "put"}
Ends == {"nothing", "refused", "current", "dry", "written", "failed", "killed"}

Init == /\ vault \in Documents
        /\ document \in Documents \cup {Unusable}
        /\ args \in [Syncs -> Arguments]
        /\ at = [s \in Syncs |-> "idle"]
        /\ tried = [s \in Syncs |-> {}]
        /\ read = [s \in Syncs |-> NoKeys]
        /\ existing = [s \in Syncs |-> NoKeys]

Move(s, to) == at' = [at EXCEPT ![s] = to]

\* Not the code: a run does not wait for the concurrency group.
StartAtOnce(s) == /\ at[s] = "idle"
                  /\ Move(s, IF args[s].names = {} THEN "nothing" ELSE "vault")
                  /\ UNCHANGED <<vault, document, args, tried, read, existing>>

Start(s) == /\ at[s] = "idle"
            /\ Exclusive => \A t \in Syncs : ~Running(t)
            /\ Move(s, IF args[s].names = {} THEN "nothing" ELSE "vault")
            /\ UNCHANGED <<vault, document, args, tried, read, existing>>

\* One value is asked for.  A read that fails, or of a value that is not there, is a problem to
\* report once every key has been asked for.
ReadValue(s) == /\ at[s] = "vault"
                /\ \E k \in args[s].names \ tried[s] :
                     /\ tried' = [tried EXCEPT ![s] = @ \cup {k}]
                     /\ \E value \in {vault[k], Absent} : read' = [read EXCEPT ![s][k] = value]
                /\ UNCHANGED <<vault, document, args, at, existing>>

\* Not the code: goes on with the values it could read.
ValuesReadPartly(s) == /\ at[s] = "vault"
                       /\ tried[s] = args[s].names
                       /\ Move(s, "document")
                       /\ UNCHANGED <<vault, document, args, tried, read, existing>>

\* All of the values, or none: with one problem nothing is written.
ValuesRead(s) == /\ at[s] = "vault"
                 /\ tried[s] = args[s].names
                 /\ Move(s, IF \E k \in tried[s] : read[s][k] = Absent THEN "refused" ELSE "document")
                 /\ UNCHANGED <<vault, document, args, tried, read, existing>>

\* Not the code: does not look at what the secret holds.
ReadDocumentUnchecked(s) == /\ at[s] = "document"
                            /\ existing' = [existing EXCEPT ![s] = document]
                            /\ Move(s, "put")
                            /\ UNCHANGED <<vault, document, args, tried, read>>

ReadDocument(s) == /\ at[s] = "document"
                   /\ document # Unusable
                   /\ existing' = [existing EXCEPT ![s] = document]
                   /\ Move(s, "put")
                   /\ UNCHANGED <<vault, document, args, tried, read>>

\* The secret cannot be found, read, or used.
RefuseDocument(s) == /\ at[s] = "document"
                     /\ Move(s, "refused")
                     /\ UNCHANGED <<vault, document, args, tried, read, existing>>

\* Not the code: keys outside the contract are not carried over.
ReplacedBy(old, s) == [k \in Keys |-> IF k \in args[s].names THEN read[s][k] ELSE Absent]

\* The contract's keys with the values read, and the other keys as they were unless pruned.
Merged(old, s) == [k \in Keys |-> IF k \in args[s].names THEN read[s][k]
                                  ELSE IF args[s].prune THEN Absent ELSE old[k]]

Put(s) == /\ at[s] = "put"
          /\ ~args[s].dryRun
          /\ Merged(existing[s], s) # existing[s]
          /\ document' = Merged(existing[s], s)
          /\ \E heard \in BOOLEAN : Move(s, IF heard THEN "written" ELSE "failed")
          /\ UNCHANGED <<vault, args, tried, read, existing>>

PutNothing(s) == /\ at[s] = "put"
                 /\ IF Merged(existing[s], s) = existing[s] THEN Move(s, "current")
                    ELSE IF args[s].dryRun THEN Move(s, "dry") ELSE Move(s, "failed")
                 /\ UNCHANGED <<vault, document, args, tried, read, existing>>

\* The job is cancelled, or times out.
Killed(s) == /\ Running(s)
             /\ Move(s, "killed")
             /\ UNCHANGED <<vault, document, args, tried, read, existing>>

\* Somebody rotates a value in the vault.
Rotate == /\ \E k \in Keys, v \in Values : vault' = [vault EXCEPT ![k] = v]
          /\ UNCHANGED <<document, args, at, tried, read, existing>>

Step(s) == \/ ReadValue(s) \/ ValuesRead(s) \/ ReadDocument(s) \/ RefuseDocument(s)
           \/ Put(s) \/ PutNothing(s) \/ Killed(s)

Next == Rotate \/ \E s \in Syncs : Start(s) \/ Step(s)

Spec == Init /\ [][Next]_syncVars

-------------------------------------------------------------------------------
TypeOK == /\ vault \in Documents
          /\ document \in Documents \cup {Unusable}
          /\ args \in [Syncs -> Arguments]
          /\ at \in [Syncs -> {"idle", "vault", "document", "put"} \cup Ends]
          /\ tried \in [Syncs -> SUBSET Keys]
          /\ read \in [Syncs -> Documents]
          /\ existing \in [Syncs -> Documents]

\* Reading, merging and writing the document are three steps (sync.py:63-84), but every change
\* of it is one sync's merge into the document as it is then: no sync writes over what
\* another has written since it read.
MergesAreAtomic ==
  [][document' # document => \E s \in Syncs : at[s] = "put" /\ document' = Merged(document, s)]_syncVars

\* "Keys the contract no longer names are kept by default: a rollback to the previous revision
\* still binds them" (SPEC.md 4.2; sync.py:60-62): a key goes away only by a sync told to prune,
\* whose contract does not name it.
KeysAreKept ==
  [][\A k \in Keys : document # Unusable /\ document[k] # Absent /\ document'[k] = Absent =>
       \E s \in Syncs : at[s] = "put" /\ args[s].prune /\ ~args[s].dryRun /\ k \notin args[s].names]_syncVars

\* "The document is written whole, so it must contain every key bound out of it" (SPEC.md 4.2;
\* cli.py:432-445): from the moment a sync reports that the document is written or current,
\* every key its contract binds is there, whatever failed, was killed or was rotated before
\* or since, unless a later sync is told to prune.
SyncedKeysArePresent ==
  (\A s \in Syncs : ~args[s].prune) =>
    \A s \in Syncs : at[s] \in {"written", "current"} =>
      document # Unusable /\ \A k \in args[s].names : document[k] # Absent
===============================================================================
