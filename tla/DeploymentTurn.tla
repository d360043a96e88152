---------------------------- MODULE DeploymentTurn ----------------------------
(***************************************************************************)
(* What serialized deployment promises, with no lock in sight: the service *)
(* is changed in turns.  A turn starts from the live task definition       *)
(* revision; one that applies a saved plan starts only if the live         *)
(* revision is the one the plan was made from.  Only the job whose turn it *)
(* is changes the live revision, and a turn ends when nothing that the job *)
(* started can change it any more.                                         *)
(*                                                                         *)
(* docs/serialization.md, "One cooperative writer boundary", says this in  *)
(* words; Serialization.tla is the code, and implements it.                *)
(***************************************************************************)
CONSTANTS Jobs,       \* deployment jobs, application and infrastructure alike
          Revisions,  \* task definition revisions of one service
          None

VARIABLES live,  \* the revision the service runs
          turn,  \* the job whose turn it is, or None
          plan,  \* the revision each job's saved plan was made from, or None
          base   \* the revision each job's turn started from, or None

turnVars == <<live, turn, plan, base>>

Init == /\ live \in Revisions
        /\ turn = None
        /\ plan = [j \in Jobs |-> None]
        /\ base = [j \in Jobs |-> None]

\* A plan is made from the revision that is live at that time.
Plan(j) == /\ plan[j] = None
           /\ plan' = [plan EXCEPT ![j] = live]
           /\ UNCHANGED <<live, turn, base>>

\* A job looks at the live revision, whether or not it then takes a turn.
Look(j) == /\ base' = [base EXCEPT ![j] = live]
           /\ UNCHANGED <<live, turn, plan>>

Begin(j) == /\ turn = None
            /\ plan[j] \in {None, live}
            /\ turn' = j
            /\ base' = [base EXCEPT ![j] = live]
            /\ UNCHANGED <<live, plan>>

Change(j) == /\ turn = j
             /\ live' \in Revisions
             /\ UNCHANGED <<turn, plan, base>>

\* The last writer of a turn may change the service as it ends.
Finish(j) == /\ turn = j
             /\ turn' = None
             /\ live' \in Revisions
             /\ UNCHANGED <<plan, base>>

Next == \E j \in Jobs : Plan(j) \/ Look(j) \/ Begin(j) \/ Change(j) \/ Finish(j)

Spec == Init /\ [][Next]_turnVars
===============================================================================
