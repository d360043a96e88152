--------------------------------- MODULE Smoke ---------------------------------
(***************************************************************************)
(* The live smoke (src/scripts/smoke.py) and the demonstration             *)
(* (src/scripts/demo_vault.py) over LocalVault: they create resources      *)
(* under one name in AWS and in the machine and take them down, whatever   *)
(* happens to them on the way.                                             *)
(*                                                                         *)
(* One process at a time works under the name: first "smoke", "keep"       *)
(* (smoke with --keep) or "demo", then "teardown" (smoke --teardown with   *)
(* the name in ECSC_SMOKE_NAME) as often as the operator likes.  Any call  *)
(* can fail, with or without its effect, and any process can be killed.    *)
(***************************************************************************)
EXTENDS LocalVault, Naturals, Sequences

CONSTANT Scope \* bound: the resources looked at, out of Created

VARIABLES kind,   \* of process
          place,  \* where it is
          step,   \* the next of Created or Deleted
          aws,    \* each resource: "absent", "active", or "leaving": draining, or INACTIVE
          listed, \* what list_task_definitions has given
          failed  \* what a call of this teardown has failed on, for a reason of its own

cloud == <<aws, listed, failed>>
vars == <<local, kind, place, step, cloud>>

\* What a run makes, in this order.
Created == <<"log group", "db secret", "config secret", "pointer", "bundle", "role",
             "role policy", "cluster", "revision 1", "service", "revision 2", "revision 3">>

\* Not the code: the role goes before its policy.
DeletedRoleFirst == <<{"cluster"}, {"db secret"}, {"config secret"}, {"pointer", "bundle"},
                      {"role"}, {"role policy"}, {"log group"}>>

\* What a teardown deletes with one call each, after the service and the task definitions.
Deleted == <<{"cluster"}, {"db secret"}, {"config secret"}, {"pointer", "bundle"},
             {"role policy"}, {"role"}, {"log group"}>>

ASSUME SmokeAssumption == /\ Scope \subseteq {Created[n] : n \in 1..Len(Created)}
                          /\ {"service", "role", "role policy"} \subseteq Scope

\* A step for a resource out of Scope changes nothing but step.
Calls == [n \in 1..Len(Deleted) |-> Deleted[n] \cap Scope]
Revisions == {"revision 1", "revision 2", "revision 3"} \cap Scope

\* A cluster is not deleted with a service in it, nor a role with a policy.
Needs == [r \in Scope |-> IF r = "cluster" THEN {"service"}
                              ELSE IF r = "role" THEN {"role policy"} ELSE {}]

With(state, rs) == [r \in Scope |-> IF r \in rs THEN state ELSE aws[r]]

Init == /\ VaultInit
        /\ kind \in {"smoke", "keep", "demo"}
        /\ place = "start" /\ step = 1
        /\ aws = [r \in Scope |-> "absent"]
        /\ listed = {} /\ failed = {}

-------------------------------------------------------------------------------
\* run, and the main of either script

\* The end of a run, good or bad.  --keep leaves everything.
RunOver == /\ step' = 1
           /\ \/ kind = "smoke" /\ place' = "scale" /\ UNCHANGED at
              \/ kind = "keep" /\ place' = "ended" /\ UNCHANGED at
              \/ kind = "demo" /\ place' = "vault" /\ StopCalled(FALSE)
           /\ UNCHANGED <<machine, container, launching, created, kind, cloud>>

StartVault == /\ place = "start"
              /\ StartStep
              /\ UNCHANGED <<kind, place, step, cloud>>

\* The vault is up, and its synthetic field is written.
VaultUp == /\ place = "start" /\ at = "up" /\ kind # "demo"
           /\ place' = "build"
           /\ UNCHANGED <<local, kind, step, cloud>>

Create == /\ place = "build" /\ step <= Len(Created)
          /\ aws' = With("active", {Created[step]})
          /\ step' = step + 1
          /\ UNCHANGED <<local, kind, place, listed, failed>>

\* The creation is done, but the answer is lost.
CreatesUnanswered == /\ place = "build" /\ step <= Len(Created)
                     /\ aws' = With("active", {Created[step]})
                     /\ step' = Len(Created) + 1
                     /\ UNCHANGED <<local, kind, place, listed, failed>>

\* The run has done its checks, or an exception has ended it.
EndRun == \/ place = "build" /\ RunOver
          \/ place = "start" /\ at \in {"up", "raised"} /\ RunOver

Run == StartVault \/ VaultUp \/ Create \/ CreatesUnanswered \/ EndRun

-------------------------------------------------------------------------------
\* teardown

Go(from, to) == place = from /\ place' = to

\* update_service, which fails without an active service: the rest for the service is skipped.
Scale == /\ Go("scale", IF aws["service"] = "active" THEN "delete" ELSE "list")
         /\ failed' = IF aws["service"] = "leaving" THEN failed \cup {"service"} ELSE failed
         /\ UNCHANGED <<local, kind, step, aws, listed>>

\* Not the code: the service is not waited for.
DeleteServiceUnawaited == /\ Go("delete", "list")
                          /\ aws' = With("leaving", {"service"})
                          /\ UNCHANGED <<local, kind, step, listed, failed>>

DeleteService == /\ Go("delete", "drain")
                 /\ aws' = With("leaving", {"service"})
                 /\ UNCHANGED <<local, kind, step, listed, failed>>

ServiceInactive == /\ aws["service"] = "absent"
                   /\ Go("drain", "list")
                   /\ UNCHANGED <<local, kind, step, cloud>>

\* Not the code: not only the family's task definitions are listed.
ListUnfiltered == /\ place = "list"
                  /\ listed' = {r \in Scope : aws[r] = "active"}
                  /\ place' = IF listed' = {} THEN "calls" ELSE "deregister"
                  /\ UNCHANGED <<local, kind, step, aws, failed>>

\* list_task_definitions gives the ACTIVE ones of the family.
List == /\ place = "list"
        /\ listed' = {r \in Revisions : aws[r] = "active"}
        /\ place' = IF listed' = {} THEN "calls" ELSE "deregister"
        /\ UNCHANGED <<local, kind, step, aws, failed>>

Deregister == /\ place = "deregister"
              /\ \E r \in listed : aws[r] = "active" /\ aws' = With("leaving", {r})
              /\ UNCHANGED <<local, kind, place, step, listed, failed>>

DeleteRevisions == /\ \A r \in listed : aws[r] = "leaving"
                   /\ Go("deregister", "calls")
                   /\ aws' = With("absent", listed)
                   /\ UNCHANGED <<local, kind, step, listed, failed>>

Refused(rs) == \E r \in rs : \E n \in Needs[r] : aws[n] # "absent"

Call == /\ place = "calls" /\ step <= Len(Deleted)
        /\ step' = step + 1
        /\ aws' = IF Refused(Calls[step]) THEN aws ELSE With("absent", Calls[step])
        /\ UNCHANGED <<local, kind, place, listed, failed>>

\* A call fails, or a wait or a list does, and the next resource is tried; of what the call
\* asked for, all, some (delete_task_definitions can answer with failures) or nothing is done.
CallFails ==
  /\ UNCHANGED <<local, kind, listed>>
  /\ \/ /\ place \in {"scale", "delete", "drain"}
        /\ place' = "list" /\ failed' = failed \cup {"service"}
        /\ aws' \in {aws} \cup IF place = "delete" THEN {With("leaving", {"service"})} ELSE {}
        /\ UNCHANGED step
     \/ /\ place \in {"list", "deregister"}
        /\ place' = "calls" /\ failed' = failed \cup Revisions
        /\ \/ UNCHANGED aws
           \/ \E r \in listed : aws[r] = "active" /\ aws' = With("leaving", {r})
           \/ /\ \A r \in listed : aws[r] = "leaving"
              /\ \E rs \in SUBSET listed : aws' = With("absent", rs)
        /\ UNCHANGED step
     \/ /\ place = "calls" /\ step <= Len(Deleted)
        /\ step' = step + 1 /\ failed' = failed \cup Calls[step]
        /\ \E rs \in SUBSET Calls[step] : aws' = IF Refused(rs) THEN aws ELSE With("absent", rs)
        /\ UNCHANGED place

\* Not the code: a teardown in a process of its own removes only what that process has created.
StopVaultUnrecovered == /\ place = "calls" /\ step > Len(Deleted)
                        /\ place' = "vault" /\ StopCalled(FALSE)
                        /\ UNCHANGED <<machine, container, launching, created, kind, step, cloud>>

\* vault_runtime.stop(recover=True)
StopVault == /\ place = "calls" /\ step > Len(Deleted)
             /\ place' = "vault" /\ StopCalled(TRUE)
             /\ UNCHANGED <<machine, container, launching, created, kind, step, cloud>>

Clean == \/ /\ place = "vault" /\ StopStep
            /\ UNCHANGED <<kind, place, step, cloud>>
         \/ /\ at \in {"clean", "unclean"}
            /\ Go("vault", "ended")
            /\ UNCHANGED <<local, kind, step, cloud>>

Teardown == Scale \/ DeleteService \/ ServiceInactive \/ List \/ Deregister \/ DeleteRevisions
            \/ Call \/ StopVault \/ Clean

-------------------------------------------------------------------------------
\* smoke.py --teardown, in a new process; demo_vault.py tells nobody its name.
Later == /\ place \in {"ended", "killed"} /\ kind # "demo"
         /\ kind' = "teardown" /\ place' = "scale" /\ step' = 1
         /\ created' = FALSE /\ at' = "idle"
         /\ listed' = {} /\ failed' = {}
         /\ UNCHANGED <<machine, container, launching, aws>>

Killed == /\ place \notin {"ended", "killed"}
          /\ place' = "killed"
          /\ at' = "idle" /\ created' = FALSE
          /\ InFlight
          /\ UNCHANGED <<machine, kind, step, cloud>>

\* ECS stops the tasks of a deleted service, and then it is INACTIVE.
Drained == /\ aws["service"] = "leaving"
           /\ aws' = With("absent", {"service"})
           /\ UNCHANGED <<local, kind, place, step, listed, failed>>

VaultFails == CommandFails /\ UNCHANGED <<kind, place, step, cloud>>
Machine == (LaunchEnds \/ NameTaken \/ Runtime) /\ UNCHANGED <<kind, place, step, cloud>>

Disturbance == CallFails \/ VaultFails \/ Killed
Process == Run \/ Teardown
Next == Process \/ Disturbance \/ Later \/ Drained \/ Machine

Spec == Init /\ [][Next]_vars

\* A process that is not disturbed goes on, what ECS and the machine have begun comes to an end,
\* and the operator keeps the machine up, and repeats the teardown until calls do not fail any
\* more and it is not killed.  A failure that changes what the process would have changed anyway
\* (a refused stop, a deletion of what is not there) may happen for ever.
Recovery == /\ WF_vars(Process) /\ WF_vars(Drained) /\ WF_vars(Later)
            /\ WF_vars(RuntimeUp /\ UNCHANGED <<kind, place, step, cloud>>)
            /\ WF_vars(LaunchEnds /\ UNCHANGED <<kind, place, step, cloud>>)
            /\ <>[][Disturbance => Process]_vars

FairSpec == Spec /\ Recovery

-------------------------------------------------------------------------------
TypeOK == /\ VaultTypeOK
          /\ kind \in {"smoke", "keep", "demo", "teardown"}
          /\ place \in {"start", "build", "scale", "delete", "drain", "list", "deregister", "calls",
                        "vault", "ended", "killed"}
          /\ step \in 1..Len(Created) + 1
          /\ aws \in [Scope -> {"absent", "active", "leaving"}]
          /\ \A r \in Scope \ (Revisions \cup {"service"}) : aws[r] # "leaving"
          /\ listed \subseteq Revisions
          /\ failed \subseteq Scope

\* "Creates resources named ecsc-smoke-<run> in eu-west-1 and deletes them at the end" (smoke.py):
\* wherever the run was aborted, what a finished teardown leaves are resources on which, or on
\* what they need to go first, one of its own calls has failed; INACTIVE task definitions apart.
TeardownSuffices ==
  place = "ended" /\ kind \in {"smoke", "teardown"} =>
    \A r \in Scope : \/ aws[r] = "absent"
                     \/ r \in Revisions /\ aws[r] = "leaving"
                     \/ ({r} \cup Needs[r]) \cap failed # {}

\* When stop returns without an error, there is no container of the process: also after a launch
\* that failed half-way, was refused, or followed a kept run; test_local_vault.py,
\* test_partial_launch_is_cleaned_without_token_in_arguments.
CleanMeansGone == [][at # "clean" /\ at' = "clean" => container' # "own"]_vars

\* "Removed by its exact run name and ownership labels" (docs/demo.md): nothing that a process
\* or the operator does touches a container or a machine of somebody else.
OnlyOwnIsTouched == [][/\ container = "foreign" => container' = "foreign"
                       /\ vm = "foreign" => vm' = "foreign"]_vars

\* However runs and teardowns have been aborted, launches have outlived them and the machine was
\* stopped over a container: repeating smoke.py --teardown removes everything in the end, apart
\* from INACTIVE task definitions.
EverythingGoes ==
  <>[](kind = "demo" \/ /\ container # "own" /\ aws["service"] = "absent"
                        /\ \A r \in Scope : aws[r] # "active")

\* "With --keep they stay; remove them later with ECSC_SMOKE_NAME=ecsc-smoke-<run> and --teardown"
\* (smoke.py:9-11): a teardown none of whose calls has failed leaves nothing.
NothingIsForgotten ==
  place = "ended" /\ kind = "teardown" /\ at = "clean" /\ failed = {} =>
    \A r \in Scope : aws[r] = "absent"
===============================================================================
