------------------------------ MODULE LocalVault ------------------------------
(***************************************************************************)
(* A Vault container of one's own, in a virtual machine of one's own:      *)
(* LocalVault, runtime_up and runtime_stop of src/scripts/local_vault.py.  *)
(*                                                                         *)
(* A process calls start and, in the end, stop; each command that they run *)
(* is a step.  A command can fail, or time out while what it asked for is  *)
(* done, is not done, or is done later: the process in the machine does    *)
(* not end with the client.  One process at a time works under a name; the *)
(* name is random, so what others call by it they have called by it before *)
(* the launch.                                                             *)
(***************************************************************************)

VARIABLES vm,        \* "absent", "stopped", "running", or "foreign": not of this project
          stopping,  \* runtime_stop has seen no container and is about to stop the machine
          container, \* of the process's name: "none", "own" by its labels, or "foreign"
          launching, \* a launch goes on in the machine although nobody waits for it
          created,   \* LocalVault.created
          at         \* where start or stop is, or how it ended

machine == <<vm, stopping>>
local == <<vm, stopping, container, launching, created, at>>

Starting == {"check", "launch", "poll"}
Stopping == {"verify", "inspect", "remove", "confirm"}

VaultInit == /\ vm \in {"absent", "stopped", "running", "foreign"}
             /\ container \in IF vm \in {"stopped", "running"} THEN {"none", "foreign"} ELSE {"none"}
             /\ stopping = FALSE /\ launching = FALSE /\ created = FALSE
             /\ at = "check"

Goto(from, to) == at = from /\ at' = to
Usable == vm = "running"

-------------------------------------------------------------------------------
\* start

\* The port is taken, the machine is not there or not ours, or the container is there already.
StartRefuses == /\ Goto("check", "raised")
                /\ UNCHANGED <<machine, container, launching, created>>

StartGoesOn == /\ Usable /\ container = "none"
               /\ Goto("check", "launch")
               /\ created' = TRUE
               /\ UNCHANGED <<machine, container, launching>>

Launched == /\ Usable /\ container = "none"
            /\ Goto("launch", "poll")
            /\ container' = "own"
            /\ UNCHANGED <<machine, launching, created>>

Ready == /\ Usable /\ container = "own"
         /\ Goto("poll", "up")
         /\ UNCHANGED <<machine, container, launching, created>>

\* The health endpoint does not answer in time.
NotReady == /\ Goto("poll", "raised")
            /\ UNCHANGED <<machine, container, launching, created>>

StartStep == StartRefuses \/ StartGoesOn \/ Launched \/ Ready \/ NotReady

-------------------------------------------------------------------------------
\* stop(recover)

StopCalled(recover) == at' = IF created \/ recover THEN "verify" ELSE "clean"

StopLooks == /\ Usable /\ at = "verify"
             /\ IF container = "none" THEN at' = "clean" /\ created' = FALSE
                                      ELSE at' = "inspect" /\ UNCHANGED created
             /\ UNCHANGED <<machine, container, launching>>

\* Not the code: the container's name is trusted, its labels are not read.
StopInspectsName == /\ Usable /\ container # "none"
                    /\ Goto("inspect", "remove")
                    /\ UNCHANGED <<machine, container, launching, created>>

StopInspects == /\ Usable /\ container = "own"
                /\ Goto("inspect", "remove")
                /\ UNCHANGED <<machine, container, launching, created>>

StopRemoves == /\ Usable /\ container # "none"
               /\ Goto("remove", "confirm")
               /\ container' = "none"
               /\ UNCHANGED <<machine, launching, created>>

StopConfirms == /\ Usable /\ container = "none"
                /\ Goto("confirm", "clean")
                /\ created' = FALSE
                /\ UNCHANGED <<machine, container, launching>>

\* The machine is not there or not ours, the labels are not ours, or the container is not there
\* any more or still there.
StopRefuses == /\ at \in Stopping
               /\ \/ ~Usable
                  \/ at = "inspect" /\ container # "own"
                  \/ at = "remove" /\ container = "none"
                  \/ at = "confirm" /\ container # "none"
               /\ at' = "unclean"
               /\ UNCHANGED <<machine, container, launching, created>>

StopStep == StopLooks \/ StopInspects \/ StopRemoves \/ StopConfirms \/ StopRefuses

-------------------------------------------------------------------------------
\* What becomes of a command that nobody waits for any more.
InFlight == \/ UNCHANGED <<container, launching>>
            \/ /\ at = "launch" /\ Usable /\ container = "none"
               /\ \/ container' = "own" /\ UNCHANGED launching
                  \/ launching' = TRUE /\ UNCHANGED container
            \/ /\ at = "remove" /\ Usable
               /\ container' = "none" /\ UNCHANGED launching

\* Not the code: a launch that failed is taken for one that created nothing.
CommandFailsUnmarked == /\ at \in Starting \cup Stopping
                        /\ at' = IF at \in Starting THEN "raised" ELSE "unclean"
                        /\ InFlight
                        /\ created' = (created /\ at # "launch")
                        /\ UNCHANGED machine

\* limactl or nerdctl fails or does not answer in 120 seconds.
CommandFails == /\ at \in Starting \cup Stopping
                /\ at' = IF at \in Starting THEN "raised" ELSE "unclean"
                /\ InFlight
                /\ UNCHANGED <<machine, created>>

\* The launch was pulling the image, and now it creates the container, or fails.
LaunchEnds == /\ launching
              /\ launching' = FALSE
              /\ container' \in IF container = "none" THEN {"none", "own"} ELSE {container}
              /\ UNCHANGED <<machine, created, at>>

\* Somebody else's container gets the name.
NameTaken == /\ Usable /\ container = "none" /\ at \in {"check", "launch"}
             /\ container' = "foreign"
             /\ UNCHANGED <<machine, launching, created, at>>

\* The operator runs local_vault.py up, which refuses a foreign machine, or stop, which looks
\* for containers and then stops the machine; containers stay in a stopped machine.
RuntimeUp == /\ vm \in {"absent", "stopped"}
             /\ vm' = "running"
             /\ UNCHANGED <<stopping, container, launching, created, at>>

RuntimeStopLooks == /\ Usable /\ ~stopping /\ container = "none"
                    /\ stopping' = TRUE
                    /\ UNCHANGED <<vm, container, launching, created, at>>

RuntimeStops == /\ stopping
                /\ stopping' = FALSE
                /\ \/ vm' = "stopped" /\ launching' = FALSE
                   \/ UNCHANGED <<vm, launching>>
                /\ UNCHANGED <<container, created, at>>

Runtime == RuntimeUp \/ RuntimeStopLooks \/ RuntimeStops

VaultTypeOK == /\ vm \in {"absent", "stopped", "running", "foreign"}
               /\ container \in {"none", "own", "foreign"}
               /\ stopping \in BOOLEAN /\ launching \in BOOLEAN /\ created \in BOOLEAN
               /\ at \in Starting \cup Stopping \cup {"idle", "up", "raised", "clean", "unclean"}
===============================================================================
