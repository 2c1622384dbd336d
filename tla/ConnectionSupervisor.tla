------------------------ MODULE ConnectionSupervisor ------------------------
(***************************************************************************)
(* What the connection half of the firmware promises, without threads,     *)
(* semaphores or events: the device starts, may then try the hub at most   *)
(* MaxRetry times in a row, is online or offline, and restarts whenever    *)
(* it gives up.  A restart under way is always completed, and so is        *)
(* starting.                                                               *)
(***************************************************************************)
EXTENDS Naturals

CONSTANT MaxRetry    \* MAX_CONNECTION_RETRY, azureManager.c

VARIABLES phase, attempts

vars == <<phase, attempts>>

Phases == {"starting", "offline", "online", "restarting"}

TypeOK == /\ phase \in Phases
          /\ attempts \in 0..MaxRetry

Init == phase = "starting" /\ attempts = 0

Started == /\ phase = "starting"
           /\ phase' = "offline"
           /\ attempts' = 0

Attempt == /\ phase = "offline"
           /\ attempts < MaxRetry
           /\ attempts' = attempts + 1
           /\ UNCHANGED phase

Up == /\ phase = "offline"
      /\ phase' = "online"
      /\ attempts' = 0

Down == /\ phase = "online"
        /\ phase' = "offline"
        /\ UNCHANGED attempts

GiveUp == /\ phase # "restarting"
          /\ phase' = "restarting"
          /\ attempts' = 0

Restart == /\ phase = "restarting"
           /\ phase' = "starting"
           /\ attempts' = 0

Next == Started \/ Attempt \/ Up \/ Down \/ GiveUp \/ Restart

SafetySpec == Init /\ [][Next]_vars

\* A device that restarts starts, and no start lasts for good.
Liveness == /\ phase = "restarting" ~> phase = "starting"
            /\ phase = "starting" ~> phase # "starting"

Spec == SafetySpec /\ Liveness
=============================================================================
