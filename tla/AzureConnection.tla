-------------------------- MODULE AzureConnection --------------------------
(***************************************************************************)
(* Bringing the PAM8053 online and keeping it there: setup() and the       *)
(* connection branch of main()'s loop (main.c), the layer-4 connection     *)
(* manager (l4ConnectionManager.c), the Azure manager (azureManager.c) and *)
(* the two reboot paths (deviceReboot.c).                                  *)
(*                                                                         *)
(* Threads: main (variable main is its program counter); the net_mgmt      *)
(* thread (net), which runs the L4 callbacks; the DPS thread (dps); the    *)
(* MQTT thread, which raises hubEvent and runs azure_event_handler on it;  *)
(* the application work queue (method) and the system work queue           *)
(* (rebootWork).  A restart clears everything but image and staged, which  *)
(* live in flash.  confirmError observes: nothing in the code reads it.    *)
(***************************************************************************)
EXTENDS Naturals

CONSTANTS MaxRetry,     \* MAX_CONNECTION_RETRY
          HubRejects    \* may azure_iot_hub_connect refuse every call of a boot
                        \* before it raises CONNECTING?  A subset of BOOLEAN.

ASSUME MaxRetryIsNat == MaxRetry \in Nat
ASSUME HubRejectsIsSetOfBool == HubRejects \subseteq BOOLEAN /\ HubRejects # {}

VARIABLES
    main,                 \* where the main thread is
    net,                  \* where the net_mgmt thread is
    l4Status,             \* L4ConnectionManagerStatusGlobal
    networkConnectedSem,  \* network_connected_sem, K_SEM_DEFINE(.., 0, 1)
    dps,                  \* the provisioning service's answer
    dpsDoneSem,           \* dps_done_sem
    dpsWasSuccessful,     \* dps_was_successful
    hub,                  \* state of the azure_iot_hub library
    hubEvent,             \* event whose handler the MQTT thread must run next
    hubRejects,           \* this boot's choice from HubRejects
    azureConnected,       \* the flag main() reads
    connectionRetires,    \* connectionRetires, azureManager.c
    method,               \* method_data.name while its work item is queued
    rebootWork,           \* reboot_work
    image,                \* is the running image confirmed to MCUboot?
    confirmError,         \* ... or was it not because the write of it failed?
    staged                \* is a downloaded image marked for the next boot?

netVars == <<net, l4Status, networkConnectedSem>>
dpsVars == <<dps, dpsDoneSem, dpsWasSuccessful>>
hubVars == <<hub, hubEvent, hubRejects>>
mgrVars == <<azureConnected, connectionRetires, method, rebootWork>>
imageVars == <<image, confirmError>>
flash   == <<imageVars, staged>>
vars    == <<main, netVars, dpsVars, hubVars, mgrVars, flash>>

MainSteps == {"provision", "netConnect", "netWait", "dps", "dpsWait",
              "hubInit", "loop", "connect", "connecting", "reboot"}
MethodNames == {"Reboot", "OtherMethod"}
HubEvents == {"none", "CONNECTED", "CONNECTION_FAILED", "DISCONNECTED",
              "READY", "FOTA_DONE"} \union MethodNames
HubUp == {"connected", "ready"}

TypeOK ==
    /\ main \in MainSteps
    /\ net \in {"off", "idle", "callback", "reboot"}
    /\ l4Status \in {"connected", "disconnected"}
    /\ networkConnectedSem \in {0, 1}
    /\ dps \in {"idle", "registering", "giving", "done", "already"}
    /\ dpsDoneSem \in {0, 1}
    /\ dpsWasSuccessful \in BOOLEAN
    /\ hub \in {"disconnected", "connecting"} \union HubUp
    /\ hubEvent \in HubEvents
    /\ hubRejects \in BOOLEAN
    /\ azureConnected \in BOOLEAN
    /\ connectionRetires \in Nat
    /\ method \in MethodNames \union {"none"}
    /\ rebootWork \in {"idle", "scheduled", "running"}
    /\ image \in {"confirmed", "trial"}
    /\ confirmError \in BOOLEAN
    /\ staged \in BOOLEAN

-----------------------------------------------------------------------------
(* Boot.  L4ConnectionManagerStatusGlobal is zero-initialised, and zero is
   L4_CNCT_MNG_NETWORK_CONNECTED. *)
Init ==
    /\ main = "provision"
    /\ net = "off"
    /\ l4Status = "connected"
    /\ networkConnectedSem = 0
    /\ dps = "idle"
    /\ dpsDoneSem = 0
    /\ dpsWasSuccessful = FALSE
    /\ hub = "disconnected"
    /\ hubEvent = "none"
    /\ hubRejects \in HubRejects
    /\ azureConnected = FALSE
    /\ connectionRetires = 0
    /\ method = "none"
    /\ rebootWork = "idle"
    /\ image = "confirmed"
    /\ confirmError = FALSE
    /\ staged = FALSE

(* DeviceRebootError and DeviceRebootNormal block the calling thread (30 s,
   10 s) before sys_reboot; every other thread keeps running meanwhile. *)
Restarting == main = "reboot" \/ net = "reboot" \/ rebootWork = "running"

(* MCUboot runs a staged image on trial, also over one on trial, and goes back
   from a trial image that nobody confirmed. *)
Reboot ==
    /\ Restarting
    /\ main' = "provision"
    /\ net' = "off"
    /\ l4Status' = "connected"
    /\ networkConnectedSem' = 0
    /\ dps' = "idle"
    /\ dpsDoneSem' = 0
    /\ dpsWasSuccessful' = FALSE
    /\ hub' = "disconnected"
    /\ hubEvent' = "none"
    /\ hubRejects' \in HubRejects
    /\ azureConnected' = FALSE
    /\ connectionRetires' = 0
    /\ method' = "none"
    /\ rebootWork' = "idle"
    /\ image' = IF staged THEN "trial" ELSE "confirmed"
    /\ confirmError' = FALSE
    /\ staged' = FALSE

-----------------------------------------------------------------------------
(* The main thread: setup().  A failing step ends in DeviceRebootError.  The
   L4 callbacks are registered once provisioning is over. *)
Provision ==
    /\ main = "provision"
    /\ \/ main' = "netConnect" /\ net' = "idle"
       \/ main' = "reboot" /\ net' = net
    /\ UNCHANGED <<l4Status, networkConnectedSem, dpsVars, hubVars, mgrVars, flash>>

NetworkConnect ==
    /\ main = "netConnect"
    /\ main' \in {"netWait", "reboot"}
    /\ UNCHANGED <<netVars, dpsVars, hubVars, mgrVars, flash>>

NetworkConnected ==
    /\ main = "netWait"
    /\ networkConnectedSem = 1
    /\ networkConnectedSem' = 0
    /\ main' = "dps"
    /\ UNCHANGED <<net, l4Status, dpsVars, hubVars, mgrVars, flash>>

NetworkTimeout ==
    /\ main = "netWait"
    /\ networkConnectedSem = 0
    /\ main' = "reboot"
    /\ UNCHANGED <<netVars, dpsVars, hubVars, mgrVars, flash>>

DpsStart ==
    /\ main = "dps"
    /\ \/ dps' = "registering" /\ main' = "dpsWait"
       \/ dps' = "already" /\ main' = "hubInit"
       \/ dps' = dps /\ main' = "reboot"
    /\ UNCHANGED <<netVars, dpsDoneSem, dpsWasSuccessful, hubVars, mgrVars, flash>>

DpsDoneVerdictIgnored ==
    /\ main = "dpsWait"
    /\ dpsDoneSem = 1
    /\ dpsDoneSem' = 0
    /\ main' = "hubInit"
    /\ UNCHANGED <<netVars, dps, dpsWasSuccessful, hubVars, mgrVars, flash>>

DpsDone ==
    /\ main = "dpsWait"
    /\ dpsDoneSem = 1
    /\ dpsDoneSem' = 0
    /\ main' = IF dpsWasSuccessful THEN "hubInit" ELSE "reboot"
    /\ UNCHANGED <<netVars, dps, dpsWasSuccessful, hubVars, mgrVars, flash>>

(* The hostname and device id getters and azure_iot_hub_init. *)
HubInit ==
    /\ main = "hubInit"
    /\ main' \in {"loop", "reboot"}
    /\ UNCHANGED <<netVars, dpsVars, hubVars, mgrVars, flash>>

(* The DPS thread: dps_handler records the verdict, then gives. *)
DpsReply ==
    /\ dps = "registering"
    /\ dps' = "giving"
    /\ dpsWasSuccessful' \in BOOLEAN
    /\ UNCHANGED <<main, netVars, dpsDoneSem, hubVars, mgrVars, flash>>

DpsGiveOnlyOnSuccess ==
    /\ dps = "giving"
    /\ dps' = "done"
    /\ dpsDoneSem' = IF dpsWasSuccessful THEN 1 ELSE dpsDoneSem
    /\ UNCHANGED <<main, netVars, dpsWasSuccessful, hubVars, mgrVars, flash>>

DpsGive ==
    /\ dps = "giving"
    /\ dps' = "done"
    /\ dpsDoneSem' = 1
    /\ UNCHANGED <<main, netVars, dpsWasSuccessful, hubVars, mgrVars, flash>>

-----------------------------------------------------------------------------
(* The main thread: the loop of main() and AzureManagerConnect. *)
EnterConnect ==
    /\ main = "loop"
    /\ ~azureConnected
    /\ l4Status = "connected"
    /\ main' = "connect"
    /\ UNCHANGED <<netVars, dpsVars, hubVars, mgrVars, flash>>

(* azure_iot_hub_connect returns -EALREADY.  While the library is still
   connecting, or hubRejects, the call returns another error and the loop of
   AzureManagerConnect goes round without changing anything. *)
AlreadyConnected ==
    /\ main = "connect"
    /\ hub \in HubUp
    /\ main' = "loop"
    /\ UNCHANGED <<netVars, dpsVars, hubVars, mgrVars, flash>>

ConnectBeginUncounted ==
    /\ main = "connect"
    /\ hub = "disconnected"
    /\ ~hubRejects
    /\ main' = "connecting"
    /\ UNCHANGED <<netVars, dpsVars, hubVars, mgrVars, flash>>

ConnectBeginOneTooMany ==
    /\ main = "connect"
    /\ hub = "disconnected"
    /\ ~hubRejects
    /\ connectionRetires' = connectionRetires + 1
    /\ main' = IF connectionRetires > MaxRetry THEN "reboot" ELSE "connecting"
    /\ UNCHANGED <<netVars, dpsVars, hubVars, azureConnected, method, rebootWork, flash>>

(* The library raises CONNECTING in the caller's thread: the handler counts
   the attempt and reboots when there were too many. *)
ConnectBegin ==
    /\ main = "connect"
    /\ hub = "disconnected"
    /\ ~hubRejects
    /\ connectionRetires' = connectionRetires + 1
    /\ main' = IF connectionRetires' > MaxRetry THEN "reboot" ELSE "connecting"
    /\ UNCHANGED <<netVars, dpsVars, hubVars, azureConnected, method, rebootWork, flash>>

ConnectOk ==
    /\ main = "connecting"
    /\ hub' = "connecting"
    /\ main' = "loop"
    /\ UNCHANGED <<netVars, dpsVars, hubEvent, hubRejects, mgrVars, flash>>

ConnectError ==
    /\ main = "connecting"
    /\ main' = "connect"
    /\ UNCHANGED <<netVars, dpsVars, hubVars, mgrVars, flash>>

-----------------------------------------------------------------------------
L4ConnectedUnlimited ==
    /\ net = "idle"
    /\ networkConnectedSem' = networkConnectedSem + 1
    /\ net' = "callback"
    /\ UNCHANGED <<main, l4Status, dpsVars, hubVars, mgrVars, flash>>

(* The net_mgmt thread.  on_net_event_l4_connected gives the semaphore
   before it runs L4ConnectionManagerCb. *)
L4Connected ==
    /\ net = "idle"
    /\ networkConnectedSem' = 1
    /\ net' = "callback"
    /\ UNCHANGED <<main, l4Status, dpsVars, hubVars, mgrVars, flash>>

L4ConnectedCallback ==
    /\ net = "callback"
    /\ l4Status' = "connected"
    /\ net' = "idle"
    /\ UNCHANGED <<main, networkConnectedSem, dpsVars, hubVars, mgrVars, flash>>

L4Disconnected ==
    /\ net = "idle"
    /\ l4Status' = "disconnected"
    /\ UNCHANGED <<main, net, networkConnectedSem, dpsVars, hubVars, mgrVars, flash>>

L4FatalError ==
    /\ net = "idle"
    /\ net' = "reboot"
    /\ UNCHANGED <<main, l4Status, networkConnectedSem, dpsVars, hubVars, mgrVars, flash>>

-----------------------------------------------------------------------------
HubThreadOutranksWork == hubEvent = "none"

(* The MQTT thread: the library changes its state, then calls
   azure_event_handler; it does nothing else until the handler is back. *)
HubThreadFree == hubEvent = "none" /\ method = "none"

Raise(event) == HubThreadFree /\ hubEvent' = event

Connack ==
    /\ hub = "connecting"
    /\ hub' = "connected"
    /\ Raise("CONNECTED")
    /\ UNCHANGED <<main, netVars, dpsVars, hubRejects, mgrVars, flash>>

ConnectFails ==
    /\ hub = "connecting"
    /\ hub' = "disconnected"
    /\ Raise("CONNECTION_FAILED")
    /\ UNCHANGED <<main, netVars, dpsVars, hubRejects, mgrVars, flash>>

Ready ==
    /\ hub = "connected"
    /\ hub' = "ready"
    /\ Raise("READY")
    /\ UNCHANGED <<main, netVars, dpsVars, hubRejects, mgrVars, flash>>

Lost ==
    /\ hub \in HubUp
    /\ hub' = "disconnected"
    /\ Raise("DISCONNECTED")
    /\ UNCHANGED <<main, netVars, dpsVars, hubRejects, mgrVars, flash>>

FotaDone ==
    /\ hub = "ready"
    /\ staged' = TRUE
    /\ Raise("FOTA_DONE")
    /\ UNCHANGED <<main, netVars, dpsVars, hub, hubRejects, mgrVars, imageVars>>

DirectMethod ==
    /\ hub = "ready"
    /\ \E name \in MethodNames : Raise(name)
    /\ UNCHANGED <<main, netVars, dpsVars, hub, hubRejects, mgrVars, flash>>

-----------------------------------------------------------------------------
(* azure_event_handler, one action per case that does something. *)
Handle(event) ==
    /\ hubEvent = event
    /\ hubEvent' = "none"
    /\ UNCHANGED <<main, netVars, dpsVars, hub, hubRejects, staged>>

OnConnectedKeepsCount ==
    /\ Handle("CONNECTED")
    /\ azureConnected' = TRUE
    /\ UNCHANGED <<connectionRetires, method, rebootWork, imageVars>>

OnConnected ==
    /\ Handle("CONNECTED")
    /\ connectionRetires' = 0
    /\ azureConnected' = TRUE
    /\ UNCHANGED <<method, rebootWork, imageVars>>

OnConnectionFailedForgets ==
    /\ Handle("CONNECTION_FAILED")
    /\ connectionRetires' = 0
    /\ UNCHANGED <<azureConnected, method, rebootWork, imageVars>>

OnConnectionFailed ==
    /\ Handle("CONNECTION_FAILED")
    /\ UNCHANGED <<mgrVars, imageVars>>

OnDisconnectedSilent ==
    /\ Handle("DISCONNECTED")
    /\ UNCHANGED <<mgrVars, imageVars>>

OnDisconnected ==
    /\ Handle("DISCONNECTED")
    /\ azureConnected' = FALSE
    /\ UNCHANGED <<connectionRetires, method, rebootWork, imageVars>>

OnReadyUnconfirmed ==
    /\ Handle("READY")
    /\ UNCHANGED <<mgrVars, imageVars>>

(* boot_write_img_confirmed writes the flash unless the image is confirmed
   already.  The write may fail; the handler does not look at the result. *)
OnReady ==
    /\ Handle("READY")
    /\ image' \in {image, "confirmed"}
    /\ confirmError' = (image' = "trial")
    /\ UNCHANGED mgrVars

(* k_work_schedule leaves a work item that is already scheduled alone. *)
ScheduleReboot == rebootWork' = IF rebootWork = "idle" THEN "scheduled" ELSE rebootWork

OnFotaDoneWaits ==
    /\ Handle("FOTA_DONE")
    /\ UNCHANGED <<mgrVars, imageVars>>

OnFotaDone ==
    /\ Handle("FOTA_DONE")
    /\ ScheduleReboot
    /\ UNCHANGED <<azureConnected, connectionRetires, method, imageVars>>

OnDirectMethod ==
    /\ hubEvent \in MethodNames
    /\ Handle(hubEvent)
    /\ method' = hubEvent
    /\ UNCHANGED <<azureConnected, connectionRetires, rebootWork, imageVars>>

-----------------------------------------------------------------------------
(* direct_method_handler.  The application work queue outranks the MQTT
   thread, which therefore raises nothing while the item is queued. *)
DirectMethodHandlerIgnores ==
    /\ method # "none"
    /\ method' = "none"
    /\ UNCHANGED <<main, netVars, dpsVars, hubVars, azureConnected,
                   connectionRetires, rebootWork, flash>>

DirectMethodHandler ==
    /\ method # "none"
    /\ method' = "none"
    /\ IF method = "Reboot" THEN ScheduleReboot ELSE UNCHANGED rebootWork
    /\ UNCHANGED <<main, netVars, dpsVars, hubVars, azureConnected,
                   connectionRetires, flash>>

(* reboot_work_fn starts when its delay is over. *)
RebootWork ==
    /\ rebootWork = "scheduled"
    /\ rebootWork' = "running"
    /\ UNCHANGED <<main, netVars, dpsVars, hubVars, azureConnected,
                   connectionRetires, method, flash>>

-----------------------------------------------------------------------------
MainThread ==
    \/ Provision \/ NetworkConnect \/ NetworkConnected \/ NetworkTimeout
    \/ DpsStart \/ DpsDone \/ HubInit
    \/ EnterConnect \/ AlreadyConnected
    \/ ConnectBegin \/ ConnectOk \/ ConnectError

DpsThread == DpsReply \/ DpsGive

NetThread == L4Connected \/ L4ConnectedCallback \/ L4Disconnected \/ L4FatalError

Hub == Connack \/ ConnectFails \/ Ready \/ Lost \/ FotaDone \/ DirectMethod

Handlers == \/ OnConnected \/ OnConnectionFailed \/ OnDisconnected
            \/ OnReady \/ OnFotaDone \/ OnDirectMethod

WorkQueues == DirectMethodHandler \/ RebootWork

Next == \/ MainThread \/ DpsThread \/ NetThread
        \/ Hub \/ Handlers \/ WorkQueues \/ Reboot

(* Ready threads run, delays and timeouts end, DPS has a timeout of its own
   (CONFIG_AZURE_IOT_HUB_DPS_TIMEOUT_SEC) and a TCP/TLS connection attempt
   succeeds or fails.  Nothing obliges the network, the hub or the cloud to do
   anything else. *)
Fairness ==
    /\ WF_vars(MainThread)
    /\ WF_vars(DpsThread)
    /\ WF_vars(L4ConnectedCallback)
    /\ WF_vars(Connack \/ ConnectFails)
    /\ WF_vars(Handlers)
    /\ WF_vars(DirectMethodHandler)
    /\ WF_vars(RebootWork)
    /\ WF_vars(Reboot)

Spec == Init /\ [][Next]_vars /\ Fairness

-----------------------------------------------------------------------------
(* Properties *)

\* A device never makes more than MaxRetry consecutive attempts: the attempt
\* that exceeds the budget has already put the main thread into
\* DeviceRebootError (azureManager.c, CONNECTING).
RetryBudget ==
    /\ connectionRetires <= MaxRetry + 1
    /\ connectionRetires > MaxRetry => main = "reboot"

\* The flag main() decides by agrees with the hub library up to the one event
\* still to be handled, in both directions: a stale TRUE would keep the device
\* off line for good, a stale FALSE would make main() connect twice.
FlagFollowsHub ==
    /\ azureConnected => hub \in HubUp \/ hubEvent = "DISCONNECTED"
    /\ hub \in HubUp => azureConnected \/ hubEvent = "CONNECTED"

\* While the link is up and its CONNECTED event has been handled, the whole
\* retry budget is available again for the next outage.
BudgetRestored ==
    hub \in HubUp /\ hubEvent # "CONNECTED" => connectionRetires = 0

\* main() talks to the hub only if this boot's registration succeeded or the
\* device was assigned before, whatever the DPS thread and main interleave to.
HubNeedsAssignment ==
    main \in {"hubInit", "loop", "connect", "connecting"}
        => dpsWasSuccessful \/ dps = "already"

\* The slot an update is written to holds the only image that one on trial could go
\* back to.  So it is staged only over a confirmed image, or over one whose
\* confirmation READY tried and the flash refused: the error that
\* azure_event_handler ignores is the only way to lose the rollback.
RollbackSafe == staged => image = "confirmed" \/ confirmError

\* A restart that an update or the cloud's Reboot method asks for is passed from
\* the MQTT thread over the two work queues to sys_reboot without being lost:
\* no later event, second method or connection loss takes it back.
RestartDue ==
    \/ hubEvent \in {"FOTA_DONE", "Reboot"}
    \/ method = "Reboot"
    \/ rebootWork # "idle"

RestartKept == [][RestartDue => RestartDue' \/ Reboot]_vars

\* setup() waits for the DPS thread only while that has still to give
\* dps_done_sem or has just given it, also when the registration failed.
DpsWaitServed == main = "dpsWait" => dps \in {"registering", "giving"} \/ dpsDoneSem = 1

(* Whatever is pending, the thread it is up to can take its next step.  The main
   thread waits for dps_done_sem, for the loss of a connection, for the network
   and, in AzureManagerConnect, for the end of the attempt before. *)
SetupReady == \/ main \in {"provision", "netConnect", "netWait", "dps", "hubInit"}
              \/ main = "dpsWait" /\ dpsDoneSem = 1

LoopReady == \/ main = "loop" /\ ~azureConnected /\ l4Status = "connected"
             \/ main = "connect" /\ (hub \in HubUp \/ (hub = "disconnected" /\ ~hubRejects))
             \/ main = "connecting"

StepsEnabled ==
    /\ SetupReady \/ LoopReady => ENABLED <<MainThread>>_vars
    /\ dps \in {"registering", "giving"} => ENABLED <<DpsThread>>_vars
    /\ hub = "connecting" /\ HubThreadFree => ENABLED <<Connack \/ ConnectFails>>_vars
    /\ hubEvent # "none" => ENABLED <<Handlers>>_vars
    /\ method # "none" => ENABLED <<DirectMethodHandler>>_vars
    /\ rebootWork = "scheduled" => ENABLED <<RebootWork>>_vars
    /\ Restarting => ENABLED <<Reboot>>_vars

\* No thread waits for something nobody is going to do: neither setup() for a
\* semaphore, nor main() off line with the network up, nor an attempt to connect,
\* an event, a method or a restart for the thread it is up to.
NobodyStuck == DpsWaitServed /\ StepsEnabled

\* setup() ends: in the main loop or in a restart, never in a wait for good.
SetupTerminates == main = "provision" ~> main = "loop" \/ Restarting

\* A device that is off line while its network is up gets on line again,
\* restarts, or loses the network.
Recovery ==
    main = "loop" /\ l4Status = "connected" /\ ~azureConnected
        ~> azureConnected \/ Restarting \/ l4Status = "disconnected"

\* A trial image that can neither reach the hub nor blame the network is
\* rolled back: it runs out of retries, and the restart reverts it, also where it
\* took the place of another one on trial.
TrialImageResolved ==
    image = "trial" ~> azureConnected \/ image = "confirmed" \/ l4Status = "disconnected"

\* The cloud's Reboot method always restarts the device, whatever else the
\* hub sends and even if the link goes down meanwhile.
RebootHonoured == hubEvent = "Reboot" ~> main = "provision"

\* A downloaded update is always booted into, also by an image still on trial.
UpdateBooted == staged ~> image = "trial" /\ ~staged

\* AzureManagerConnect comes back to main() with a connection or an error that
\* makes main() reboot ("Could not connect to Azure", main.c).
ConnectReturns == main = "connect" ~> main = "loop" \/ Restarting

-----------------------------------------------------------------------------
(* The connection half of the firmware implements ConnectionSupervisor. *)
Phase ==
    IF Restarting THEN "restarting"
    ELSE IF azureConnected /\ hubEvent # "DISCONNECTED" THEN "online"
    ELSE IF main \in {"loop", "connect", "connecting"} THEN "offline"
    ELSE "starting"

Attempts == IF Phase \in {"offline", "online"} THEN connectionRetires ELSE 0

Supervisor == INSTANCE ConnectionSupervisor
                 WITH phase <- Phase, attempts <- Attempts

\* The device starts, tries at most MaxRetry times in a row, is on line or not,
\* and completes every restart it begins; no thread can leave that cycle.
ImplementsSupervisor == Supervisor!Spec
=============================================================================
