----------------------- MODULE AzureConnectionProofs -----------------------
(***************************************************************************)
(* What AzureConnection promises for every retry budget and every answer   *)
(* of the hub: the invariants the runs check, by one inductive invariant,  *)
(* the refinement of ConnectionSupervisor, and what must eventually happen *)
(* to updates, restarts and setup(); and, for every budget up to the       *)
(* firmware's and a hub that does not refuse calls outright, to a lost     *)
(* connection and to an image on trial.  What must happen has the premise  *)
(* []StepsEnabled, which the run of AzureConnection checks (NobodyStuck)   *)
(* and no prover here can: it speaks of ENABLED.                           *)
(***************************************************************************)
EXTENDS AzureConnection, TLAPS

(* What the main thread knows about the registration at each of its steps:
   a token on dps_done_sem means that the verdict is final. *)
DpsOrder ==
    /\ main \in {"provision", "netConnect", "netWait", "dps"}
         => dps = "idle" /\ dpsDoneSem = 0
    /\ main = "dpsWait" => /\ dps \in {"registering", "giving", "done"}
                           /\ dpsDoneSem = 1 => dps = "done"
    /\ main \in {"hubInit", "loop", "connect", "connecting"}
         => dps \in {"done", "already"}

(* Events and states of the hub library that go together.  Between CONNECTING
   and the return of azure_iot_hub_connect nobody else moves the library. *)
EventOrder ==
    /\ main = "connecting" => hub = "disconnected"
    /\ hubEvent \in {"DISCONNECTED", "CONNECTION_FAILED"} => hub \notin HubUp
    /\ hubEvent = "CONNECTED" => hub = "connected" /\ ~azureConnected

(* Until setup() is over nothing has happened on the hub's side, and the L4
   callbacks are registered only after provisioning. *)
SetupQuiet ==
    /\ main = "provision" => net = "off"
    /\ main \in MainSteps \ {"loop", "connect", "connecting", "reboot"}
         => /\ hub = "disconnected" /\ hubEvent = "none"
            /\ ~azureConnected /\ connectionRetires = 0

(* READY is handled before the hub can offer an update: the image is confirmed by
   then, or the flash has refused it. *)
ReadyConfirms == hub = "ready" => image = "confirmed" \/ confirmError \/ hubEvent = "READY"

IInv ==
    /\ TypeOK
    /\ RetryBudget
    /\ FlagFollowsHub
    /\ BudgetRestored
    /\ DpsOrder
    /\ HubNeedsAssignment
    /\ EventOrder
    /\ SetupQuiet
    /\ ReadyConfirms
    /\ RollbackSafe

\* A boot's choice from HubRejects is a Boolean.
LEMMA HubAnswerIsBool == ASSUME NEW answer \in HubRejects PROVE answer \in BOOLEAN
  BY HubRejectsIsSetOfBool

\* The inductive invariant holds at power-on.
LEMMA InitIInv == Init => IInv
<1> SUFFICES ASSUME Init PROVE IInv
  OBVIOUS
<1>1. hubRejects \in BOOLEAN
  BY HubAnswerIsBool DEF Init
<1>2. TypeOK
  BY <1>1 DEF Init, TypeOK, MainSteps, HubUp, HubEvents, MethodNames
<1>3. RetryBudget
  BY MaxRetryIsNat DEF Init, RetryBudget
<1>4. FlagFollowsHub
  BY DEF Init, FlagFollowsHub, HubUp
<1>5. BudgetRestored
  BY DEF Init, BudgetRestored, HubUp
<1>6. DpsOrder
  BY DEF Init, DpsOrder
<1>7. HubNeedsAssignment
  BY DEF Init, HubNeedsAssignment
<1>8. EventOrder
  BY DEF Init, EventOrder, HubUp
<1>9. SetupQuiet
  BY DEF Init, SetupQuiet
<1>10. ReadyConfirms
  BY DEF Init, ReadyConfirms
<1>11. RollbackSafe
  BY DEF Init, RollbackSafe
<1>12. QED
  BY <1>2, <1>3, <1>4, <1>5, <1>6, <1>7, <1>8, <1>9, <1>10, <1>11 DEF IInv

\* Handling DISCONNECTED leaves flag and library both down: the library never
\* comes up again before the handler has run.
LEMMA DisconnectedClearsFlag ==
    ASSUME EventOrder, OnDisconnected PROVE FlagFollowsHub'
<1>1. ~azureConnected'
  BY Zenon DEF OnDisconnected
<1>2. hub \notin HubUp
  BY DEF EventOrder, OnDisconnected, Handle
<1>3. hub' \notin HubUp
  BY <1>2 DEF OnDisconnected, Handle
<1>4. QED
  BY <1>1, <1>3, Zenon DEF FlagFollowsHub, HubUp

\* Every step of every thread, and every restart, preserves it.
LEMMA NextIInv == IInv /\ [Next]_vars => IInv'
<1> SUFFICES ASSUME IInv, [Next]_vars PROVE IInv'
  OBVIOUS
<1> USE MaxRetryIsNat
    DEF IInv, TypeOK, RetryBudget, FlagFollowsHub, BudgetRestored, DpsOrder,
        HubNeedsAssignment, EventOrder, SetupQuiet, ReadyConfirms, RollbackSafe,
        MainSteps, HubUp, HubEvents, MethodNames,
        netVars, dpsVars, hubVars, mgrVars, imageVars, flash
<1>1. CASE Reboot
  <2>1. hubRejects' \in BOOLEAN
    BY <1>1, HubAnswerIsBool DEF Reboot
  <2>2. TypeOK'
    BY <1>1, <2>1 DEF Reboot
  <2>3. RetryBudget'
    BY <1>1 DEF Reboot
  <2>4. FlagFollowsHub'
    BY <1>1 DEF Reboot
  <2>5. BudgetRestored'
    BY <1>1 DEF Reboot
  <2>6. DpsOrder'
    BY <1>1 DEF Reboot
  <2>7. HubNeedsAssignment'
    BY <1>1 DEF Reboot
  <2>8. EventOrder'
    BY <1>1 DEF Reboot
  <2>9. SetupQuiet'
    BY <1>1 DEF Reboot
  <2>10. ReadyConfirms'
    BY <1>1 DEF Reboot
  <2>11. RollbackSafe'
    BY <1>1 DEF Reboot
  <2>12. QED
    BY <2>2, <2>3, <2>4, <2>5, <2>6, <2>7, <2>8, <2>9, <2>10, <2>11
<1>2. CASE Provision
  BY <1>2 DEF Provision
<1>3. CASE NetworkConnect
  BY <1>3 DEF NetworkConnect
<1>4. CASE NetworkConnected
  BY <1>4 DEF NetworkConnected
<1>5. CASE NetworkTimeout
  BY <1>5 DEF NetworkTimeout
<1>6. CASE DpsStart
  BY <1>6 DEF DpsStart
<1>7. CASE DpsDone
  BY <1>7 DEF DpsDone
<1>8. CASE HubInit
  BY <1>8 DEF HubInit
<1>9. CASE EnterConnect
  BY <1>9 DEF EnterConnect
<1>10. CASE AlreadyConnected
  BY <1>10 DEF AlreadyConnected
<1>11. CASE ConnectBegin
  BY <1>11 DEF ConnectBegin
<1>12. CASE ConnectOk
  BY <1>12 DEF ConnectOk
<1>13. CASE ConnectError
  BY <1>13 DEF ConnectError
<1>14. CASE DpsReply
  BY <1>14 DEF DpsReply
<1>15. CASE DpsGive
  BY <1>15 DEF DpsGive
<1>16. CASE L4Connected
  BY <1>16 DEF L4Connected
<1>17. CASE L4ConnectedCallback
  BY <1>17 DEF L4ConnectedCallback
<1>18. CASE L4Disconnected
  BY <1>18 DEF L4Disconnected
<1>19. CASE L4FatalError
  BY <1>19 DEF L4FatalError
<1>20. CASE Connack
  BY <1>20 DEF Connack, Raise, HubThreadFree
<1>21. CASE ConnectFails
  BY <1>21 DEF ConnectFails, Raise, HubThreadFree
<1>22. CASE Ready
  BY <1>22 DEF Ready, Raise, HubThreadFree
<1>23. CASE Lost
  BY <1>23 DEF Lost, Raise, HubThreadFree
<1>24. CASE FotaDone
  BY <1>24 DEF FotaDone, Raise, HubThreadFree
<1>25. CASE DirectMethod
  BY <1>25 DEF DirectMethod, Raise, HubThreadFree
<1>26. CASE OnConnected
  BY <1>26 DEF OnConnected, Handle
<1>27. CASE OnConnectionFailed
  BY <1>27 DEF OnConnectionFailed, Handle
<1>28. CASE OnDisconnected
  <2>1. FlagFollowsHub'
    BY <1>28, DisconnectedClearsFlag
  <2>2. TypeOK'
    <3>1. azureConnected' \in BOOLEAN
      BY <1>28, Zenon DEF OnDisconnected
    <3>2. QED
      BY <1>28, <3>1 DEF OnDisconnected, Handle
  <2>3. RetryBudget'
    BY <1>28 DEF OnDisconnected, Handle
  <2>4. BudgetRestored'
    BY <1>28 DEF OnDisconnected, Handle
  <2>5. DpsOrder'
    BY <1>28 DEF OnDisconnected, Handle
  <2>6. HubNeedsAssignment'
    BY <1>28 DEF OnDisconnected, Handle
  <2>7. EventOrder'
    BY <1>28 DEF OnDisconnected, Handle
  <2>8. SetupQuiet'
    BY <1>28 DEF OnDisconnected, Handle
  <2>9. ReadyConfirms'
    BY <1>28 DEF OnDisconnected, Handle
  <2>10. RollbackSafe'
    BY <1>28 DEF OnDisconnected, Handle
  <2>11. QED
    BY <2>1, <2>2, <2>3, <2>4, <2>5, <2>6, <2>7, <2>8, <2>9, <2>10
<1>29. CASE OnReady
  BY <1>29 DEF OnReady, Handle
<1>30. CASE OnFotaDone
  BY <1>30 DEF OnFotaDone, Handle, ScheduleReboot
<1>31. CASE OnDirectMethod
  BY <1>31 DEF OnDirectMethod, Handle
<1>32. CASE DirectMethodHandler
  BY <1>32 DEF DirectMethodHandler, ScheduleReboot
<1>33. CASE RebootWork
  BY <1>33 DEF RebootWork
<1>34. CASE UNCHANGED vars
  BY <1>34 DEF vars
<1>35. QED
  BY <1>1, <1>2, <1>3, <1>4, <1>5, <1>6, <1>7, <1>8, <1>9, <1>10, <1>11, <1>12, <1>13,
     <1>14, <1>15, <1>16, <1>17, <1>18, <1>19, <1>20, <1>21, <1>22, <1>23, <1>24, <1>25,
     <1>26, <1>27, <1>28, <1>29, <1>30, <1>31, <1>32, <1>33, <1>34
     DEF Next, MainThread, DpsThread, NetThread, Hub, Handlers, WorkQueues

\* The invariant holds in every state the firmware reaches.
THEOREM Invariance == Spec => []IInv
<1>1. Init => IInv
  BY InitIInv
<1>2. IInv /\ [Next]_vars => IInv'
  BY NextIInv
<1>3. QED
  BY <1>1, <1>2, PTL DEF Spec

\* Each property the runs check of a small instance, for every retry budget.
THEOREM TypeCorrect == Spec => []TypeOK
<1>1. IInv => TypeOK
  BY DEF IInv
<1>2. QED
  BY <1>1, Invariance, PTL

\* No device makes more than MaxRetry consecutive attempts without being in
\* DeviceRebootError.
THEOREM RetriesBounded == Spec => []RetryBudget
<1>1. IInv => RetryBudget
  BY DEF IInv
<1>2. QED
  BY <1>1, Invariance, PTL

\* The flag main() decides by and the hub library never disagree by more than
\* the event in flight.
THEOREM FlagIsAccurate == Spec => []FlagFollowsHub
<1>1. IInv => FlagFollowsHub
  BY DEF IInv
<1>2. QED
  BY <1>1, Invariance, PTL

\* A link that is up has forgotten the failures before it.
THEOREM BudgetIsRestored == Spec => []BudgetRestored
<1>1. IInv => BudgetRestored
  BY DEF IInv
<1>2. QED
  BY <1>1, Invariance, PTL

\* main() never talks to the hub on the strength of a failed registration.
THEOREM AssignedBeforeHub == Spec => []HubNeedsAssignment
<1>1. IInv => HubNeedsAssignment
  BY DEF IInv
<1>2. QED
  BY <1>1, Invariance, PTL

\* An update never overwrites the only image an unconfirmed one can go back to,
\* unless the flash refused to confirm the one that runs.
THEOREM RollbackPreserved == Spec => []RollbackSafe
<1>1. IInv => RollbackSafe
  BY DEF IInv
<1>2. QED
  BY <1>1, Invariance, PTL

-----------------------------------------------------------------------------
(* The safety half of the refinement. *)

\* Power-on is the supervisor's initial state.
LEMMA InitRefines == Init => Supervisor!Init
  BY DEF Init, Supervisor!Init, Phase, Attempts, Restarting

\* Every step of the firmware is a step of the supervisor or a stutter.
LEMMA NextRefines == IInv /\ [Next]_vars => [Supervisor!Next]_(Supervisor!vars)
<1> SUFFICES ASSUME IInv, [Next]_vars PROVE [Supervisor!Next]_(Supervisor!vars)
  OBVIOUS
<1> USE MaxRetryIsNat
    DEF IInv, TypeOK, RetryBudget, FlagFollowsHub, BudgetRestored, DpsOrder, EventOrder, SetupQuiet,
        MainSteps, HubUp, HubEvents, MethodNames,
        netVars, dpsVars, hubVars, mgrVars, imageVars, flash,
        Phase, Attempts, Restarting, Supervisor!vars, Supervisor!Next,
        Supervisor!Started, Supervisor!Attempt, Supervisor!Up, Supervisor!Down,
        Supervisor!GiveUp, Supervisor!Restart
<1>1. CASE Reboot
  BY <1>1 DEF Reboot
<1>2. CASE Provision
  <2>1. CASE Restarting
    BY <1>2, <2>1 DEF Provision
  <2>2. CASE ~Restarting
    <3>1. CASE main' = "reboot"
      BY <1>2, <2>2, <3>1 DEF Provision
    <3>2. CASE main' # "reboot"
      BY <1>2, <2>2, <3>2 DEF Provision
    <3>3. QED
      BY <3>1, <3>2
  <2>3. QED
    BY <2>1, <2>2
<1>3. CASE NetworkConnect
  BY <1>3 DEF NetworkConnect
<1>4. CASE NetworkConnected
  BY <1>4 DEF NetworkConnected
<1>5. CASE NetworkTimeout
  BY <1>5 DEF NetworkTimeout
<1>6. CASE DpsStart
  BY <1>6 DEF DpsStart
<1>7. CASE DpsDone
  BY <1>7 DEF DpsDone
<1>8. CASE HubInit
  <2>1. CASE Restarting
    BY <1>8, <2>1 DEF HubInit
  <2>2. CASE ~Restarting
    <3>1. CASE main' = "reboot"
      BY <1>8, <2>2, <3>1 DEF HubInit
    <3>2. CASE main' # "reboot"
      BY <1>8, <2>2, <3>2 DEF HubInit
    <3>3. QED
      BY <3>1, <3>2
  <2>3. QED
    BY <2>1, <2>2
<1>9. CASE EnterConnect
  BY <1>9 DEF EnterConnect
<1>10. CASE AlreadyConnected
  BY <1>10 DEF AlreadyConnected
<1>11. CASE ConnectBegin
  BY <1>11 DEF ConnectBegin
<1>12. CASE ConnectOk
  BY <1>12 DEF ConnectOk
<1>13. CASE ConnectError
  BY <1>13 DEF ConnectError
<1>14. CASE DpsReply
  BY <1>14 DEF DpsReply
<1>15. CASE DpsGive
  BY <1>15 DEF DpsGive
<1>16. CASE L4Connected
  BY <1>16 DEF L4Connected
<1>17. CASE L4ConnectedCallback
  BY <1>17 DEF L4ConnectedCallback
<1>18. CASE L4Disconnected
  BY <1>18 DEF L4Disconnected
<1>19. CASE L4FatalError
  BY <1>19 DEF L4FatalError
<1>20. CASE Connack
  BY <1>20 DEF Connack, Raise, HubThreadFree
<1>21. CASE ConnectFails
  BY <1>21 DEF ConnectFails, Raise, HubThreadFree
<1>22. CASE Ready
  BY <1>22 DEF Ready, Raise, HubThreadFree
<1>23. CASE Lost
  <2>1. CASE Restarting
    BY <1>23, <2>1 DEF Lost, Raise, HubThreadFree
  <2>2. CASE ~Restarting
    BY <1>23, <2>2 DEF Lost, Raise, HubThreadFree
  <2>3. QED
    BY <2>1, <2>2
<1>24. CASE FotaDone
  BY <1>24 DEF FotaDone, Raise, HubThreadFree
<1>25. CASE DirectMethod
  BY <1>25 DEF DirectMethod, Raise, HubThreadFree
<1>26. CASE OnConnected
  <2>1. CASE Restarting
    BY <1>26, <2>1 DEF OnConnected, Handle
  <2>2. CASE ~Restarting
    BY <1>26, <2>2 DEF OnConnected, Handle
  <2>3. QED
    BY <2>1, <2>2
<1>27. CASE OnConnectionFailed
  BY <1>27 DEF OnConnectionFailed, Handle
<1>28. CASE OnDisconnected
  BY <1>28 DEF OnDisconnected, Handle
<1>29. CASE OnReady
  BY <1>29 DEF OnReady, Handle
<1>30. CASE OnFotaDone
  BY <1>30 DEF OnFotaDone, Handle, ScheduleReboot
<1>31. CASE OnDirectMethod
  BY <1>31 DEF OnDirectMethod, Handle
<1>32. CASE DirectMethodHandler
  BY <1>32 DEF DirectMethodHandler, ScheduleReboot
<1>33. CASE RebootWork
  BY <1>33 DEF RebootWork
<1>34. CASE UNCHANGED vars
  BY <1>34 DEF vars
<1>35. QED
  BY <1>1, <1>2, <1>3, <1>4, <1>5, <1>6, <1>7, <1>8, <1>9, <1>10, <1>11, <1>12, <1>13,
     <1>14, <1>15, <1>16, <1>17, <1>18, <1>19, <1>20, <1>21, <1>22, <1>23, <1>24, <1>25,
     <1>26, <1>27, <1>28, <1>29, <1>30, <1>31, <1>32, <1>33, <1>34
     DEF Next, MainThread, DpsThread, NetThread, Hub, Handlers, WorkQueues

\* Whatever the threads, the network and the cloud do, the device goes through
\* the supervisor's cycle: at most MaxRetry attempts in a row, then a restart.
THEOREM Refinement == Spec => Supervisor!SafetySpec
<1>1. Init => Supervisor!Init
  BY InitRefines
<1>2. IInv /\ [Next]_vars => [Supervisor!Next]_(Supervisor!vars)
  BY NextRefines
<1>3. Spec => []IInv
  BY Invariance
<1>4. QED
  BY <1>1, <1>2, <1>3, PTL DEF Spec, Supervisor!SafetySpec

-----------------------------------------------------------------------------
(* Restarts that are due, and the waits of setup(). *)

(* method_data holds one method: while one waits in it the MQTT thread, which
   the work queue outranks, brings no other. *)
OneMethod == hubEvent # "none" => method = "none"

(* A downloaded image has its restart on the way. *)
UpdateScheduled == staged => hubEvent = "FOTA_DONE" \/ rebootWork # "idle"

Served == OneMethod /\ UpdateScheduled /\ DpsWaitServed

\* At power-on nothing is pending.
LEMMA InitServed == Init => Served
  BY DEF Init, Served, OneMethod, UpdateScheduled, DpsWaitServed

\* No step loses a method, a restart or the answer of the DPS thread.
LEMMA NextServed == IInv /\ Served /\ [Next]_vars => Served'
<1> SUFFICES ASSUME IInv, Served, [Next]_vars PROVE Served'
  OBVIOUS
<1> USE DEF IInv, TypeOK, DpsOrder, MainSteps, HubEvents, MethodNames,
        Served, OneMethod, UpdateScheduled, DpsWaitServed,
        netVars, dpsVars, hubVars, mgrVars, imageVars, flash
<1>1. CASE MainThread
  BY <1>1 DEF MainThread, Provision, NetworkConnect, NetworkConnected, NetworkTimeout,
              DpsStart, DpsDone, HubInit, EnterConnect, AlreadyConnected, ConnectBegin,
              ConnectOk, ConnectError
<1>2. CASE DpsThread
  BY <1>2 DEF DpsThread, DpsReply, DpsGive
<1>3. CASE NetThread
  BY <1>3 DEF NetThread, L4Connected, L4ConnectedCallback, L4Disconnected, L4FatalError
<1>4. CASE Hub
  BY <1>4 DEF Hub, Connack, ConnectFails, Ready, Lost, FotaDone, DirectMethod,
              Raise, HubThreadFree
<1>5. CASE Handlers
  BY <1>5 DEF Handlers, OnConnected, OnConnectionFailed, OnDisconnected, OnReady,
              OnFotaDone, OnDirectMethod, Handle, ScheduleReboot
<1>6. CASE WorkQueues
  BY <1>6 DEF WorkQueues, DirectMethodHandler, RebootWork, ScheduleReboot
<1>7. CASE Reboot
  BY <1>7 DEF Reboot
<1>8. CASE UNCHANGED vars
  BY <1>8 DEF vars
<1>9. QED
  BY <1>1, <1>2, <1>3, <1>4, <1>5, <1>6, <1>7, <1>8 DEF Next

\* In every reachable state what is pending has somebody to serve it.
THEOREM ServedInvariance == Spec => [](IInv /\ Served)
<1>1. Init => IInv /\ Served
  BY InitIInv, InitServed
<1>2. (IInv /\ Served) /\ [Next]_vars => (IInv /\ Served)'
  BY NextIInv, NextServed
<1>3. QED
  BY <1>1, <1>2, PTL DEF Spec

\* Whatever the DPS thread answers and however it interleaves with main, setup()
\* never waits for a semaphore that nobody is going to give.
THEOREM DpsWaitIsServed == Spec => []DpsWaitServed
<1>1. Served => DpsWaitServed
  BY DEF Served
<1>2. QED
  BY <1>1, ServedInvariance, PTL

\* One step of any thread keeps a due restart due, or is the restart.
LEMMA DueStaysDue == IInv /\ Served /\ RestartDue /\ [Next]_vars => RestartDue' \/ Reboot
<1> SUFFICES ASSUME IInv, Served, RestartDue, [Next]_vars, ~Reboot PROVE RestartDue'
  OBVIOUS
<1> USE DEF RestartDue, Served, OneMethod, IInv, TypeOK, HubEvents, MethodNames,
        netVars, dpsVars, hubVars, mgrVars, imageVars, flash
<1>1. CASE MainThread
  BY <1>1 DEF MainThread, Provision, NetworkConnect, NetworkConnected, NetworkTimeout,
              DpsStart, DpsDone, HubInit, EnterConnect, AlreadyConnected, ConnectBegin,
              ConnectOk, ConnectError
<1>2. CASE DpsThread \/ NetThread
  BY <1>2 DEF DpsThread, DpsReply, DpsGive,
              NetThread, L4Connected, L4ConnectedCallback, L4Disconnected, L4FatalError
<1>3. CASE Hub
  BY <1>3 DEF Hub, Connack, ConnectFails, Ready, Lost, FotaDone, DirectMethod,
              Raise, HubThreadFree
<1>4. CASE Handlers
  BY <1>4 DEF Handlers, OnConnected, OnConnectionFailed, OnDisconnected, OnReady,
              OnFotaDone, OnDirectMethod, Handle, ScheduleReboot
<1>5. CASE WorkQueues
  BY <1>5 DEF WorkQueues, DirectMethodHandler, RebootWork, ScheduleReboot
<1>6. CASE UNCHANGED vars
  BY <1>6 DEF vars
<1>7. QED
  BY <1>1, <1>2, <1>3, <1>4, <1>5, <1>6 DEF Next

\* For every retry budget: only a restart ends the need for one (RestartKept).
THEOREM RestartIsKept == Spec => RestartKept
<1>1. IInv /\ Served /\ [Next]_vars => [RestartDue => RestartDue' \/ Reboot]_vars
  BY DueStaysDue
<1>2. QED
  BY <1>1, ServedInvariance, PTL DEF Spec, RestartKept

-----------------------------------------------------------------------------
(* What must happen.  No prover here reasons about ENABLED, so the theorems
   below assume []StepsEnabled, the half of NobodyStuck that a run checks and
   that says no more than when the threads' actions are enabled; everything
   else about the fairness of Spec and the order of the steps is proved. *)

\* What one step of anybody does to a request for a restart ...
LEMMA RequestSteps ==
    ASSUME IInv, Served, [Next]_vars
    PROVE  /\ hubEvent = "Reboot"
                => hubEvent' = "Reboot" \/ method' = "Reboot" \/ main' = "provision"
           /\ method = "Reboot"
                => method' = "Reboot" \/ rebootWork' \in {"scheduled", "running"}
                   \/ main' = "provision"
           /\ rebootWork = "scheduled"
                => rebootWork' \in {"scheduled", "running"} \/ main' = "provision"
           /\ rebootWork = "running" => rebootWork' = "running" \/ main' = "provision"
<1> USE DEF Served, OneMethod, IInv, TypeOK, HubEvents, MethodNames,
        netVars, dpsVars, hubVars, mgrVars, imageVars, flash
<1>1. CASE MainThread
  BY <1>1 DEF MainThread, Provision, NetworkConnect, NetworkConnected, NetworkTimeout,
              DpsStart, DpsDone, HubInit, EnterConnect, AlreadyConnected, ConnectBegin,
              ConnectOk, ConnectError
<1>2. CASE DpsThread \/ NetThread
  BY <1>2 DEF DpsThread, DpsReply, DpsGive,
              NetThread, L4Connected, L4ConnectedCallback, L4Disconnected, L4FatalError
<1>3. CASE Hub
  BY <1>3 DEF Hub, Connack, ConnectFails, Ready, Lost, FotaDone, DirectMethod,
              Raise, HubThreadFree
<1>4. CASE Handlers
  BY <1>4 DEF Handlers, OnConnected, OnConnectionFailed, OnDisconnected, OnReady,
              OnFotaDone, OnDirectMethod, Handle, ScheduleReboot
<1>5. CASE WorkQueues
  BY <1>5 DEF WorkQueues, DirectMethodHandler, RebootWork, ScheduleReboot
<1>6. CASE Reboot
  BY <1>6 DEF Reboot
<1>7. CASE UNCHANGED vars
  BY <1>7 DEF vars
<1>8. QED
  BY <1>1, <1>2, <1>3, <1>4, <1>5, <1>6, <1>7 DEF Next

\* ... and what the step of the thread it is up to does.
LEMMA RequestServed ==
    ASSUME IInv, Served
    PROVE  /\ hubEvent = "Reboot" /\ Handlers => method' = "Reboot"
           /\ method = "Reboot" /\ DirectMethodHandler
                => rebootWork' \in {"scheduled", "running"}
           /\ rebootWork = "scheduled" /\ RebootWork => rebootWork' = "running"
           /\ Reboot => main' = "provision"
  BY DEF IInv, TypeOK, Handlers, OnConnected, OnConnectionFailed, OnDisconnected,
         OnReady, OnFotaDone, OnDirectMethod, Handle, DirectMethodHandler,
         ScheduleReboot, RebootWork, Reboot

\* The cloud's Reboot method restarts the device (RebootHonoured).
THEOREM RebootIsHonoured == Spec /\ []StepsEnabled => RebootHonoured
<1> DEFINE I == IInv /\ Served
           Asked == hubEvent = "Reboot"
           Queued == method = "Reboot"
           Scheduled == rebootWork = "scheduled"
           Running == rebootWork = "running"
           Restarted == main = "provision"
<1>1. /\ I /\ Asked /\ [Next]_vars => Asked' \/ Queued' \/ Restarted'
      /\ I /\ Queued /\ [Next]_vars => Queued' \/ Scheduled' \/ Running' \/ Restarted'
      /\ I /\ Scheduled /\ [Next]_vars => Scheduled' \/ Running' \/ Restarted'
      /\ I /\ Running /\ [Next]_vars => Running' \/ Restarted'
  BY RequestSteps
<1>2. /\ I /\ Asked /\ <<Handlers>>_vars => Queued'
      /\ I /\ Queued /\ <<DirectMethodHandler>>_vars => Scheduled' \/ Running'
      /\ I /\ Scheduled /\ <<RebootWork>>_vars => Running'
      /\ I /\ <<Reboot>>_vars => Restarted'
  BY RequestServed
<1>3. StepsEnabled => /\ Asked => ENABLED <<Handlers>>_vars
                      /\ Queued => ENABLED <<DirectMethodHandler>>_vars
                      /\ Scheduled => ENABLED <<RebootWork>>_vars
                      /\ Running => ENABLED <<Reboot>>_vars
  BY Zenon DEF StepsEnabled, Restarting
<1> HIDE DEF I, Asked, Queued, Scheduled, Running, Restarted
<1>4. Spec => []I
  BY ServedInvariance DEF I
<1>5. Spec /\ []StepsEnabled => (Asked ~> Restarted)
  BY <1>1, <1>2, <1>3, <1>4, PTL DEF Spec, Fairness
<1>6. QED
  BY <1>5 DEF Asked, Restarted, RebootHonoured

\* A restart once begun is completed: the device never stays in it.
THEOREM RestartsComplete == Spec /\ []StepsEnabled => []<>~Restarting
<1>1. Reboot => ~Restarting'
  BY DEF Reboot, Restarting
<1>2. StepsEnabled => (Restarting => ENABLED <<Reboot>>_vars)
  BY Zenon DEF StepsEnabled
<1>3. QED
  BY <1>1, <1>2, PTL DEF Spec, Fairness

\* The staged image runs, on trial.
BootedInto == image = "trial" /\ ~staged

\* A staged image stays staged, its restart on the way, until it is booted.
LEMMA UpdateSteps ==
    ASSUME IInv, Served, staged, [Next]_vars
    PROVE  \/ BootedInto'
           \/ staged' /\ hubEvent' = "FOTA_DONE"
           \/ staged' /\ rebootWork' = "scheduled"
           \/ staged' /\ rebootWork' = "running"
<1>1. CASE Reboot
  BY <1>1 DEF Reboot, BootedInto
<1>2. CASE ~Reboot
  <2>1. Served' /\ IInv'
    BY NextServed, NextIInv
  <2>2. staged' = TRUE \/ staged' = staged
    BY <1>2 DEF Next, MainThread, Provision, NetworkConnect, NetworkConnected,
       NetworkTimeout, DpsStart, DpsDone, HubInit, EnterConnect, AlreadyConnected,
       ConnectBegin, ConnectOk, ConnectError, DpsThread, DpsReply, DpsGive,
       NetThread, L4Connected, L4ConnectedCallback, L4Disconnected, L4FatalError,
       Hub, Connack, ConnectFails, Ready, Lost, FotaDone, DirectMethod,
       Handlers, OnConnected, OnConnectionFailed, OnDisconnected, OnReady,
       OnFotaDone, OnDirectMethod, Handle, WorkQueues, DirectMethodHandler, RebootWork,
       imageVars, flash, vars
  <2>3. QED
    BY <2>1, <2>2 DEF Served, UpdateScheduled, IInv, TypeOK
<1>3. QED
  BY <1>1, <1>2

\* What the step of the thread the update is waiting for does.
LEMMA UpdateServed ==
    ASSUME IInv, staged
    PROVE  /\ hubEvent = "FOTA_DONE" /\ Handlers => hubEvent' # "FOTA_DONE"
           /\ rebootWork = "scheduled" /\ RebootWork => rebootWork' = "running"
           /\ Reboot => BootedInto'
  BY DEF Handlers, OnConnected, OnConnectionFailed, OnDisconnected, OnReady,
         OnFotaDone, OnDirectMethod, Handle, RebootWork, Reboot, BootedInto

\* Once the handler has run its event the update waits for the work queue; an
\* update that is being downloaded a second time cannot call it back.
LEMMA UpdateMovesOn ==
    ASSUME IInv, Served, staged, [Next]_vars
    PROVE  /\ rebootWork = "scheduled"
                => BootedInto' \/ (staged' /\ rebootWork' \in {"scheduled", "running"})
           /\ rebootWork = "running" => BootedInto' \/ (staged' /\ rebootWork' = "running")
<1>1. CASE Reboot
  BY <1>1 DEF Reboot, BootedInto
<1>2. CASE ~Reboot
  <2>1. staged' \/ BootedInto'
    BY UpdateSteps
  <2>2. /\ rebootWork = "scheduled" => rebootWork' \in {"scheduled", "running"}
        /\ rebootWork = "running" => rebootWork' = "running"
    BY <1>2 DEF Next, MainThread, Provision, NetworkConnect, NetworkConnected,
       NetworkTimeout, DpsStart, DpsDone, HubInit, EnterConnect, AlreadyConnected,
       ConnectBegin, ConnectOk, ConnectError, DpsThread, DpsReply, DpsGive,
       NetThread, L4Connected, L4ConnectedCallback, L4Disconnected, L4FatalError,
       Hub, Connack, ConnectFails, Ready, Lost, FotaDone, DirectMethod,
       Handlers, OnConnected, OnConnectionFailed, OnDisconnected, OnReady,
       OnFotaDone, OnDirectMethod, Handle, WorkQueues, DirectMethodHandler, RebootWork,
       ScheduleReboot, mgrVars, vars
  <2>3. QED
    BY <2>1, <2>2
<1>3. QED
  BY <1>1, <1>2

\* A downloaded update is booted into (UpdateBooted).
THEOREM UpdateIsBooted == Spec /\ []StepsEnabled => UpdateBooted
<1> DEFINE I == IInv /\ Served
           Staged == staged
           Announced == hubEvent = "FOTA_DONE"
           Scheduled == rebootWork = "scheduled"
           Running == rebootWork = "running"
           Booted == BootedInto
<1>1. /\ I /\ Staged => Announced \/ Scheduled \/ Running
      /\ I /\ Staged /\ [Next]_vars => Staged' \/ Booted'
      /\ I /\ Staged /\ Scheduled /\ [Next]_vars => (Staged /\ (Scheduled \/ Running))' \/ Booted'
      /\ I /\ Staged /\ Running /\ [Next]_vars => (Staged /\ Running)' \/ Booted'
  BY UpdateSteps, UpdateMovesOn DEF Served, UpdateScheduled, IInv, TypeOK
<1>2. /\ I /\ Staged /\ Announced /\ <<Handlers>>_vars => ~Announced'
      /\ I /\ Staged /\ Scheduled /\ <<RebootWork>>_vars => Running'
      /\ I /\ Staged /\ <<Reboot>>_vars => Booted'
  BY UpdateServed
<1>3. StepsEnabled => /\ Announced => ENABLED <<Handlers>>_vars
                      /\ Scheduled => ENABLED <<RebootWork>>_vars
                      /\ Running => ENABLED <<Reboot>>_vars
  BY Zenon DEF StepsEnabled, Restarting
<1> HIDE DEF I, Staged, Announced, Scheduled, Running, Booted
<1>4. Spec => []I
  BY ServedInvariance DEF I
<1>5. Spec /\ []StepsEnabled => (Staged ~> Booted)
  BY <1>1, <1>2, <1>3, <1>4, PTL DEF Spec, Fairness
<1>6. QED
  BY <1>5 DEF Staged, Booted, BootedInto, UpdateBooted

-----------------------------------------------------------------------------
\* setup() goes through its steps in order, or restarts.
LEMMA SetupSteps ==
    ASSUME IInv, Served, ~Restarting, [Next]_vars
    PROVE  /\ main = "provision" => main' \in {"provision", "netConnect"} \/ Restarting'
           /\ main = "netConnect" => main' \in {"netConnect", "netWait"} \/ Restarting'
           /\ main = "netWait" => main' \in {"netWait", "dps"} \/ Restarting'
           /\ main = "dps" => main' \in {"dps", "dpsWait", "hubInit"} \/ Restarting'
           /\ main = "dpsWait" =>
                \/ main' = "dpsWait" /\ (dps' # dps => dps' \in {"giving", "done"})
                                     /\ (dps = "giving" => dps' \in {"giving", "done"})
                                     /\ (dpsDoneSem = 1 => dpsDoneSem' = 1)
                \/ main' = "hubInit"
                \/ Restarting'
           /\ main = "hubInit" => main' \in {"hubInit", "loop"} \/ Restarting'
  BY DEF Restarting, IInv, TypeOK, DpsOrder, Served, DpsWaitServed,
       Next, MainThread, Provision, NetworkConnect, NetworkConnected,
       NetworkTimeout, DpsStart, DpsDone, HubInit, EnterConnect, AlreadyConnected,
       ConnectBegin, ConnectOk, ConnectError, DpsThread, DpsReply, DpsGive,
       NetThread, L4Connected, L4ConnectedCallback, L4Disconnected, L4FatalError,
       Hub, Connack, ConnectFails, Ready, Lost, FotaDone, DirectMethod,
       Handlers, OnConnected, OnConnectionFailed, OnDisconnected, OnReady,
       OnFotaDone, OnDirectMethod, Handle, WorkQueues, DirectMethodHandler, RebootWork,
       Reboot, netVars, dpsVars, hubVars, mgrVars, vars

\* What the main thread's own step does in setup(), and the DPS thread's.
LEMMA SetupServed ==
    ASSUME IInv, Served
    PROVE  /\ main \in {"provision", "netConnect", "netWait", "dps", "dpsWait", "hubInit"}
                /\ MainThread => main' # main
           /\ dps = "registering" /\ DpsThread => dps' = "giving"
           /\ dps = "giving" /\ DpsThread => dps' = "done" /\ dpsDoneSem' = 1
  BY DEF MainThread, Provision, NetworkConnect, NetworkConnected,
       NetworkTimeout, DpsStart, DpsDone, HubInit, EnterConnect, AlreadyConnected,
       ConnectBegin, ConnectOk, ConnectError, DpsThread, DpsReply, DpsGive

\* From wherever it is, setup() goes on to the main loop or to a restart.
LEMMA SetupMovesOn ==
    Spec /\ []StepsEnabled
        => (main \in {"provision", "netConnect", "netWait", "dps", "dpsWait", "hubInit"}
              ~> main = "loop" \/ Restarting)
<1> DEFINE I == IInv /\ Served
           P == main = "provision"
           C == main = "netConnect"
           W == main = "netWait"
           D == main = "dps"
           A == main = "dpsWait"
           H == main = "hubInit"
           Token == dpsDoneSem = 1
           Registering == dps = "registering"
           Giving == dps = "giving"
           End == main = "loop" \/ Restarting
           Setup == main \in {"provision", "netConnect", "netWait", "dps", "dpsWait", "hubInit"}
<1>0. Setup => P \/ C \/ W \/ D \/ A \/ H
  OBVIOUS
<1>1. /\ I /\ P /\ ~End /\ [Next]_vars => P' \/ C' \/ End'
      /\ I /\ C /\ ~End /\ [Next]_vars => C' \/ W' \/ End'
      /\ I /\ W /\ ~End /\ [Next]_vars => W' \/ D' \/ End'
      /\ I /\ D /\ ~End /\ [Next]_vars => D' \/ A' \/ H' \/ End'
      /\ I /\ A /\ ~End /\ [Next]_vars =>
            \/ A' /\ (Token => Token') /\ (Giving => ~Registering')
                  /\ (~Registering => ~Registering')
            \/ H'
            \/ End'
      /\ I /\ H /\ ~End /\ [Next]_vars => H' \/ End'
  BY SetupSteps DEF Restarting
<1>2. I /\ A => Token \/ Registering \/ Giving
  BY DEF Served, DpsWaitServed
<1>3. /\ I /\ P /\ <<MainThread>>_vars => ~P'
      /\ I /\ C /\ <<MainThread>>_vars => ~C'
      /\ I /\ W /\ <<MainThread>>_vars => ~W'
      /\ I /\ D /\ <<MainThread>>_vars => ~D'
      /\ I /\ A /\ <<MainThread>>_vars => ~A'
      /\ I /\ H /\ <<MainThread>>_vars => ~H'
      /\ I /\ Registering /\ <<DpsThread>>_vars => Giving'
      /\ I /\ Giving /\ <<DpsThread>>_vars => Token'
  BY SetupServed
<1>4. StepsEnabled => /\ P \/ C \/ W \/ D \/ H \/ (A /\ Token) => ENABLED <<MainThread>>_vars
                      /\ Registering \/ Giving => ENABLED <<DpsThread>>_vars
  <2>1. P \/ C \/ W \/ D \/ H \/ (A /\ Token) => SetupReady
    BY DEF SetupReady
  <2>2. Registering \/ Giving => dps \in {"registering", "giving"}
    OBVIOUS
  <2>3. QED
    BY <2>1, <2>2, Zenon DEF StepsEnabled
<1> HIDE DEF I, P, C, W, D, A, H, Token, Registering, Giving, End, Setup
<1>5. Spec => []I
  BY ServedInvariance DEF I
<1>6. Spec /\ []StepsEnabled => (H ~> End)
  BY <1>1, <1>3, <1>4, <1>5, PTL DEF Spec, Fairness
<1>7. Spec /\ []StepsEnabled => (A ~> H \/ End)
  BY <1>1, <1>2, <1>3, <1>4, <1>5, PTL DEF Spec, Fairness
<1>8. Spec /\ []StepsEnabled => (D ~> A \/ H \/ End)
  BY <1>1, <1>3, <1>4, <1>5, PTL DEF Spec, Fairness
<1>9. Spec /\ []StepsEnabled => (W ~> D \/ End)
  BY <1>1, <1>3, <1>4, <1>5, PTL DEF Spec, Fairness
<1>10. Spec /\ []StepsEnabled => (C ~> W \/ End)
  BY <1>1, <1>3, <1>4, <1>5, PTL DEF Spec, Fairness
<1>11. Spec /\ []StepsEnabled => (P ~> C \/ End)
  BY <1>1, <1>3, <1>4, <1>5, PTL DEF Spec, Fairness
<1>12. Spec /\ []StepsEnabled => (Setup ~> End)
  BY <1>0, <1>6, <1>7, <1>8, <1>9, <1>10, <1>11, PTL
<1>13. QED
  BY <1>12 DEF Setup, End

\* setup() ends, in the main loop or in a restart: no answer of the DPS service,
\* no failing call and no timeout leaves it waiting (SetupTerminates).
THEOREM SetupEnds == Spec /\ []StepsEnabled => SetupTerminates
<1> DEFINE P == main = "provision"
           Setup == main \in {"provision", "netConnect", "netWait", "dps", "dpsWait", "hubInit"}
           End == main = "loop" \/ Restarting
<1>1. Spec /\ []StepsEnabled => (Setup ~> End)
  BY SetupMovesOn
<1>2. P => Setup
  OBVIOUS
<1> HIDE DEF P, Setup, End
<1>3. Spec /\ []StepsEnabled => (P ~> End)
  BY <1>1, <1>2, PTL
<1>4. QED
  BY <1>3 DEF P, End, SetupTerminates

-----------------------------------------------------------------------------
\* Nothing but the restart itself ends one, and it ends in a device that starts.
LEMMA RestartingEnds ==
    ASSUME IInv, Restarting, [Next]_vars
    PROVE  Restarting' \/ (Phase = "starting")'
<1>1. CASE Reboot
  BY <1>1 DEF Reboot, Restarting, Phase
<1>2. CASE ~Reboot
  BY <1>2 DEF IInv, TypeOK, SetupQuiet, Restarting,
       Next, MainThread, Provision, NetworkConnect, NetworkConnected,
       NetworkTimeout, DpsStart, DpsDone, HubInit, EnterConnect, AlreadyConnected,
       ConnectBegin, ConnectOk, ConnectError, DpsThread, DpsReply, DpsGive,
       NetThread, L4Connected, L4ConnectedCallback, L4Disconnected, L4FatalError,
       Hub, Connack, ConnectFails, Ready, Lost, FotaDone, DirectMethod,
       Handlers, OnConnected, OnConnectionFailed, OnDisconnected, OnReady,
       OnFotaDone, OnDirectMethod, Handle, WorkQueues, DirectMethodHandler, RebootWork,
       ScheduleReboot, netVars, dpsVars, hubVars, mgrVars, vars
<1>3. QED
  BY <1>1, <1>2

\* The supervisor's "starting" is setup(), its "restarting" is Restarting.
LEMMA PhaseOfSetup ==
    ASSUME IInv
    PROVE  /\ Phase = "restarting" <=> Restarting
           /\ Phase = "starting"
                => main \in {"provision", "netConnect", "netWait", "dps", "dpsWait", "hubInit"}
           /\ main = "loop" => Phase # "starting"
  BY DEF IInv, TypeOK, MainSteps, Phase, Restarting

\* For every retry budget the connection half of the firmware implements
\* ConnectionSupervisor, with what that promises of restarts and of starting.
THEOREM SupervisorImplemented == Spec /\ []StepsEnabled => ImplementsSupervisor
<1> DEFINE Ending == Phase = "restarting"
           Starting == Phase = "starting"
           Started == Phase # "starting"
           Setup == main \in {"provision", "netConnect", "netWait", "dps", "dpsWait", "hubInit"}
           Loop == main = "loop"
           R == Restarting
<1>1. /\ IInv => (Ending <=> R)
      /\ IInv => (Starting => Setup)
      /\ IInv => (Loop => Started)
      /\ R => Started
  BY PhaseOfSetup DEF Phase
<1>2. IInv /\ R /\ [Next]_vars => R' \/ Starting'
  BY RestartingEnds
<1>3. Spec /\ []StepsEnabled => []<>~R
  BY RestartsComplete
<1>4. Spec /\ []StepsEnabled => (Setup ~> Loop \/ R)
  BY SetupMovesOn
<1> HIDE DEF Ending, Starting, Started, Setup, Loop, R
<1>5. Spec /\ []StepsEnabled => (Ending ~> Starting)
  BY <1>1, <1>2, <1>3, Invariance, PTL DEF Spec
<1>6. Spec /\ []StepsEnabled => (Starting ~> Started)
  BY <1>1, <1>4, Invariance, PTL
<1>7. Spec /\ []StepsEnabled => Supervisor!Liveness
  <2>1. Spec /\ []StepsEnabled => (Phase = "restarting" ~> Phase = "starting")
    BY <1>5 DEF Ending, Starting
  <2>2. Spec /\ []StepsEnabled => (Phase = "starting" ~> Phase # "starting")
    BY <1>6 DEF Starting, Started
  <2>3. QED
    BY <2>1, <2>2, PTL DEF Supervisor!Liveness
<1>8. QED
  BY <1>7, Refinement DEF ImplementsSupervisor, Supervisor!Spec

-----------------------------------------------------------------------------
(* The retry budget as a bound on what can happen: attempts are counted up until a
   CONNACK or a restart clears the counter. *)
Resets == connectionRetires' < connectionRetires

Tried(n) == connectionRetires >= n

\* Nothing else takes an attempt back, and the one that exceeds the budget leaves
\* a main thread that begins no other.
LEMMA AttemptsCount ==
    ASSUME NEW n \in Nat, NEW m \in Nat, m = n + 1, IInv, [Next]_vars, ~Resets, Tried(n)
    PROVE  /\ Tried(n)'
           /\ ConnectBegin => Tried(m)'
           /\ ConnectBegin => n <= MaxRetry
<1> USE MaxRetryIsNat DEF Tried, Resets
<1>1. connectionRetires \in Nat /\ connectionRetires' \in Nat
  BY NextIInv DEF IInv, TypeOK
<1>2. ConnectBegin => connectionRetires' = connectionRetires + 1 /\ main = "connect"
  BY DEF ConnectBegin
<1>3. QED
  BY <1>1, <1>2 DEF IInv, RetryBudget

\* A step that changes nothing does not clear the counter.
LEMMA StutterKeepsCount == ASSUME IInv, [Next]_vars, ~<<Resets>>_vars PROVE ~Resets
<1>1. UNCHANGED vars => connectionRetires' = connectionRetires
  BY DEF vars, mgrVars
<1>2. connectionRetires \in Nat
  BY DEF IInv, TypeOK
<1>3. QED
  BY <1>1, <1>2 DEF Resets

\* However the network and the hub behave and whether or not anybody ever reaches
\* anybody: endless attempts are endlessly often interrupted by a CONNACK or a
\* restart.  One step for each attempt up to the twentieth, which is the last one
\* the firmware makes, since no prover here does the induction.
THEOREM NoEndlessRetries ==
    ASSUME MaxRetry <= 20
    PROVE  Spec => ~[]<><<ConnectBegin>>_vars \/ []<><<Resets>>_vars
<1>1. Spec /\ <>[]Tried(0) => ~[]<><<ConnectBegin>>_vars \/ []<><<Resets>>_vars \/ <>[]Tried(1)
  <2>1. IInv /\ [Next]_vars /\ ~<<Resets>>_vars /\ Tried(1) => Tried(1)'
    BY AttemptsCount, StutterKeepsCount
  <2>2. IInv /\ [Next]_vars /\ ~<<Resets>>_vars /\ Tried(0) /\ <<ConnectBegin>>_vars => Tried(1)'
    BY AttemptsCount, StutterKeepsCount
  <2>3. QED
    BY <2>1, <2>2, Invariance, PTL DEF Spec
<1>2. Spec /\ <>[]Tried(1) => ~[]<><<ConnectBegin>>_vars \/ []<><<Resets>>_vars \/ <>[]Tried(2)
  <2>1. IInv /\ [Next]_vars /\ ~<<Resets>>_vars /\ Tried(2) => Tried(2)'
    BY AttemptsCount, StutterKeepsCount
  <2>2. IInv /\ [Next]_vars /\ ~<<Resets>>_vars /\ Tried(1) /\ <<ConnectBegin>>_vars => Tried(2)'
    BY AttemptsCount, StutterKeepsCount
  <2>3. QED
    BY <2>1, <2>2, Invariance, PTL DEF Spec
<1>3. Spec /\ <>[]Tried(2) => ~[]<><<ConnectBegin>>_vars \/ []<><<Resets>>_vars \/ <>[]Tried(3)
  <2>1. IInv /\ [Next]_vars /\ ~<<Resets>>_vars /\ Tried(3) => Tried(3)'
    BY AttemptsCount, StutterKeepsCount
  <2>2. IInv /\ [Next]_vars /\ ~<<Resets>>_vars /\ Tried(2) /\ <<ConnectBegin>>_vars => Tried(3)'
    BY AttemptsCount, StutterKeepsCount
  <2>3. QED
    BY <2>1, <2>2, Invariance, PTL DEF Spec
<1>4. Spec /\ <>[]Tried(3) => ~[]<><<ConnectBegin>>_vars \/ []<><<Resets>>_vars \/ <>[]Tried(4)
  <2>1. IInv /\ [Next]_vars /\ ~<<Resets>>_vars /\ Tried(4) => Tried(4)'
    BY AttemptsCount, StutterKeepsCount
  <2>2. IInv /\ [Next]_vars /\ ~<<Resets>>_vars /\ Tried(3) /\ <<ConnectBegin>>_vars => Tried(4)'
    BY AttemptsCount, StutterKeepsCount
  <2>3. QED
    BY <2>1, <2>2, Invariance, PTL DEF Spec
<1>5. Spec /\ <>[]Tried(4) => ~[]<><<ConnectBegin>>_vars \/ []<><<Resets>>_vars \/ <>[]Tried(5)
  <2>1. IInv /\ [Next]_vars /\ ~<<Resets>>_vars /\ Tried(5) => Tried(5)'
    BY AttemptsCount, StutterKeepsCount
  <2>2. IInv /\ [Next]_vars /\ ~<<Resets>>_vars /\ Tried(4) /\ <<ConnectBegin>>_vars => Tried(5)'
    BY AttemptsCount, StutterKeepsCount
  <2>3. QED
    BY <2>1, <2>2, Invariance, PTL DEF Spec
<1>6. Spec /\ <>[]Tried(5) => ~[]<><<ConnectBegin>>_vars \/ []<><<Resets>>_vars \/ <>[]Tried(6)
  <2>1. IInv /\ [Next]_vars /\ ~<<Resets>>_vars /\ Tried(6) => Tried(6)'
    BY AttemptsCount, StutterKeepsCount
  <2>2. IInv /\ [Next]_vars /\ ~<<Resets>>_vars /\ Tried(5) /\ <<ConnectBegin>>_vars => Tried(6)'
    BY AttemptsCount, StutterKeepsCount
  <2>3. QED
    BY <2>1, <2>2, Invariance, PTL DEF Spec
<1>7. Spec /\ <>[]Tried(6) => ~[]<><<ConnectBegin>>_vars \/ []<><<Resets>>_vars \/ <>[]Tried(7)
  <2>1. IInv /\ [Next]_vars /\ ~<<Resets>>_vars /\ Tried(7) => Tried(7)'
    BY AttemptsCount, StutterKeepsCount
  <2>2. IInv /\ [Next]_vars /\ ~<<Resets>>_vars /\ Tried(6) /\ <<ConnectBegin>>_vars => Tried(7)'
    BY AttemptsCount, StutterKeepsCount
  <2>3. QED
    BY <2>1, <2>2, Invariance, PTL DEF Spec
<1>8. Spec /\ <>[]Tried(7) => ~[]<><<ConnectBegin>>_vars \/ []<><<Resets>>_vars \/ <>[]Tried(8)
  <2>1. IInv /\ [Next]_vars /\ ~<<Resets>>_vars /\ Tried(8) => Tried(8)'
    BY AttemptsCount, StutterKeepsCount
  <2>2. IInv /\ [Next]_vars /\ ~<<Resets>>_vars /\ Tried(7) /\ <<ConnectBegin>>_vars => Tried(8)'
    BY AttemptsCount, StutterKeepsCount
  <2>3. QED
    BY <2>1, <2>2, Invariance, PTL DEF Spec
<1>9. Spec /\ <>[]Tried(8) => ~[]<><<ConnectBegin>>_vars \/ []<><<Resets>>_vars \/ <>[]Tried(9)
  <2>1. IInv /\ [Next]_vars /\ ~<<Resets>>_vars /\ Tried(9) => Tried(9)'
    BY AttemptsCount, StutterKeepsCount
  <2>2. IInv /\ [Next]_vars /\ ~<<Resets>>_vars /\ Tried(8) /\ <<ConnectBegin>>_vars => Tried(9)'
    BY AttemptsCount, StutterKeepsCount
  <2>3. QED
    BY <2>1, <2>2, Invariance, PTL DEF Spec
<1>10. Spec /\ <>[]Tried(9) => ~[]<><<ConnectBegin>>_vars \/ []<><<Resets>>_vars \/ <>[]Tried(10)
  <2>1. IInv /\ [Next]_vars /\ ~<<Resets>>_vars /\ Tried(10) => Tried(10)'
    BY AttemptsCount, StutterKeepsCount
  <2>2. IInv /\ [Next]_vars /\ ~<<Resets>>_vars /\ Tried(9) /\ <<ConnectBegin>>_vars => Tried(10)'
    BY AttemptsCount, StutterKeepsCount
  <2>3. QED
    BY <2>1, <2>2, Invariance, PTL DEF Spec
<1>11. Spec /\ <>[]Tried(10) => ~[]<><<ConnectBegin>>_vars \/ []<><<Resets>>_vars \/ <>[]Tried(11)
  <2>1. IInv /\ [Next]_vars /\ ~<<Resets>>_vars /\ Tried(11) => Tried(11)'
    BY AttemptsCount, StutterKeepsCount
  <2>2. IInv /\ [Next]_vars /\ ~<<Resets>>_vars /\ Tried(10) /\ <<ConnectBegin>>_vars => Tried(11)'
    BY AttemptsCount, StutterKeepsCount
  <2>3. QED
    BY <2>1, <2>2, Invariance, PTL DEF Spec
<1>12. Spec /\ <>[]Tried(11) => ~[]<><<ConnectBegin>>_vars \/ []<><<Resets>>_vars \/ <>[]Tried(12)
  <2>1. IInv /\ [Next]_vars /\ ~<<Resets>>_vars /\ Tried(12) => Tried(12)'
    BY AttemptsCount, StutterKeepsCount
  <2>2. IInv /\ [Next]_vars /\ ~<<Resets>>_vars /\ Tried(11) /\ <<ConnectBegin>>_vars => Tried(12)'
    BY AttemptsCount, StutterKeepsCount
  <2>3. QED
    BY <2>1, <2>2, Invariance, PTL DEF Spec
<1>13. Spec /\ <>[]Tried(12) => ~[]<><<ConnectBegin>>_vars \/ []<><<Resets>>_vars \/ <>[]Tried(13)
  <2>1. IInv /\ [Next]_vars /\ ~<<Resets>>_vars /\ Tried(13) => Tried(13)'
    BY AttemptsCount, StutterKeepsCount
  <2>2. IInv /\ [Next]_vars /\ ~<<Resets>>_vars /\ Tried(12) /\ <<ConnectBegin>>_vars => Tried(13)'
    BY AttemptsCount, StutterKeepsCount
  <2>3. QED
    BY <2>1, <2>2, Invariance, PTL DEF Spec
<1>14. Spec /\ <>[]Tried(13) => ~[]<><<ConnectBegin>>_vars \/ []<><<Resets>>_vars \/ <>[]Tried(14)
  <2>1. IInv /\ [Next]_vars /\ ~<<Resets>>_vars /\ Tried(14) => Tried(14)'
    BY AttemptsCount, StutterKeepsCount
  <2>2. IInv /\ [Next]_vars /\ ~<<Resets>>_vars /\ Tried(13) /\ <<ConnectBegin>>_vars => Tried(14)'
    BY AttemptsCount, StutterKeepsCount
  <2>3. QED
    BY <2>1, <2>2, Invariance, PTL DEF Spec
<1>15. Spec /\ <>[]Tried(14) => ~[]<><<ConnectBegin>>_vars \/ []<><<Resets>>_vars \/ <>[]Tried(15)
  <2>1. IInv /\ [Next]_vars /\ ~<<Resets>>_vars /\ Tried(15) => Tried(15)'
    BY AttemptsCount, StutterKeepsCount
  <2>2. IInv /\ [Next]_vars /\ ~<<Resets>>_vars /\ Tried(14) /\ <<ConnectBegin>>_vars => Tried(15)'
    BY AttemptsCount, StutterKeepsCount
  <2>3. QED
    BY <2>1, <2>2, Invariance, PTL DEF Spec
<1>16. Spec /\ <>[]Tried(15) => ~[]<><<ConnectBegin>>_vars \/ []<><<Resets>>_vars \/ <>[]Tried(16)
  <2>1. IInv /\ [Next]_vars /\ ~<<Resets>>_vars /\ Tried(16) => Tried(16)'
    BY AttemptsCount, StutterKeepsCount
  <2>2. IInv /\ [Next]_vars /\ ~<<Resets>>_vars /\ Tried(15) /\ <<ConnectBegin>>_vars => Tried(16)'
    BY AttemptsCount, StutterKeepsCount
  <2>3. QED
    BY <2>1, <2>2, Invariance, PTL DEF Spec
<1>17. Spec /\ <>[]Tried(16) => ~[]<><<ConnectBegin>>_vars \/ []<><<Resets>>_vars \/ <>[]Tried(17)
  <2>1. IInv /\ [Next]_vars /\ ~<<Resets>>_vars /\ Tried(17) => Tried(17)'
    BY AttemptsCount, StutterKeepsCount
  <2>2. IInv /\ [Next]_vars /\ ~<<Resets>>_vars /\ Tried(16) /\ <<ConnectBegin>>_vars => Tried(17)'
    BY AttemptsCount, StutterKeepsCount
  <2>3. QED
    BY <2>1, <2>2, Invariance, PTL DEF Spec
<1>18. Spec /\ <>[]Tried(17) => ~[]<><<ConnectBegin>>_vars \/ []<><<Resets>>_vars \/ <>[]Tried(18)
  <2>1. IInv /\ [Next]_vars /\ ~<<Resets>>_vars /\ Tried(18) => Tried(18)'
    BY AttemptsCount, StutterKeepsCount
  <2>2. IInv /\ [Next]_vars /\ ~<<Resets>>_vars /\ Tried(17) /\ <<ConnectBegin>>_vars => Tried(18)'
    BY AttemptsCount, StutterKeepsCount
  <2>3. QED
    BY <2>1, <2>2, Invariance, PTL DEF Spec
<1>19. Spec /\ <>[]Tried(18) => ~[]<><<ConnectBegin>>_vars \/ []<><<Resets>>_vars \/ <>[]Tried(19)
  <2>1. IInv /\ [Next]_vars /\ ~<<Resets>>_vars /\ Tried(19) => Tried(19)'
    BY AttemptsCount, StutterKeepsCount
  <2>2. IInv /\ [Next]_vars /\ ~<<Resets>>_vars /\ Tried(18) /\ <<ConnectBegin>>_vars => Tried(19)'
    BY AttemptsCount, StutterKeepsCount
  <2>3. QED
    BY <2>1, <2>2, Invariance, PTL DEF Spec
<1>20. Spec /\ <>[]Tried(19) => ~[]<><<ConnectBegin>>_vars \/ []<><<Resets>>_vars \/ <>[]Tried(20)
  <2>1. IInv /\ [Next]_vars /\ ~<<Resets>>_vars /\ Tried(20) => Tried(20)'
    BY AttemptsCount, StutterKeepsCount
  <2>2. IInv /\ [Next]_vars /\ ~<<Resets>>_vars /\ Tried(19) /\ <<ConnectBegin>>_vars => Tried(20)'
    BY AttemptsCount, StutterKeepsCount
  <2>3. QED
    BY <2>1, <2>2, Invariance, PTL DEF Spec
<1>21. Spec /\ <>[]Tried(20) => ~[]<><<ConnectBegin>>_vars \/ []<><<Resets>>_vars \/ <>[]Tried(21)
  <2>1. IInv /\ [Next]_vars /\ ~<<Resets>>_vars /\ Tried(21) => Tried(21)'
    BY AttemptsCount, StutterKeepsCount
  <2>2. IInv /\ [Next]_vars /\ ~<<Resets>>_vars /\ Tried(20) /\ <<ConnectBegin>>_vars => Tried(21)'
    BY AttemptsCount, StutterKeepsCount
  <2>3. QED
    BY <2>1, <2>2, Invariance, PTL DEF Spec
<1>22. IInv /\ [Next]_vars /\ ~<<Resets>>_vars /\ Tried(21) => ~<<ConnectBegin>>_vars
  BY AttemptsCount, StutterKeepsCount, MaxRetryIsNat
<1>23. IInv => Tried(0)
  BY DEF IInv, TypeOK, Tried
<1>24. Spec => <>[]Tried(0)
  BY <1>23, Invariance, PTL
<1>25. Spec /\ <>[]Tried(21) => ~[]<><<ConnectBegin>>_vars \/ []<><<Resets>>_vars
  BY <1>22, Invariance, PTL DEF Spec
<1>26. Spec /\ <>[]Tried(0) => ~[]<><<ConnectBegin>>_vars \/ []<><<Resets>>_vars \/ <>[]Tried(7)
  BY <1>1, <1>2, <1>3, <1>4, <1>5, <1>6, <1>7, PTL
<1>27. Spec /\ <>[]Tried(7) => ~[]<><<ConnectBegin>>_vars \/ []<><<Resets>>_vars \/ <>[]Tried(14)
  BY <1>8, <1>9, <1>10, <1>11, <1>12, <1>13, <1>14, PTL
<1>28. Spec /\ <>[]Tried(14) => ~[]<><<ConnectBegin>>_vars \/ []<><<Resets>>_vars \/ <>[]Tried(21)
  BY <1>15, <1>16, <1>17, <1>18, <1>19, <1>20, <1>21, PTL
<1>29. QED
  BY <1>24, <1>25, <1>26, <1>27, <1>28, PTL

-----------------------------------------------------------------------------
(* Getting on line again.  While main() is off line with the network up it goes
   round between its loop, AzureManagerConnect and the hub's answer, and no round
   is free: each has one attempt more behind it. *)

\* What ends the rounds.
GotOn == azureConnected \/ Restarting \/ l4Status = "disconnected"

\* main() is after a connection and nothing has come of it.
Trying == main \in {"loop", "connect", "connecting"} /\ ~GotOn

(* Where a round can be: before azure_iot_hub_connect, in it, between CONNECTING
   and its return, under way, or answered with CONNACK. *)
Between  == Trying /\ hub = "disconnected" /\ main = "loop"
Asked    == Trying /\ hub = "disconnected" /\ main = "connect"
Begun    == Trying /\ hub = "disconnected" /\ main = "connecting"
Awaited  == Trying /\ hub = "connecting"
Answered == Trying /\ hub \in HubUp

\* A hub that never refuses a call outright does not in any boot.
LEMMA NeverRejects == ASSUME HubRejects = {FALSE} PROVE Spec => []~hubRejects
<1>1. Init => ~hubRejects
  BY DEF Init
<1>2. ~hubRejects /\ [Next]_vars => ~hubRejects'
  BY DEF Next, MainThread, Provision, NetworkConnect, NetworkConnected,
       NetworkTimeout, DpsStart, DpsDone, HubInit, EnterConnect, AlreadyConnected,
       ConnectBegin, ConnectOk, ConnectError, DpsThread, DpsReply, DpsGive,
       NetThread, L4Connected, L4ConnectedCallback, L4Disconnected, L4FatalError,
       Hub, Connack, ConnectFails, Ready, Lost, FotaDone, DirectMethod,
       Handlers, OnConnected, OnConnectionFailed, OnDisconnected, OnReady,
       OnFotaDone, OnDirectMethod, Handle, WorkQueues, DirectMethodHandler, RebootWork,
       Reboot, hubVars, vars
<1>3. QED
  BY <1>1, <1>2, PTL DEF Spec

\* An attempt is always somewhere in its round.
LEMMA RoundIsWhole ==
    ASSUME IInv, Trying
    PROVE  /\ Between \/ Asked \/ Begun \/ Awaited \/ Answered
           /\ Answered => hubEvent = "CONNECTED"
  BY DEF IInv, TypeOK, FlagFollowsHub, EventOrder, Trying, GotOn, HubUp,
         Between, Asked, Begun, Awaited, Answered

\* What a step of anybody does to the round.
LEMMA RoundSteps ==
    ASSUME IInv, Trying, [Next]_vars
    PROVE  /\ Between => Between' \/ Asked' \/ GotOn'
           /\ Asked => Asked' \/ GotOn' \/ ConnectBegin
           /\ Begun => Begun' \/ Asked' \/ Awaited' \/ GotOn'
           /\ Awaited => Awaited' \/ Answered' \/ Between' \/ Asked' \/ GotOn'
           /\ Awaited /\ Awaited' /\ hubEvent = "none" => hubEvent' = "none"
           /\ Awaited /\ Awaited' /\ HubThreadFree => HubThreadFree'
           /\ Answered => Answered' \/ GotOn'
<1>1. hub \in {"disconnected", "connecting"} \union HubUp
  BY DEF IInv, TypeOK
<1>2. CASE MainThread
  BY <1>1, <1>2 DEF IInv, EventOrder, Trying, GotOn, Restarting, HubUp, HubThreadFree,
         Between, Asked, Begun, Awaited, Answered,
         MainThread, Provision, NetworkConnect, NetworkConnected, NetworkTimeout,
         DpsStart, DpsDone, HubInit, EnterConnect, AlreadyConnected,
         ConnectBegin, ConnectOk, ConnectError, netVars, dpsVars, hubVars, mgrVars
<1>3. CASE DpsThread \/ NetThread
  BY <1>1, <1>3 DEF Trying, GotOn, Restarting, HubUp, HubThreadFree,
         Between, Asked, Begun, Awaited, Answered,
         DpsThread, DpsReply, DpsGive,
         NetThread, L4Connected, L4ConnectedCallback, L4Disconnected, L4FatalError,
         netVars, dpsVars, hubVars, mgrVars
<1>4. CASE Hub
  BY <1>1, <1>4 DEF IInv, FlagFollowsHub, EventOrder, Trying, GotOn, Restarting, HubUp,
         Between, Asked, Begun, Awaited, Answered, HubThreadFree,
         Hub, Connack, ConnectFails, Ready, Lost, FotaDone, DirectMethod, Raise,
         netVars, dpsVars, hubVars, mgrVars
<1>5. CASE Handlers
  BY <1>1, <1>5 DEF IInv, FlagFollowsHub, Trying, GotOn, Restarting, HubUp, HubThreadFree,
         Between, Asked, Begun, Awaited, Answered,
         Handlers, OnConnected, OnConnectionFailed, OnDisconnected, OnReady,
         OnFotaDone, OnDirectMethod, Handle, ScheduleReboot,
         netVars, dpsVars, hubVars, mgrVars
<1>6. CASE WorkQueues
  BY <1>1, <1>6 DEF Trying, GotOn, Restarting, HubUp, HubThreadFree,
         Between, Asked, Begun, Awaited, Answered,
         WorkQueues, DirectMethodHandler, RebootWork, ScheduleReboot,
         netVars, dpsVars, hubVars, mgrVars
<1>7. CASE Reboot
  BY <1>7 DEF Reboot, Trying, GotOn
<1>8. CASE UNCHANGED vars
  BY <1>8 DEF Trying, GotOn, Restarting, HubUp, HubThreadFree,
         Between, Asked, Begun, Awaited, Answered,
         netVars, dpsVars, hubVars, mgrVars, vars
<1>9. QED
  BY <1>2, <1>3, <1>4, <1>5, <1>6, <1>7, <1>8 DEF Next

\* What the step of the thread it is up to does to it.
LEMMA RoundServed ==
    ASSUME IInv, ~hubRejects, Trying
    PROVE  /\ Between /\ MainThread => ~Between'
           /\ Asked /\ MainThread => ~Asked'
           /\ Begun /\ MainThread => ~Begun'
           /\ hubEvent # "none" /\ Handlers => hubEvent' = "none"
           /\ hubEvent = "none" /\ DirectMethodHandler => HubThreadFree'
           /\ Awaited /\ (Connack \/ ConnectFails) => ~Awaited'
           /\ Answered /\ Handlers => GotOn'
<1>1. /\ Between /\ MainThread => main' # "loop"
      /\ Asked /\ MainThread => main' # "connect"
      /\ Begun /\ MainThread => main' # "connecting"
  BY DEF Between, Asked, Begun, HubUp,
         MainThread, Provision, NetworkConnect, NetworkConnected, NetworkTimeout,
         DpsStart, DpsDone, HubInit, EnterConnect, AlreadyConnected,
         ConnectBegin, ConnectOk, ConnectError, hubVars
<1>2. /\ hubEvent # "none" /\ Handlers => hubEvent' = "none"
      /\ hubEvent = "CONNECTED" /\ Handlers => azureConnected'
  BY DEF Handlers, OnConnected, OnConnectionFailed, OnDisconnected, OnReady,
         OnFotaDone, OnDirectMethod, Handle, MethodNames
<1>3. hubEvent = "none" /\ DirectMethodHandler => HubThreadFree'
  BY DEF DirectMethodHandler, HubThreadFree, hubVars
<1>4. Connack \/ ConnectFails => hub' # "connecting"
  BY DEF Connack, ConnectFails
<1>5. QED
  BY <1>1, <1>2, <1>3, <1>4, RoundIsWhole DEF Between, Asked, Begun, Awaited, GotOn

\* No round lasts for good: the main thread goes on to the library, the library
\* answers, and the MQTT thread handles what it raises; so either the device
\* gets on or another attempt begins.
LEMMA RoundEnds ==
    ASSUME HubRejects = {FALSE}
    PROVE  Spec /\ []StepsEnabled => [](Trying => <>GotOn \/ <><<ConnectBegin>>_vars)
<1> DEFINE I == IInv /\ ~hubRejects
           T == Trying
           B == Between
           A == Asked
           C == Begun
           W == Awaited
           U == Answered
           G == GotOn
           Silent == hubEvent = "none"
           Free == HubThreadFree
<1>1. /\ I /\ T => B \/ A \/ C \/ W \/ U
      /\ B \/ A \/ C \/ W \/ U => T
      /\ I /\ U => ~Silent
  BY RoundIsWhole DEF Between, Asked, Begun, Awaited, Answered
<1>2. /\ I /\ B /\ [Next]_vars => B' \/ A' \/ G'
      /\ I /\ A /\ [Next]_vars => A' \/ G' \/ <<ConnectBegin>>_vars
      /\ I /\ C /\ [Next]_vars => C' \/ A' \/ W' \/ G'
      /\ I /\ W /\ [Next]_vars => W' \/ U' \/ B' \/ A' \/ G'
      /\ I /\ W /\ W' /\ Silent /\ [Next]_vars => Silent'
      /\ I /\ W /\ W' /\ Free /\ [Next]_vars => Free'
      /\ I /\ U /\ [Next]_vars => U' \/ G'
  <2>1. UNCHANGED vars => (A => A')
    BY DEF Asked, Trying, GotOn, Restarting, netVars, dpsVars, hubVars, mgrVars, vars
  <2>2. QED
    BY <2>1, <1>1, RoundSteps
<1>3. /\ I /\ B /\ <<MainThread>>_vars => ~B'
      /\ I /\ A /\ <<MainThread>>_vars => ~A'
      /\ I /\ C /\ <<MainThread>>_vars => ~C'
      /\ I /\ W /\ ~Silent /\ <<Handlers>>_vars => Silent'
      /\ I /\ W /\ Silent /\ <<DirectMethodHandler>>_vars => Free'
      /\ I /\ W /\ <<Connack \/ ConnectFails>>_vars => ~W'
      /\ I /\ U /\ <<Handlers>>_vars => G'
  BY RoundServed DEF Between, Asked, Begun, Awaited, Answered
<1>4. I /\ StepsEnabled =>
        /\ B \/ A \/ C => ENABLED <<MainThread>>_vars
        /\ ~Silent => ENABLED <<Handlers>>_vars
        /\ Silent /\ ~Free => ENABLED <<DirectMethodHandler>>_vars
        /\ W /\ Free => ENABLED <<Connack \/ ConnectFails>>_vars
  <2>1. I /\ (B \/ A \/ C) => LoopReady
    BY DEF Between, Asked, Begun, Trying, GotOn, IInv, TypeOK, LoopReady
  <2>2. /\ Silent /\ ~Free => method # "none"
        /\ W => hub = "connecting"
    BY DEF HubThreadFree, Awaited
  <2>3. QED
    BY <2>1, <2>2, Zenon DEF StepsEnabled
<1>5. Spec => []I
  BY NeverRejects, Invariance, PTL
<1> HIDE DEF I, T, B, A, C, W, U, G, Silent, Free
<1>6. Spec /\ []StepsEnabled => [](A => <>G \/ <><<ConnectBegin>>_vars)
  BY <1>2, <1>3, <1>4, <1>5, PTL DEF Spec, Fairness
<1>7. Spec /\ []StepsEnabled => (B ~> A \/ G)
  BY <1>2, <1>3, <1>4, <1>5, PTL DEF Spec, Fairness
<1>8. Spec /\ []StepsEnabled => (U ~> G)
  BY <1>1, <1>2, <1>3, <1>4, <1>5, PTL DEF Spec, Fairness
<1>9. Spec /\ []StepsEnabled => (W ~> (W /\ Free) \/ U \/ B \/ A \/ G)
  <2>1. Spec /\ []StepsEnabled => (W ~> (W /\ Silent) \/ U \/ B \/ A \/ G)
    BY <1>2, <1>3, <1>4, <1>5, PTL DEF Spec, Fairness
  <2>2. Spec /\ []StepsEnabled => (W /\ Silent ~> (W /\ Free) \/ U \/ B \/ A \/ G)
    BY <1>2, <1>3, <1>4, <1>5, PTL DEF Spec, Fairness
  <2>3. QED
    BY <2>1, <2>2, PTL
<1>10. Spec /\ []StepsEnabled => (W /\ Free ~> U \/ B \/ A \/ G)
  BY <1>2, <1>3, <1>4, <1>5, PTL DEF Spec, Fairness
<1>11. Spec /\ []StepsEnabled => (C ~> A \/ W \/ G)
  BY <1>2, <1>3, <1>4, <1>5, PTL DEF Spec, Fairness
<1>12. Spec /\ []StepsEnabled => (T ~> A \/ G)
  BY <1>1, <1>5, <1>7, <1>8, <1>9, <1>10, <1>11, PTL
<1>13. Spec /\ []StepsEnabled => [](T => <>G \/ <><<ConnectBegin>>_vars)
  BY <1>6, <1>12, PTL
<1>14. QED
  BY <1>13 DEF T, G

\* While main() is trying nothing clears the counter.
LEMMA TryingKeepsCount ==
    ASSUME IInv, Trying, [Next]_vars PROVE (Trying' /\ ~Resets) \/ GotOn'
<1>1. connectionRetires \in Nat
  BY DEF IInv, TypeOK
<1>2. Trying' \/ GotOn'
  <2>1. ConnectBegin => Trying' \/ GotOn'
    BY DEF ConnectBegin, Trying, GotOn, Restarting
  <2>2. QED
    BY <2>1, RoundIsWhole, RoundSteps DEF Between, Asked, Begun, Awaited, Answered
<1>3. connectionRetires' >= connectionRetires \/ GotOn'
  BY <1>1 DEF Trying, GotOn, mgrVars, vars,
       Next, MainThread, Provision, NetworkConnect, NetworkConnected,
       NetworkTimeout, DpsStart, DpsDone, HubInit, EnterConnect, AlreadyConnected,
       ConnectBegin, ConnectOk, ConnectError, DpsThread, DpsReply, DpsGive,
       NetThread, L4Connected, L4ConnectedCallback, L4Disconnected, L4FatalError,
       Hub, Connack, ConnectFails, Ready, Lost, FotaDone, DirectMethod,
       Handlers, OnConnected, OnConnectionFailed, OnDisconnected, OnReady,
       OnFotaDone, OnDirectMethod, Handle, WorkQueues, DirectMethodHandler, RebootWork,
       Reboot
<1>4. connectionRetires' \in Nat
  BY NextIInv DEF IInv, TypeOK
<1>5. QED
  BY <1>1, <1>2, <1>3, <1>4 DEF Resets

\* So the rounds do not go on for ever.
LEMMA RoundsEnd ==
    ASSUME HubRejects = {FALSE}, MaxRetry <= 20
    PROVE  Spec /\ []StepsEnabled => (Trying ~> GotOn)
<1>1. Spec /\ []StepsEnabled => [](Trying => <>GotOn \/ <><<ConnectBegin>>_vars)
  BY RoundEnds
<1>2. Spec => ~[]<><<ConnectBegin>>_vars \/ []<><<Resets>>_vars
  BY NoEndlessRetries
<1>3. /\ IInv /\ Trying /\ [Next]_vars => Trying' \/ GotOn'
      /\ IInv /\ Trying /\ [Next]_vars /\ ~GotOn' => ~<<Resets>>_vars
  BY TryingKeepsCount
<1>4. QED
  BY <1>1, <1>2, <1>3, Invariance, PTL DEF Spec

\* With a hub that answers, a device that is off line while its network is up
\* gets on line again, restarts, or loses the network (Recovery), for every
\* retry budget up to the one it is shipped with.
THEOREM DeviceRecovers ==
    ASSUME HubRejects = {FALSE}, MaxRetry <= 20
    PROVE  Spec /\ []StepsEnabled => Recovery
<1> DEFINE Off == main = "loop" /\ l4Status = "connected" /\ ~azureConnected
           On == azureConnected \/ Restarting \/ l4Status = "disconnected"
           T == Trying
<1>1. IInv /\ Off => T \/ On
  BY DEF IInv, TypeOK, Trying, GotOn
<1>2. Spec /\ []StepsEnabled => (T ~> On)
  BY RoundsEnd DEF GotOn
<1> HIDE DEF Off, On, T
<1>3. Spec /\ []StepsEnabled => (Off ~> On)
  BY <1>1, <1>2, Invariance, PTL
<1>4. QED
  BY <1>3 DEF Off, On, Recovery

\* An image on trial stays on trial until it is confirmed; a restart rolls it back.
LEMMA TrialSteps ==
    ASSUME IInv, image = "trial", [Next]_vars
    PROVE  image' = "trial" \/ image' = "confirmed"
<1>1. CASE Reboot
  BY <1>1 DEF Reboot
<1>2. CASE ~Reboot
  BY <1>2 DEF Next, MainThread, Provision, NetworkConnect, NetworkConnected,
       NetworkTimeout, DpsStart, DpsDone, HubInit, EnterConnect, AlreadyConnected,
       ConnectBegin, ConnectOk, ConnectError, DpsThread, DpsReply, DpsGive,
       NetThread, L4Connected, L4ConnectedCallback, L4Disconnected, L4FatalError,
       Hub, Connack, ConnectFails, Ready, Lost, FotaDone, DirectMethod,
       Handlers, OnConnected, OnConnectionFailed, OnDisconnected, OnReady,
       OnFotaDone, OnDirectMethod, Handle, WorkQueues, DirectMethodHandler, RebootWork,
       imageVars, flash, vars
<1>3. QED
  BY <1>1, <1>2

\* Nothing but the restart itself ends one, and it reverts an image on trial, or
\* replaces it by the one staged over it, of which nothing is staged then.
LEMMA TrialReverts ==
    ASSUME IInv, image = "trial", Restarting, [Next]_vars
    PROVE  /\ Restarting' \/ image' = "confirmed" \/ (image' = "trial" /\ ~staged')
           /\ ~staged => Restarting' \/ image' = "confirmed"
<1>1. CASE Reboot
  BY <1>1 DEF Reboot, IInv, TypeOK
<1>2. CASE ~Reboot
  <2>1. ~Reboot /\ Restarting /\ [Next]_vars => Restarting'
    BY DEF IInv, TypeOK, SetupQuiet, Restarting,
       Next, MainThread, Provision, NetworkConnect, NetworkConnected,
       NetworkTimeout, DpsStart, DpsDone, HubInit, EnterConnect, AlreadyConnected,
       ConnectBegin, ConnectOk, ConnectError, DpsThread, DpsReply, DpsGive,
       NetThread, L4Connected, L4ConnectedCallback, L4Disconnected, L4FatalError,
       Hub, Connack, ConnectFails, Ready, Lost, FotaDone, DirectMethod,
       Handlers, OnConnected, OnConnectionFailed, OnDisconnected, OnReady,
       OnFotaDone, OnDirectMethod, Handle, WorkQueues, DirectMethodHandler, RebootWork,
       ScheduleReboot, netVars, dpsVars, hubVars, mgrVars, vars
  <2>2. QED
    BY <1>2, <2>1
<1>3. QED
  BY <1>1, <1>2

\* An update is staged only on line.
LEMMA StagedOnLine ==
    ASSUME IInv, ~staged, [Next]_vars PROVE ~staged' \/ azureConnected'
<1>1. CASE FotaDone
  BY <1>1 DEF FotaDone, Raise, HubThreadFree, mgrVars, HubUp, IInv, FlagFollowsHub
<1>2. CASE ~FotaDone
  BY <1>2 DEF Next, MainThread, Provision, NetworkConnect, NetworkConnected,
       NetworkTimeout, DpsStart, DpsDone, HubInit, EnterConnect, AlreadyConnected,
       ConnectBegin, ConnectOk, ConnectError, DpsThread, DpsReply, DpsGive,
       NetThread, L4Connected, L4ConnectedCallback, L4Disconnected, L4FatalError,
       Hub, Connack, ConnectFails, Ready, Lost, DirectMethod,
       Handlers, OnConnected, OnConnectionFailed, OnDisconnected, OnReady,
       OnFotaDone, OnDirectMethod, Handle, WorkQueues, DirectMethodHandler, RebootWork,
       Reboot, flash, vars
<1>3. QED
  BY <1>1, <1>2

\* With a hub that answers, an image on trial is confirmed or rolled back unless
\* the network is to blame (TrialImageResolved): setup() ends, then the retries do.
THEOREM TrialImageIsResolved ==
    ASSUME HubRejects = {FALSE}, MaxRetry <= 20
    PROVE  Spec /\ []StepsEnabled => TrialImageResolved
<1> DEFINE Trial == image = "trial"
           Confirmed == image = "confirmed"
           Resolved == azureConnected \/ image = "confirmed" \/ l4Status = "disconnected"
           Setup == main \in {"provision", "netConnect", "netWait", "dps", "dpsWait", "hubInit"}
           Loop == main = "loop"
           R == Restarting
           T == Trying
           Unstaged == ~staged
<1>1. /\ IInv /\ ~Resolved => Setup \/ T \/ R
      /\ IInv /\ Loop /\ ~Resolved => T \/ R
      /\ Confirmed => Resolved
  BY DEF IInv, TypeOK, MainSteps, Trying, GotOn, Restarting
<1>2. /\ IInv /\ Trial /\ [Next]_vars => Trial' \/ Confirmed'
      /\ IInv /\ Trial /\ R /\ [Next]_vars => R' \/ Confirmed' \/ (Trial /\ Unstaged)'
      /\ IInv /\ Trial /\ Unstaged /\ R /\ [Next]_vars => R' \/ Confirmed'
      /\ IInv /\ Unstaged /\ [Next]_vars => Unstaged' \/ Resolved'
  BY TrialSteps, TrialReverts, StagedOnLine
<1>3. Spec /\ []StepsEnabled => []<>~R
  BY RestartsComplete
<1>4. Spec /\ []StepsEnabled => (Setup ~> Loop \/ R)
  BY SetupMovesOn
<1>5. Spec /\ []StepsEnabled => (T ~> Resolved \/ R)
  <2>1. Spec /\ []StepsEnabled => (T ~> GotOn)
    BY RoundsEnd
  <2>2. GotOn => Resolved \/ R
    BY DEF GotOn
  <2> HIDE DEF T, Resolved, R
  <2>3. QED
    BY <2>1, <2>2, PTL
<1> HIDE DEF Trial, Confirmed, Resolved, Setup, Loop, R, T, Unstaged
<1>6. Spec /\ []StepsEnabled => (Trial /\ Unstaged /\ R ~> Resolved)
  BY <1>1, <1>2, <1>3, Invariance, PTL DEF Spec
<1>7. Spec /\ []StepsEnabled => (Trial /\ Unstaged /\ Setup ~> (Trial /\ Unstaged /\ (Loop \/ R)) \/ Resolved)
  BY <1>1, <1>2, <1>4, Invariance, PTL DEF Spec
<1>8. Spec /\ []StepsEnabled => (Trial /\ Unstaged /\ T ~> (Trial /\ Unstaged /\ R) \/ Resolved)
  BY <1>1, <1>2, <1>5, Invariance, PTL DEF Spec
<1>9. Spec /\ []StepsEnabled => (Trial /\ Unstaged ~> Resolved)
  BY <1>1, <1>6, <1>7, <1>8, Invariance, PTL
<1>10. Spec /\ []StepsEnabled => (Trial /\ R ~> (Trial /\ Unstaged) \/ Resolved)
  BY <1>1, <1>2, <1>3, Invariance, PTL DEF Spec
<1>11. Spec /\ []StepsEnabled => (Trial /\ Setup ~> (Trial /\ (Loop \/ R)) \/ Resolved)
  BY <1>1, <1>2, <1>4, Invariance, PTL DEF Spec
<1>12. Spec /\ []StepsEnabled => (Trial /\ T ~> (Trial /\ R) \/ Resolved)
  BY <1>1, <1>2, <1>5, Invariance, PTL DEF Spec
<1>13. Spec /\ []StepsEnabled => (Trial ~> Resolved)
  BY <1>1, <1>9, <1>10, <1>11, <1>12, Invariance, PTL
<1>14. QED
  BY <1>13 DEF Trial, Resolved, TrialImageResolved

-----------------------------------------------------------------------------
(* AzureManagerConnect comes back unless the hub refuses its calls outright: in the
   loop of AzureManagerConnect main waits for the end of an attempt that is under
   way, and then begins or finds one. *)
Calling == main \in {"connect", "connecting"} /\ ~Restarting
Waits  == Calling /\ hub = "connecting"
Finds  == Calling /\ hub \in HubUp
Begins == Calling /\ hub = "disconnected"
Back   == main = "loop" \/ Restarting

\* What a step of anybody does to a call: once the library is disconnected nothing
\* but main connects it again, and nothing clears the counter meanwhile.
LEMMA CallSteps ==
    ASSUME IInv, Calling, [Next]_vars
    PROVE  /\ Waits \/ Finds \/ Begins
           /\ Waits => Waits' \/ Finds' \/ Begins' \/ Back'
           /\ Waits /\ Waits' /\ hubEvent = "none" => hubEvent' = "none"
           /\ Waits /\ Waits' /\ HubThreadFree => HubThreadFree'
           /\ Finds => Finds' \/ Begins' \/ Back'
           /\ Begins => Begins' \/ Back'
           /\ Begins => Back' \/ connectionRetires' >= connectionRetires
<1>1. /\ hub \in {"disconnected", "connecting"} \union HubUp
      /\ connectionRetires \in Nat
  BY DEF IInv, TypeOK
<1>2. CASE MainThread
  BY <1>1, <1>2 DEF IInv, EventOrder, Calling, Waits, Finds, Begins, Back,
         Restarting, HubUp, HubThreadFree,
         MainThread, Provision, NetworkConnect, NetworkConnected, NetworkTimeout,
         DpsStart, DpsDone, HubInit, EnterConnect, AlreadyConnected,
         ConnectBegin, ConnectOk, ConnectError, netVars, dpsVars, hubVars, mgrVars
<1>3. CASE DpsThread \/ NetThread
  BY <1>1, <1>3 DEF Calling, Waits, Finds, Begins, Back, Restarting, HubUp, HubThreadFree,
         DpsThread, DpsReply, DpsGive,
         NetThread, L4Connected, L4ConnectedCallback, L4Disconnected, L4FatalError,
         netVars, dpsVars, hubVars, mgrVars
<1>4. CASE Hub
  BY <1>1, <1>4 DEF Calling, Waits, Finds, Begins, Back, Restarting, HubUp, HubThreadFree,
         Hub, Connack, ConnectFails, Ready, Lost, FotaDone, DirectMethod, Raise,
         netVars, dpsVars, hubVars, mgrVars
<1>5. CASE Handlers
  BY <1>1, <1>5 DEF IInv, EventOrder, Calling, Waits, Finds, Begins, Back,
         Restarting, HubUp, HubThreadFree,
         Handlers, OnConnected, OnConnectionFailed, OnDisconnected, OnReady,
         OnFotaDone, OnDirectMethod, Handle, ScheduleReboot,
         netVars, dpsVars, hubVars, mgrVars
<1>6. CASE WorkQueues
  BY <1>1, <1>6 DEF Calling, Waits, Finds, Begins, Back, Restarting, HubUp, HubThreadFree,
         WorkQueues, DirectMethodHandler, RebootWork, ScheduleReboot,
         netVars, dpsVars, hubVars, mgrVars
<1>7. CASE Reboot
  BY <1>7 DEF Reboot, Calling
<1>8. CASE UNCHANGED vars
  BY <1>1, <1>8 DEF Calling, Waits, Finds, Begins, Back, Restarting, HubUp, HubThreadFree,
         netVars, dpsVars, hubVars, mgrVars, vars
<1>9. QED
  BY <1>2, <1>3, <1>4, <1>5, <1>6, <1>7, <1>8 DEF Next

\* What the step of the thread it is up to does to it.
LEMMA CallServed ==
    ASSUME IInv, ~hubRejects, Calling
    PROVE  /\ Finds /\ MainThread => Back'
           /\ Begins /\ main = "connect" /\ MainThread => ConnectBegin
           /\ Begins /\ main = "connecting" /\ MainThread => main' = "connect" \/ Back'
           /\ Waits => main = "connect"
           /\ Finds => main = "connect"
  BY DEF IInv, EventOrder, Calling, Finds, Begins, Waits, Back, HubUp,
         MainThread, Provision, NetworkConnect, NetworkConnected, NetworkTimeout,
         DpsStart, DpsDone, HubInit, EnterConnect, AlreadyConnected,
         ConnectBegin, ConnectOk, ConnectError

\* Only the main thread ends main's own wait.
LEMMA OnlyMainMoves ==
    ASSUME IInv, Calling, [Next]_vars PROVE MainThread \/ main' = main \/ Back'
  BY DEF Calling, Next, DpsThread, DpsReply, DpsGive,
       NetThread, L4Connected, L4ConnectedCallback, L4Disconnected, L4FatalError,
       Hub, Connack, ConnectFails, Ready, Lost, FotaDone, DirectMethod,
       Handlers, OnConnected, OnConnectionFailed, OnDisconnected, OnReady,
       OnFotaDone, OnDirectMethod, Handle, WorkQueues, DirectMethodHandler, RebootWork,
       Reboot, vars

\* With a hub that never refuses a call outright, and for every retry budget up to
\* the one it is shipped with, AzureManagerConnect comes back (ConnectReturns):
\* refusals alone can keep it.
THEOREM ConnectComesBack ==
    ASSUME HubRejects = {FALSE}, MaxRetry <= 20
    PROVE  Spec /\ []StepsEnabled => ConnectReturns
<1> DEFINE I == IInv /\ ~hubRejects
           Called == main = "connect"
           C == Calling
           W == Waits
           F == Finds
           B == Begins
           E == Back
           Silent == hubEvent = "none"
           Free == HubThreadFree
<1>1. /\ I /\ Called => C \/ E
      /\ I /\ C => W \/ F \/ B
      /\ W \/ F \/ B => C
      /\ I /\ (W \/ F) => Called
  <2>1. IInv /\ C => W \/ F \/ B
    BY DEF IInv, TypeOK, Calling, Waits, Finds, Begins
  <2>2. QED
    BY <2>1, CallServed DEF Calling, Waits, Finds, Begins, Back
<1>2. /\ I /\ W /\ [Next]_vars => W' \/ F' \/ B' \/ E'
      /\ I /\ W /\ W' /\ Silent /\ [Next]_vars => Silent'
      /\ I /\ W /\ W' /\ Free /\ [Next]_vars => Free'
      /\ I /\ F /\ [Next]_vars => F' \/ B' \/ E'
      /\ I /\ B /\ [Next]_vars => B' \/ E'
  BY <1>1, CallSteps
<1>3. /\ I /\ W /\ ~Silent /\ <<Handlers>>_vars => Silent'
      /\ I /\ W /\ Silent /\ <<DirectMethodHandler>>_vars => Free'
      /\ I /\ W /\ <<Connack \/ ConnectFails>>_vars => ~W'
      /\ I /\ F /\ <<MainThread>>_vars => E'
  <2>1. /\ ~Silent /\ Handlers => Silent'
        /\ Silent /\ DirectMethodHandler => Free'
        /\ Connack \/ ConnectFails => hub' # "connecting"
    BY DEF Handlers, OnConnected, OnConnectionFailed, OnDisconnected, OnReady,
           OnFotaDone, OnDirectMethod, Handle, MethodNames,
           DirectMethodHandler, HubThreadFree, hubVars, Connack, ConnectFails
  <2>2. hub' # "connecting" => ~W'
    BY DEF Waits
  <2>3. QED
    BY <2>1, <2>2, <1>1, CallServed
<1>4. /\ I /\ B /\ Called /\ [Next]_vars /\ ~<<ConnectBegin>>_vars => Called' \/ E'
      /\ I /\ B /\ ~Called /\ <<MainThread>>_vars => Called' \/ E'
      /\ I /\ B /\ Called /\ <<MainThread>>_vars => <<ConnectBegin>>_vars
  <2>1. B /\ ~Called => main = "connecting"
    BY DEF Begins, Calling
  <2>2. /\ I /\ B /\ Called /\ MainThread => ConnectBegin
        /\ I /\ B /\ ~Called /\ MainThread => Called' \/ E'
    BY <2>1, <1>1, CallServed
  <2>3. I /\ B /\ Called /\ [Next]_vars => MainThread \/ Called' \/ E'
    BY <1>1, OnlyMainMoves
  <2>4. UNCHANGED vars => (Called => Called')
    BY DEF vars
  <2>5. QED
    BY <2>2, <2>3, <2>4
<1>5. I /\ B /\ [Next]_vars /\ ~E' => ~<<Resets>>_vars
  <2>1. IInv /\ IInv' => connectionRetires \in Nat /\ connectionRetires' \in Nat
    BY DEF IInv, TypeOK
  <2>2. QED
    BY <2>1, <1>1, CallSteps, NextIInv DEF Resets
<1>6. I /\ StepsEnabled =>
        /\ F \/ B => ENABLED <<MainThread>>_vars
        /\ ~Silent => ENABLED <<Handlers>>_vars
        /\ Silent /\ ~Free => ENABLED <<DirectMethodHandler>>_vars
        /\ W /\ Free => ENABLED <<Connack \/ ConnectFails>>_vars
  <2>1. I /\ (F \/ B) => LoopReady
    BY <1>1 DEF Finds, Begins, Calling, LoopReady
  <2>2. /\ Silent /\ ~Free => method # "none"
        /\ W => hub = "connecting"
    BY DEF HubThreadFree, Waits
  <2>3. QED
    BY <2>1, <2>2, Zenon DEF StepsEnabled
<1>7. Spec => []I
  BY NeverRejects, Invariance, PTL
<1>8. Spec => ~[]<><<ConnectBegin>>_vars \/ []<><<Resets>>_vars
  BY NoEndlessRetries
<1> HIDE DEF I, Called, C, W, F, B, E, Silent, Free
<1>9. Spec /\ []StepsEnabled => (B ~> E)
  BY <1>2, <1>4, <1>5, <1>6, <1>7, <1>8, PTL DEF Spec, Fairness
<1>10. Spec /\ []StepsEnabled => (F ~> B \/ E)
  BY <1>2, <1>3, <1>6, <1>7, PTL DEF Spec, Fairness
<1>11. Spec /\ []StepsEnabled => (W ~> (W /\ Silent) \/ F \/ B \/ E)
  BY <1>2, <1>3, <1>6, <1>7, PTL DEF Spec, Fairness
<1>12. Spec /\ []StepsEnabled => (W /\ Silent ~> (W /\ Free) \/ F \/ B \/ E)
  BY <1>2, <1>3, <1>6, <1>7, PTL DEF Spec, Fairness
<1>13. Spec /\ []StepsEnabled => (W /\ Free ~> F \/ B \/ E)
  BY <1>2, <1>3, <1>6, <1>7, PTL DEF Spec, Fairness
<1>14. Spec /\ []StepsEnabled => (Called ~> E)
  BY <1>1, <1>7, <1>9, <1>10, <1>11, <1>12, <1>13, PTL
<1>15. QED
  BY <1>14 DEF Called, E, Back, ConnectReturns
=============================================================================
