# PAM8053 in TLA+

Models, checks and proofs of the PAM8053 firmware (`src/`, Zephyr / nRF Connect
SDK, C): an alarm and heating controller that is provisioned over a serial line,
joins Azure IoT Hub through the device provisioning service (DPS), takes its
configuration from a device twin and sends telemetry.

    cd tla
    tlc -config AzureConnection.cfg MCAzureConnection    # and so on, see "Runs"
    tlapm AzureConnectionProofs.tla                      # and so on, see "Proofs"

## 1. The system

`main.c` ties the parts together. `setup()` provisions the device, connects to
LTE, registers with DPS and starts the timers; `main()` then loops for ever:
connect if off line, send the telemetry whose timer expired, run the thermostat.
Everything else runs on other threads or in interrupts:

| runs on | code | touches |
|---|---|---|
| main thread | `setup`, `main`, `AzureManagerConnect`, `NrfProvisioningAzureRunProvisioningCheck` | everything |
| net_mgmt thread | L4 and connectivity callbacks | link status, semaphore, restart |
| DPS thread | `dps_handler` | verdict, semaphore |
| MQTT thread | `azure_event_handler`, twin callback | flag, retry counter, twin struct, timers, relays |
| application work queue | `direct_method_handler` | the reboot work |
| system work queue | `reboot_work_fn`, ADC sampling | restart, alarm state |
| interrupts | `serialCb`, timers, buttons | line queue, telemetry flags |

There are no locks. Semaphores order the start-up; the rest communicates through
globals.

### Components

| component | state | operations | what makes it correct |
|---|---|---|---|
| boot and main loop (`main.c`) | `azureConnected`, telemetry flags, timers | `setup`, the loop, the callbacks | setup ends; the loop is never stuck; heartbeats keep coming |
| Azure manager (`azureManager.c`) | `connectionRetires`, DPS verdict and semaphore, method data, reboot work | init, connect, hub events, direct methods | the flag follows the hub; retries bounded and restored; updates confirmed or rolled back unless flash fails; Reboot honoured |
| L4 connection manager | `network_connected_sem`, status | network callbacks, connect | setup is woken; status follows the network |
| device reboot | - | two delayed restarts | a restart begun is completed |
| device twin (`pam8053AzureDeviceTwin.c`) | `pam8053DtStruct`, `twinRxAndTx` | document received, report | what was told is what is done, and nothing unreported is |
| relay control | two pins | on, off | follows twin and thermostat |
| Zigbee thermostat | a reading nobody writes | `GetTemp` | - |
| device settings (`deviceSettings.c`) | flash keys, RAM copies, spans | load, get, save | RAM and flash agree; what was saved is found |
| provisioning (`nrfProvisioningAzure.c`) | line queue, text buffer, menu state, modem credentials | check, ask, confirm, write | the identity handed over is the stored one; ends; nothing is lost by itself |
| universal alarm inputs (`adcDts.c`, `universalAlarmInput.c`) | one sample buffer, values, NO/NC mode, verdicts | init, mode, start, sampling work | main has heard what was sampled, of the right input; an alarm is raised |
| indicator (`indicatorModule.c`) | state and pin per LED, two toggles | start, blink, off, two timer interrupts | off is dark; blinking goes on |
| buttons (`buttonModule.c`) | edge latch, callback | start, edge, interrupt | the last event told is the level |
| telemetry (`main.c`, the report of the twin) | cJSON trees in one heap, `telemetryBuffer` | create, attach, print, delete, send | memory comes back; what is sent is whole and new |
| modem communicator | none | AT queries | - |
| RS485 code panel, energy meter, self test | headers only | - | - |

### What is hard here

* **Interleaving.** The hub library changes its state, then calls the handler
  that sets the flag `main()` decides by; the twin callback restarts timers that
  may expire meanwhile; a reboot sleeps 10 or 30 s with all threads running.
* **Ordering.** Lines typed to one question are read by the next one; twin and
  thermostat both command relay 1.
* **Failure.** DPS, network, hub, flash, modem, ADC and memory may each fail, and
  most results are only logged or not looked at. Power may go at any step of
  provisioning. Two threads build messages in one heap.
* **Liveness.** `setup()` waits on other threads, `AzureManagerConnect` and
  `decodePemFiles` loop until something happens.

`PROJECT.json` lists each hazard with its line and the properties that cover it.

## 2. The modules

    ConnectionSupervisor   what the connection half promises (abstract)
      ^ refined by
    AzureConnection        setup, connecting, events, updates, restarts
      ^ AzureConnectionProofs, MCAzureConnection
    TwinRegister           what the twin promises the cloud (abstract)
      ^ refined by
    DeviceTwin             document -> report -> timers, relays; the main loop
      ^ DeviceTwinProofs, MCDeviceTwin
    DeviceSettings         flash keys and RAM copies (operators)
      ^ extended by
    Provisioning           operator, line queue, menu, credentials, power
      ^ ProvisioningProofs, MCProvisioning; refines
    IdentityStore          what provisioning promises main() (abstract)
    AlarmInput, Indicator, Buttons
      ^ composed by
    LocalIO                the first part of setup(), everything running under it
      ^ LocalIOProofs, MCLocalIO
    Telemetry              heartbeat and twin report, two threads and one heap
      ^ TelemetryProofs, MCTelemetry

The definitions whose name extends that of another one, such as
`ConnectBeginOneTooMany` before `ConnectBegin`, are plausible mistakes in the
code. No `Next` contains them; each shows that a property notices its mistake.

### AzureConnection

`main` is the main thread's program counter, from `provision` through the waits
of `setup()` to `loop` (top of `main()`'s loop), `connect` (top of
`AzureManagerConnect`'s loop) and `connecting` (inside `azure_iot_hub_connect`,
after `CONNECTING` was raised). `net`, `dps` and `hubEvent` play that part for
the net_mgmt, DPS and MQTT threads: an event is raised in one step and handled in
a later one, so every other thread can run between the library's change and
`azure_event_handler`. `method` and `rebootWork` are the two work items.

`Reboot` clears RAM; `image` and `staged` stay, and MCUboot runs a staged image
on trial, and goes back to the old one if the trial was never confirmed.
`OnReady` confirms the running image, unless flash refuses: the result of
`boot_write_img_confirmed()` is ignored (`azureManager.c:214`), `READY` goes on and
an update may then be staged over the image to go back to. `confirmError` remembers
that the image is on trial for this reason; it is only observed.
A restart is a phase (`Restarting`), not a step: all threads go on.

Of the hub library, whose source is not here, we assume what the firmware relies
on: one handler at a time; a `READY` only when connected; a failing connect may
return before or after `CONNECTING` was raised (`HubRejects`). The work queue
outranks the MQTT thread, so a method is handled before the next event is.
`azure_fota`'s progress is the one step `FotaDone`.

Left out: what telemetry and replies contain; that `main.c:545` passes the
literals `"PAM8002_1040"` and `"0ne008A3851"` to `AzureManagerInit` instead of
what provisioning returned (the buffers stand in a comment beside them), so the
two models meet only in "provisioning returned or failed". `Provision` takes for
granted that it does; `Provisioning!CheckEnds` and `CheckReturns` show when, and
`UnattendedCheckReturns` proves it of a boot nobody types at.

### DeviceTwin

One boot, from the end of `setup()`. `rx` is the MQTT thread's place in the twin
callback: the document is stored, reported, and only then applied, one timer and
one relay at a time. `twinSem` is taken without looking at the result and given
by a report that was sent, and by no other. A document is any subset of the fields;
intervals are integers stored modulo 65536.

A report that is sent need not be whole: the results of `cJSON_Add...` and of
`cJSON_PrintPreallocated` (`pam8053AzureDeviceTwin.c:349-385`) are not looked at, so
any field may be missing and the text may be cut so that it tells nothing, and the
code goes on as after a whole one. `ReportSent` lets `reported` be any part of the
struct; `Telemetry` has the allocations behind it one by one.

`updateTimer` is `k_timer_stop` and `k_timer_start`, two steps with the interrupt and
`main` in between. Timers expire at any moment while armed; with period 0 they
expire once. `main` is the loop of `main()` below the connection branch, with the
check, the transmission and the clearing of a flag apart. The power meter's call
(`PowerMeterCalled`) clears its flag and sends nothing.

A failed send makes `Pam8053TwinReportWork` delete `root` twice; that is
undefined, so `SendFails` goes on or stops the CPU (`halted`;
`CONFIG_RESET_ON_FATAL_ERROR=n`). `ConnectDone` takes `AzureManagerConnect` to
return, which is `ConnectComesBack` of `AzureConnectionProofs`, under the same
assumption on the hub.

`TwinRegister` is the abstract specification: settings are received, a report that
is true, though perhaps not of all of them, is sent, and then each is applied before
anything else is received; settings for which no report goes out are never applied.
Under the mapping (`wanted` the struct's intervals and relay 2, `told` what the
report had of them, `applied` the timers' periods and that relay, `todo` what the
callback has left) `DeviceTwin` implements it. Relay 1 is not in it: the thermostat
overrules it.

Left out: door code, door status, alarm names and priorities (stored, read by
nothing modelled); the serial number in the report, for which
`pam8053AzureDeviceTwin.c:274` passes a `char[32]` where
`DeviceSettingsGetSerialNo` expects a `DeviceSettingsBuffer *`.

### DeviceSettings and Provisioning

`DeviceSettings` has the three keys in flash (`nvs`), their RAM copies (`buffer`)
and whether a lookup succeeds (`found`, the span in `ctx`); `Load`, `Save` and
`PowerOff` are used by `Provisioning`'s actions. A save may fail in flash after
RAM was written. It keeps `Cut[k][text]`: 15 characters of a serial number or device
id and 12 of a scope id, cut off without a word if the text is longer.

`Provisioning` walks `item` through three settings and four credentials; `phase`
is the place within an item: `check` (found already? change it?), `ask` and
`confirm` (the two states of `askForCredentials`). `Type` is the UART interrupt,
and may happen at any step while it is enabled; the queue is never flushed.
`Letters` and `Sizes` are the only things the code tests of a line.
`main()` gives the operator 0 s to say that he wants a change
(`timeToChangeProv`, `main.c:80`), so an empty queue means "keep" at once; `ask`
and `confirm` wait one minute, which is a timeout that may happen whenever the
queue is empty. `modem` collects the credentials the modem accepted, also while
the wrong ones are read: `atCommandCmngRead` looks at its buffer even if the
command failed, so it may find anything. `AcceptMalformed` is `decodePemFiles` on
a text without twice ten dashes: it reads past the end, so it ends or does not.

`IdentityStore` is the abstract specification: a boot reads what can be read, once,
and then each key is handed over as it was read, or is changed, cached and handed
over in one step and kept unless flash fails; the power may go at any time. The
menu, the queue and the operator are gone; the mapping is `nvs`, `buffer`, `out`.

Settings of up to 64 characters are let through (`nrfProvisioningAzure.c:122`), more
than a save keeps (`Overlong` texts) and more than `main()`'s buffers, into which the
whole text is copied, have room for (`Room`; a scope id of 12 characters is kept, but
its terminating zero is the thirteenth byte). `HandOver` is that `strcpy`: a text
without room may run over `main()`'s two other buffers, and a text put beside one
that is too long may be run over in turn (`Spoilt`), depending on where the linker put
them. `IdentityStore` says the same: such a key is given whole, kept in part, and may
spoil others.

Left out: what a text without room runs over besides `main()`'s other two buffers,
the text transformation of `decodePemFiles`, characters before they form a line.

### LocalIO: AlarmInput, Indicator, Buttons

`setup` is the main thread's place in the first part of `setup()`; whatever has
been started runs from then on.

`AlarmInput`: `adcSampleTimer` submits the work item (`submitted`), whose loop is
one step per channel (`channel`), so that contacts move and timers expire between
reads. `buf` is the one buffer of all channels: `ReadSucceeds` fills it (values
below zero become zero), `ReadFails` takes what is in it. `told` is what
`UniversalAlarmInputCb` was given last. The restart by direct method
(`reboot_work_fn`) runs on the same queue and, once it sleeps, nothing is sampled
(`queueTaken`). `UniversalAlarmInputInit` may fail; `setup()` cannot tell.

`Indicator`: a thread's two writes (`ledState`, then the pin) are two steps in
`IndicatorModuleLedOff`, marked by `turningOff`; the timers' callbacks are
interrupts and one step each. `Door` is `CodePanelStatusCb`, which `main.c` has
but registers nowhere yet, because `codePanel.c` is empty.

`Buttons`: an edge sets a latch, the interrupt clears it and calls, and the
callback reads the pin; the level may change at every point between. A pin that
cannot be read is told as pressed, since its error is not 0 (`misread`, only observed).

Left out: the value of the reference input (stored, never read), the control pins
of the inputs (active from `initCtrlGpio` on; setting them again changes nothing),
the error results of the LED pins.

### Telemetry

The heap is counted in cells: one for an object, one for its key and items. What
matters is where an allocation fails and what the caller does about it. `next` and
`part` are the object the report and the heartbeat are at; `mqttHeld`, `mainHeld`
and `others` are the cells in use, `lost` those nobody can free any more.
`FreedOnFailure` is what each of the report's early returns deletes: the objects
created before it and not deleted are lost. The heartbeat looks at no result:
`whole` tells whether something is missing, and `telemetryBuffer` keeps its old
text if there is no tree to print (`"old"`). After a failed send the report's
root is deleted a second time (`undefined`): from then on the CPU may fault and
what main prints may be garbage. What damaged free lists do beyond that is left
out, and so is the text of the messages.

## 3. Runs

| run | expects | shows |
|---|---|---|
| `AzureConnection` | pass | seven invariants and seven action and temporal properties below; refinement of `ConnectionSupervisor` |
| `DeviceTwin` | pass | types and two invariants, heartbeats continue, thermostat prevails; refinement of `TwinRegister` |
| `Provisioning` | pass | identity handed over, unattended boots, what a change costs, the check ends; refinement of `IdentityStore` |
| `LocalIO` | pass | alarms, LEDs and buttons show what is there, while `setup()` starts them |
| `Telemetry` | pass | memory is lost and messages are incomplete only after a shortage, and recover |
| `ConnectReturns` | violation | finding 1 |
| `HeartbeatStaysArmed` | violation | finding 2 |
| `RelayFollowsTwin` | violation | finding 3 |
| `ExitKeepsIdentity` | violation | finding 4 |
| `CredentialNeverErased` | violation | finding 5 |
| `CheckReturns` | violation | finding 6 |
| `SavedIsFound` | violation | finding 7 |

### Properties

*AzureConnection.* `RetryBudget`: never more than `MaxRetry` attempts in a row
without a restart under way. `FlagFollowsHub`: the flag differs from the
library's state by at most the event still to be handled, both ways.
`BudgetRestored`: a handled connection gives the whole budget back.
`HubNeedsAssignment`: only an assigned device uses the hub. `RollbackSafe`: no
update is staged over the image an unconfirmed one would go back to, unless flash
refused the confirmation that `READY` tried.
`RestartKept`: a restart that an update or the cloud asked for stays due until it
happens, whatever events, methods and lost links come between; it holds because
the work queue outranks the hub's thread. `NobodyStuck`: no thread waits for what
nobody is going to do, `setup()` for a semaphore (`DpsWaitServed`) or an event, a
method or a restart for its handler, nor `main()` off line for the network, the
hub library or the end of an attempt that nobody makes (`StepsEnabled`).
`SetupTerminates`, `Recovery`, `TrialImageResolved`, `RebootHonoured`,
`UpdateBooted`: what must eventually happen. `ImplementsSupervisor`: all of it
together is the four-phase cycle of `ConnectionSupervisor`, in which a restart ends
in a start and a start does not last for good.

*DeviceTwin.* `FreeMeansApplied`: a free semaphore means the last document is in
force, relay 1 up to the thermostat, and that the report told nothing else, whether
it told all of it or not; a report given up or refused leaves it taken.
`ActsAsReported`: however many documents were stored later and could not be reported,
the device does what its last report told, field by field; only the thermostat
overrules relay 1. What got lost on the way into the report is applied all the same,
and the cloud does not know it. `HeartbeatKeepsComing`: with the link up and a
positive interval, heartbeats do not stop, although expiries during one are lost and
documents stop and start the timer at any point. `HeatingWins`: with the shipped
reading of 0 degrees the thermostat has the last word on relay 1.
`ImplementsTwinRegister`: settings are applied only after a report was sent for them,
all of them, and before the next document.

There is nothing to say of the power meter's readings: a comment says its timer "is
used to send the energy meter readings at the specified interval" (`main.c:89`), but
the body of `TransmitEnergyMeterTelemtry` is commented out (`main.c:453-472`), so the
timer runs, its flag is set and cleared, and nothing is ever sent. No property claims
otherwise, and no run is needed to see it.

*Provisioning.* `HandedOverIsCached`: `main()` gets, key by key, the cached value
or nothing; once a text has run over its buffer, each key is spoilt or holds its own
text, of which the cached value is what a save keeps. `UnattendedIdentity` and
`UnattendedKeeps`: a boot nobody touches hands over all that could be read, if
`main()` has room for it, and changes nothing. `ChangesTakeLines`: a
setting changes only after as many lines of its own boot as its dialogue has (the
text and its `Y`, before them the `C` if a value was there to keep, one more that
was misunderstood if it is to be erased), however late they are read and whatever
the queue dropped. `CheckEnds`: it ends,
unless a typed credential hangs it. `ImplementsIdentityStore`: each step reads,
hands over or changes one key, or none; another one suffers only from a text
`main()` has no room for.

*LocalIO.* `ToldIsStored`: after the first round main has heard, of every input,
what was last sampled; neither the start-up order nor the two change filters
swallow anything. `NoForeignNews`: news of an input comes from its own contact or,
when its read failed, from the channel sampled before it. `AlarmRaised`: a contact
that stays in alarm is told again and again if its reads succeed again and again;
failing ones may end the alarm for a while only. `OffIsDark`, `BlinkersBlink`,
`RedLedBlinks`: LEDs switched off are dark wherever an interrupt came, blinking
ones go on and off for ever. `HeardIsLevel`: once no interrupt is outstanding the
last event told about a button is its level, however many edges shared one, or
"pressed" if the pin could not be read.

*Telemetry.* `NothingLost`: with room for both messages no interleaving loses
memory. `HeartbeatIsWhole`: nor does the hub get an incomplete heartbeat, or the
one before again. `HeartbeatsRecover`: when a shortage has passed, what it lost
leaves room and the link stays up, whole heartbeats come again. The model and the
mutants show the other side: each failing creation loses what the early return
does not delete, and a shortage sends an old or incomplete heartbeat.

### Bounds, and why they are enough

* `MaxRetry` 2 (20 in the code): the counter is incremented, reset and compared
  with the limit, nothing else. The theorems hold for every value.
* `Documents`: one with all fields, one whose only interval is 0 as a `uint16_t`
  (65536) and that switches relay 2 off, one with relay 1 only, one with no field.
  Each may follow each, with any part of the report lost. `Temperature` 0: the
  shipped reading, which nothing writes. The theorems hold for every set of documents
  and every temperature.
* `Strings` {empty, new, full}, `Overlong` {line}, `Pems` {pem}: settings are copied,
  cut off and compared with empty; texts that decode and texts that do not. `Room` is
  {empty, new}. "full" is a scope id of 12 characters, which a save keeps and `main()`
  has no room for; "line" is longer, and of it a save keeps "full" as scope id and
  "new" otherwise (`Cut`). The initial flash holds any combination a save leaves, so
  keeping, changing and entering all happen for each key.
* `Lines`: for each letter the code tests for one line, whose single letter is text as
  well, but for `C`, whose line is too long for a save and short enough to be let
  through; and a certificate, which is too long to be a setting.
* `QueueSize` 2 (5 in the code): empty, partly full and full, where the next line
  is dropped. `MaxTyped` 3 lines per boot: change, text, accept in any order and
  at any time, and every wrong sequence of that length; 4 for
  `CredentialNeverErased`, which needs a slip besides. `MaxPowerCuts` 1: each boot
  starts from any flash anyway; restarts by `main()` are not bounded.

* `LocalIO`: both inputs and the reference (`ChannelCount` 3), normally closed as
  `setup()` sets them. `Levels`: a closed contact reads a little below zero and an
  open one just over the threshold; input 0 opens and closes, input 1 stays closed
  and the reference open, so that a failed read takes either verdict from the
  channel before. One button: the callbacks do not overlap and share nothing that
  outlives one. The theorems hold for every level, both modes and all buttons.
* `Telemetry`: a heap of `Peak` + 2 cells, `Peak` being what both messages take
  together. `OthersUse` {0, 13}: with 0 the messages always fit, with 13 they share
  eleven cells, so that every creation and every attachment of either can be the
  one that fails, and more than once; each loses cells, until nothing fits. The
  theorems hold for every heap and every use.

Deadlock is checked in `AzureConnection` and `LocalIO`. It is not in `DeviceTwin`
and `Telemetry`, where the CPU may halt, nor in `Provisioning`, where the check
ends and no more is modelled.

### Fairness

* `AzureConnection`: threads that can run do, delays end, DPS answers or times
  out (`CONFIG_AZURE_IOT_HUB_DPS_TIMEOUT_SEC` in the library), a TCP/TLS attempt
  succeeds or fails. None of: the network comes, the hub stays, an event arrives.
* `DeviceTwin`: the callback goes on, armed timers expire, the loop runs. Expiring is
  strongly fair: a timer that documents stop and start again and again is not armed
  all the time, but `k_timer_start(.., K_NO_WAIT, ..)` has it expire at the next tick,
  and the stop before the next start comes only after another document and its
  report. No document has to come and the link need not stay.
* `Provisioning`: the main thread runs. Nobody has to type.
* `LocalIO`: `setup()` goes on, the timers expire and the work queue runs what is
  submitted. No contact, door or button has to move and no read has to succeed.
* `Telemetry`: the report goes on once a document came, and so does main; that the
  heartbeat is due again and again is `DeviceTwin!HeartbeatKeepsComing`. No
  document has to come, nothing has to be freed and the link need not stay.

`Recovery` and `TrialImageResolved` in run `AzureConnection` assume that
`azure_iot_hub_connect` gets as far as raising `CONNECTING` (`HubRejects` =
{FALSE}); `ConnectReturns` drops that.

## 4. Findings

1. `ConnectReturns` - an error of `azure_iot_hub_connect` before `CONNECTING` is
   retried every 250 ms for ever, uncounted; `main()`'s error branch is dead.
2. `HeartbeatStaysArmed` - the twin callback restarts the heartbeat with the
   twin's interval, which is 0 until a document has one (the default of 300 s is
   not used again) and for multiples of 65536. The timer then expires once more.
3. `RelayFollowsTwin` - a document whose report fails is stored and not applied.
4. `ExitKeepsIdentity` - leaving a change with `E` hands `main()` nothing for this
   boot, although the stored value is still there.
5. `CredentialNeverErased` - after an unknown answer the text is empty, but a `Y`
   still accepts it: the stored setting is erased.
6. `CheckReturns` - a credential that is not PEM need not let the check return.
7. `SavedIsFound` - `DeviceSettingsSaveSerialNo` does not set the span, so a first
   serial number is not found before the next boot.

## 5. Proofs

The proof modules prove for every value of the constants (every `MaxRetry`, all
sets of documents and temperatures, every set of lines, queue size and bound, any
room and any cut, any number of channels and buttons, every heap) what the runs show
on an instance. Assumptions are those named in the modules: constants are numbers, the
fields of a document are of the types the callback takes, lines have the shape the
code tests (a certificate is longer than a setting may be, a text too long for a save
is more than one character), a save keeps a whole text if `main()` has room for it and
some of every other but the empty one, the modes are the digital ones, the heap holds
both messages at once.

Five theorems assume more, in their statement. `NoEndlessRetries`, `DeviceRecovers`,
`TrialImageIsResolved` and `ConnectComesBack` have `MaxRetry <= 20`, and
`CheckComesToItsEnd` has `QueueSize <= 5`: every value up to the firmware's own
(`MAX_CONNECTION_RETRY`, `azureManager.c:21`; `uartMsgq`,
`nrfProvisioningAzure.c:44`), because a descent from an arbitrary value would need an
induction the provers cannot do (below). `HubRejects = {FALSE}`, in the second to
the fourth, is the assumption of the run `AzureConnection`; without it they are
false (`ConnectReturns`).

| module | safety | what must happen |
|---|---|---|
| `AzureConnectionProofs` | `TypeCorrect`, `RetriesBounded`, `FlagIsAccurate`, `BudgetIsRestored`, `AssignedBeforeHub`, `RollbackPreserved`, `DpsWaitIsServed`, `RestartIsKept`, `Refinement` | `SetupEnds`, `RebootIsHonoured`, `UpdateIsBooted`, `RestartsComplete`, `SupervisorImplemented`, `NoEndlessRetries`, `DeviceRecovers`, `TrialImageIsResolved`, `ConnectComesBack` |
| `DeviceTwinProofs` | `TypeCorrect`, `ReportIsKept`, `FreeTwinIsApplied`, `RelaysAreJustified`, `TwinRefinement` | `HeartbeatComes`, `HeatingReturns`, `ReportsAreApplied`, `TwinImplemented` |
| `ProvisioningProofs` | `TypeCorrect`, `NoMixedIdentity`, `UnattendedBoot`, `NothingChangesAlone`, `ChangesAreTyped`, `StoreRefinement` | `CheckProgresses`, `CheckComesToItsEnd`, `UnattendedCheckReturns` |
| `LocalIOProofs` | `TypeCorrect`, `NewsIsComplete`, `NewsIsFounded`, `OffStaysDark`, `ButtonsAreAccurate` | `AlarmIsRaised`, `LedsBlink`, `RedLedKeepsBlinking` |
| `TelemetryProofs` | `TypeCorrect`, `NoLeak`, `OnlyWholeHeartbeats`, `LossNeedsShortage` | `HeartbeatsComeBack` |

### Safety

Each module proves one inductive invariant `IInv` (`Init => IInv`, one step per
action, `Invariance`) and takes the properties from it.

* *AzureConnection.* The properties are not inductive alone.
  `BudgetRestored` and `FlagFollowsHub` need `EventOrder`: an event waits only
  together with the library state that raised it, so no stale CONNECTED or
  DISCONNECTED can be handled. `HubNeedsAssignment` needs `DpsOrder`: the semaphore
  is given after the verdict and once. `RollbackSafe` needs `ReadyConfirms`: when
  an update can finish, READY was handled, so the image is confirmed or the write of
  it failed; and both need `SetupQuiet`: nothing of
  the hub happens during setup. `RestartIsKept` and `DpsWaitIsServed` add `Served`:
  an event and a method are never pending together (`OneMethod`), so nothing can
  overwrite either, and an image that was downloaded has its restart on the way
  (`UpdateScheduled`). `Refinement` maps every step to a step of
  `ConnectionSupervisor` or a stutter (`NextRefines`), using `IInv`.
* *DeviceTwin.* Between `ReportSent` and the end of the callback the timers and
  relays are applied one by one; the invariant says, for each place of `rx`,
  which of them already follow the twin and that what was reported is true of the
  twin there (`Applying`), and that outside the application the device holds what the
  last report told (`HoldsReport`). `TwinRefinement` maps every step to one of
  `TwinRegister` with it. `RelaysAreJustified` is the same seen from the relays: what
  switches one is a document on which a report was sent, never against what that
  report told, or the thermostat; never a document that was only stored.
* *Provisioning.* `FreshStart`: until the first check RAM is clear and nothing was
  handed over. `ConfirmedFits`: while a setting is being confirmed, the text is
  one that is let through for a setting (or empty), so `Save` never stores a
  certificate. `HandedOverIsCached` is inductive with these: while no text runs over,
  a hand-over changes its own key only (`HandOverIsExact`), and a text that does is
  one of which a save keeps what the cached value is. `Untouched`:
  with nothing typed the queue is empty, the menu is never in `confirm`, and a
  lookup fails only for a key whose RAM copy is empty.
  `HandedOverInOrder`: with nothing typed the items passed were handed over.
  `StoreRefinement` needs `FreshStart`, for the one read of a boot, and that the
  text accepted is one let through. `ChangesAreTyped` needs an account of the lines that
  left the queue (`LinesArePaid`): how many a boot must have spent to be asking for
  an item, or to be waiting for its confirmation with a text that is, or is not,
  empty.
* *LocalIO.* `ToldIsStored` and `NoForeignNews` need the state inside a round:
  `BufferIsNeighbours` (the buffer holds what was stored for the channel sampled
  last, so a failed read can only copy the neighbour), `SamplingWaits` (no channel
  is read before the modes are set) and `FirstRound` (within the first round the
  channels passed have been told). `HeardIsLevel` needs `HeardAreListening`:
  callbacks do not overlap, and an edge of a button that was ever heard of is
  always latched.
* *Telemetry.* `ReportBound` and `HeartbeatBound` say how much each thread can hold
  at each of its steps; together they are at most `Peak`, so while the others leave
  that much (`Roomy`) there is always a free cell, no allocation fails, the tree has
  all the parts it should (`Growing`), and what is sent is whole (`Fresh`).

  `LossNeedsShortage` goes further and holds after a shortage as well: memory is
  lost only in a step without room, or where a part is attached to a heartbeat that
  is known to lack one (`MissingIsKnown`).

### What must happen

The prover takes `WF_vars(A)` as it stands and does not look into the `ENABLED` in
it. The liveness theorems therefore say where the guard of `A` comes in, in one of
two ways:

* `AzureConnectionProofs` proves `Spec /\ []StepsEnabled => ...`. `StepsEnabled`
  says of every thread that it can take a step where something is pending for it;
  the run `AzureConnection` checks it as part of `NobodyStuck`.
* The others have the fairness of `Spec` with the guard written out as premise,
  as in `HeartbeatRuns == []<>(halted \/ (main = "loop" /\ ~azureConnected)) \/
  []<><<Heartbeat>>_vars`: main is again and again where it has nothing to do, or it
  goes on again and again. `LoopRuns`, `CallbackRuns`, `FastTicks`, `SlowTicks`,
  `SetupGoesOn` and `MainRuns` are made the same way, and `HeartbeatRuns` of
  `DeviceTwinProofs`, where the fairness is strong: from some time on no expiry is due
  (`HeartbeatDue`), or the timer expires again and again. They follow from `Spec` if
  the guard is that the action is enabled; that step is not part of the proofs.
* `AlarmIsRaised` has no premise: the property itself says that reads succeed again
  and again. `NoEndlessRetries` and `CheckProgresses` have none either.

The two theorems about the end of the check also have `QuietOrRebooting`: unless the
device reboots again and again, lines and power cuts come to an end. That follows
from the bounds of the model, `MaxTyped` lines a boot and `MaxPowerCuts`, by the
induction that is not available; it is the "finitely many lines" of `CheckEnds`.

The arguments:

* `SetupEnds`: each place of `setup()` leads to the next, to the loop or to a
  restart; at the DPS wait `DpsWaitServed` says the thread will still give, so the
  verdict, good or bad, is followed by a give. `RebootIsHonoured` and
  `UpdateIsBooted` follow a request from the event over the method to the work item
  and the restart, each place being left only for the next (`Served`, `RestartKept`).
  `SupervisorImplemented` joins `SetupEnds` and `RestartsComplete`, as the liveness of
  `ConnectionSupervisor`, to `Refinement`.
* `NoEndlessRetries`: an attempt counts up, only a CONNACK or a restart counts down,
  and an attempt beyond the budget restarts. So attempts that go on for ever have
  the counter cleared again and again: one step for each value of the counter.
* `DeviceRecovers`: `Trying` is the state the property is about and all that main
  and the hub's thread pass through from there until it gets on. Nothing clears the
  counter in it (`TryingKeepsCount`), and one round of it, from finding the flag down
  over the attempt to the event that answers it, ends or begins another attempt
  (`RoundEnds`); by `NoEndlessRetries` the rounds run out. `RoundServed` needs that the
  hub does not refuse the call before it raised CONNECTING.
* `TrialImageIsResolved`: by `SetupEnds` a boot on trial gets to the loop, where
  `Trying` begins; what ends that without the network's fault is a connection, or a
  restart that takes the image back (`TrialReverts`).
* `ConnectComesBack`: a call of `AzureManagerConnect` waits for an attempt to end,
  begins one or finds the hub connected; the first two lead to another or to the
  return, and attempts run out as above.
* `HeartbeatComes`: the loop comes to its check for ever (`LoopGoesRound`) and a flag
  that is set stays set until the heartbeat is sent (`FlagSteps`). While it is not
  set, the timer is armed or in the middle of being restarted (`StoppedForReason`);
  the callback does not stay there (`StopsAreShort`), so clearing the flag late or
  restarting the timer can cost an expiry and never the last one. `ReportsAreApplied`: a report that was
  sent is followed by all four steps of its application; with `TwinRefinement` that is
  `TwinImplemented`.
* `CheckProgresses`: `Variant` counts lines to come, lines in the queue, items to go
  and steps within an item, weighted so that repeating a check or asking again costs
  a line and is a descent. `CheckComesToItsEnd` follows the same order without the
  sum: once nobody types, lines are only read, at most as many as the queue holds
  (`ReadsEnd`); once none is read, the seven items are only left for the next
  (`AdvancesEnd`); within an item that is not left, main goes from the check to the
  question and no further than its end (`StepsEnd`). In `UnattendedCheckReturns` there
  are no lines to read, so the queue may have any size.
* `AlarmIsRaised`: after every read of an input that succeeds `main()` knows the
  contact's verdict (`ReadIsTold`, from the part of the invariant behind
  `ToldIsStored`), by being told then or by having been told before.
* `LedsBlink`: a tick drives the pin with the toggle and turns the toggle, nobody
  else touches it, so two ticks give both levels. `RedLedKeepsBlinking` adds
  `LedRoles`: the door and `setup()` give each LED only states that are its own.
* `HeartbeatsComeBack`: with room nobody finds the heap full (`RoomIsFree`), so main
  goes through the ten places of a heartbeat in order (`PartsInOrder`); the one it is
  at may lack a part, the next one does not.

### What stays with TLC

* Everything about `ENABLED`: `StepsEnabled`, the half of `NobodyStuck` that
  `DpsWaitIsServed` does not prove, and the step from the `WF` of each `Spec` to the
  premises written out above.
* Retry budgets above 20 and queues of more than 5 lines in the five theorems named:
  following a descent as often as a constant says is induction with a temporal
  formula, and the induction theorems take an operator as a parameter, which the
  provers here cannot instantiate. The proofs take one step for each value instead.
* The seven findings: they are counterexamples. `ConnectComesBack` and
  `UnattendedCheckReturns` prove what two of them need: a hub that refuses calls, an
  operator that types.

## 6. Not modelled

* Modem communicator: AT formatting and parsing, no state.
* RS485, energy meter, self test: headers with empty sources.
* No caller in this build: `DeviceSettingsDelete`, `AzureManagerDisconnect`,
  `L4ConnectionManagerNetworkDisconnect`, `RelayControlInit` and `Start`,
  `deleteAzureProvisioning`, `readStoredProvisioning`, `AdcDtsTurnOff`,
  `AdcDtsGetSample`, the non-digital modes of `UniversalAlarmInputSetMode`,
  `IndicatorModuleLedOn`, `ButtonsHandlerStop`.
* What a message says: `CreateConnectionDataObject` and `CreateAlarmObject` are one
  object and its items each in `Telemetry`; the energy meter's telemetry is commented
  out in the code (section 3).

## 7. Plan

Done: connection, twin and main loop, settings and provisioning, each with an
abstract specification it is proved to implement; alarm inputs, LEDs and buttons
under `setup()`; the messages and their memory; one inductive invariant each, and
liveness, the latter up to the firmware's own values where it descends.

1. `PemDecode`: `decodePemFiles` as a function on short texts, against "spaces
   between header and footer become newlines", with the set of inputs it ends on,
   to replace the constant `Pems`.
2. `StepsEnabled` for `DeviceTwin`, `LocalIO` and `Telemetry`, so that their runs
   check the guards the liveness theorems write out, as that of `AzureConnection` does.
3. `Device`: `AzureConnection` composed with `DeviceTwin`'s loop, so that a stuck
   `AzureManagerConnect`, the thermostat and the heartbeat are seen together.
