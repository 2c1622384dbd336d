----------------------------- MODULE DeviceTwin -----------------------------
(***************************************************************************)
(* From a device twin document to timers and relays: the twin module       *)
(* (pam8053AzureDeviceTwin.c), main()'s callbacks and loop (main.c), the   *)
(* relays (relayControl.c) and the thermostat input (zigbeeManager.c).     *)
(*                                                                         *)
(* Threads: the MQTT thread (rx is its place in the twin callback), the    *)
(* timer interrupts, and main (variable main) below setup().  One boot is  *)
(* modelled; AzureConnection has the restarts.                             *)
(***************************************************************************)
EXTENDS Integers

CONSTANTS Documents,     \* the documents the cloud may send, once they are parsed
          Temperature    \* ZigbeeManagerGetTemp: latestTempReading as an int

ASSUME TemperatureIsInt == Temperature \in Int

VARIABLES
    twin,            \* pam8053DtStruct
    twinSem,         \* twinRxAndTx, K_SEM_DEFINE(.., 1, 1)
    rx,              \* the MQTT thread
    acked, reported, \* has a report been sent, and what the last one told
    halted,          \* the CPU stopped on a fatal error
    armed, period,   \* the two k_timers
    flag,            \* transmitHeartbeatTelemetry, transmitEnergyMeterReading
    relay,           \* what the relay pins were last told
    azureConnected,
    main             \* the main thread

timerVars == <<armed, period>>
twinVars  == <<twin, twinSem, rx, acked, reported>>
vars == <<twinVars, halted, timerVars, flag, relay, azureConnected, main>>

Timers == {"heartbeat", "powerMeter"}
Relays == {1, 2}
UInt16Modulus == 65536       \* the intervals are uint16_t
UInt16 == 0..(UInt16Modulus - 1)
InitialHeartbeat == 300      \* heartbeatSendInterval

Twins == [interval : [Timers -> UInt16], relay : [Relays -> BOOLEAN]]
NoTwin == [interval |-> [t \in Timers |-> 0], relay |-> [r \in Relays |-> FALSE]]

(* A document holds any of the fields, each of the expected type; the others
   are missing or of a type the callback does not take. *)
IsPartial(f, S, T) == DOMAIN f \subseteq S /\ f \in [DOMAIN f -> T]

ASSUME DocumentsAreTyped ==
    \A doc \in Documents : /\ IsPartial(doc.interval, Timers, Int)
                            /\ IsPartial(doc.relay, Relays, BOOLEAN)

(* A report holds fields of the struct; any of them may get lost. *)
IsReport(report) ==
    /\ DOMAIN report = {"interval", "relay"}
    /\ IsPartial(report.interval, Timers, UInt16)
    /\ IsPartial(report.relay, Relays, BOOLEAN)
Restricted(f, D) == [x \in D |-> f[x]]
ReportOf(tw, ts, rs) == [interval |-> Restricted(tw.interval, ts),
                         relay |-> Restricted(tw.relay, rs)]
NothingTold == ReportOf(NoTwin, {}, {})

RxSteps == {"idle", "report", "heartbeatStop", "heartbeatStart",
            "powerMeterStop", "powerMeterStart", "relay1", "relay2"}
MainSteps == {"loop", "connect", "heartbeat", "heartbeatSend",
              "powerMeter", "powerMeterCall", "thermostat"}

TypeOK ==
    /\ twin \in Twins
    /\ twinSem \in {0, 1}
    /\ rx \in RxSteps
    /\ acked \in BOOLEAN
    /\ IsReport(reported)
    /\ halted \in BOOLEAN
    /\ armed \in [Timers -> BOOLEAN]
    /\ period \in [Timers -> UInt16]
    /\ flag \in [Timers -> BOOLEAN]
    /\ relay \in [Relays -> BOOLEAN]
    /\ azureConnected \in BOOLEAN
    /\ main \in MainSteps

(* The end of setup(): both timers run, the power meter's with the interval
   of a twin nobody has written yet. *)
Init ==
    /\ twin = NoTwin
    /\ twinSem = 1
    /\ rx = "idle"
    /\ acked = FALSE
    /\ reported = NothingTold
    /\ halted = FALSE
    /\ armed = [t \in Timers |-> TRUE]
    /\ period = [t \in Timers |-> IF t = "heartbeat" THEN InitialHeartbeat ELSE 0]
    /\ flag = [t \in Timers |-> FALSE]
    /\ relay = [r \in Relays |-> FALSE]
    /\ azureConnected = FALSE
    /\ main = "loop"

-----------------------------------------------------------------------------
(* Nothing runs once the CPU has halted.

   The MQTT thread.  AzureManagerStatusCb runs on it too, between twin
   documents. *)
AzureStatus ==
    /\ ~halted
    /\ rx = "idle"
    /\ azureConnected' = ~azureConnected
    /\ UNCHANGED <<twinVars, halted, timerVars, flag, relay, main>>

StoredUntruncated(doc) ==
    [interval |-> [t \in Timers |-> IF t \in DOMAIN doc.interval
                                    THEN doc.interval[t]
                                    ELSE twin.interval[t]],
     relay |-> [r \in Relays |-> IF r \in DOMAIN doc.relay
                                 THEN doc.relay[r]
                                 ELSE twin.relay[r]]]

Stored(doc) ==
    [interval |-> [t \in Timers |-> IF t \in DOMAIN doc.interval
                                    THEN doc.interval[t] % UInt16Modulus
                                    ELSE twin.interval[t]],
     relay |-> [r \in Relays |-> IF r \in DOMAIN doc.relay
                                 THEN doc.relay[r]
                                 ELSE twin.relay[r]]]

(* Pam8053DeviceTwinCb: k_sem_take(K_NO_WAIT), whose result is not looked at,
   then the fields. *)
TwinReceived(doc) ==
    /\ ~halted
    /\ rx = "idle"
    /\ azureConnected
    /\ twinSem' = 0
    /\ twin' = Stored(doc)
    /\ rx' = "report"
    /\ UNCHANGED <<acked, reported, halted, timerVars, flag, relay, azureConnected, main>>

(* Pam8053TwinReportWork: out of memory for an object. *)
ReportAborted ==
    /\ ~halted
    /\ rx = "report"
    /\ rx' = "idle"
    /\ UNCHANGED <<twin, twinSem, acked, reported, halted, timerVars, flag, relay,
                   azureConnected, main>>

SendFailsGives ==
    /\ ~halted
    /\ rx = "report"
    /\ rx' = "idle"
    /\ twinSem' = 1
    /\ halted' \in BOOLEAN
    /\ UNCHANGED <<twin, acked, reported, timerVars, flag, relay, azureConnected, main>>

SendFailsApplies ==
    /\ ~halted
    /\ rx = "report"
    /\ rx' = "heartbeatStop"
    /\ halted' \in BOOLEAN
    /\ UNCHANGED <<twin, twinSem, acked, reported, timerVars, flag, relay,
                   azureConnected, main>>

(* azure_iot_hub_send fails: root is deleted a second time, which is undefined
   and may fault (CONFIG_RESET_ON_FATAL_ERROR=n); the semaphore is not given
   and main is not told. *)
SendFails ==
    /\ ~halted
    /\ rx = "report"
    /\ rx' = "idle"
    /\ halted' \in BOOLEAN
    /\ UNCHANGED <<twin, twinSem, acked, reported, timerVars, flag, relay,
                   azureConnected, main>>

(* The report is sent, whole or not: nobody looks at what the cJSON_Add* calls
   return, one of which leaves out a field when memory is short, nor at
   cJSON_PrintPreallocated, which cuts a text that jsonString has no room for, so
   that it tells nothing.  The code goes on in the same way. *)
ReportSent ==
    /\ ~halted
    /\ rx = "report"
    /\ acked' = TRUE
    /\ \E ts \in SUBSET Timers, rs \in SUBSET Relays : reported' = ReportOf(twin, ts, rs)
    /\ twinSem' = 1
    /\ rx' = "heartbeatStop"
    /\ UNCHANGED <<twin, halted, timerVars, flag, relay, azureConnected, main>>

-----------------------------------------------------------------------------
(* Pam80053AzureDeviceTwinCb, on the MQTT thread, one action per effect. *)

(* updateTimer is k_timer_stop and then k_timer_start, with interrupts and main
   in between.  The first expiry is immediate, the period is the interval. *)
StopTimer(t, at, then) ==
    /\ ~halted
    /\ rx = at
    /\ rx' = then
    /\ armed' = [armed EXCEPT ![t] = FALSE]
    /\ UNCHANGED <<twin, twinSem, acked, reported, halted, period, flag, relay,
                   azureConnected, main>>

StartTimer(t, at, then) ==
    /\ ~halted
    /\ rx = at
    /\ rx' = then
    /\ armed' = [armed EXCEPT ![t] = TRUE]
    /\ period' = [period EXCEPT ![t] = twin.interval[t]]
    /\ UNCHANGED <<twin, twinSem, acked, reported, halted, flag, relay,
                   azureConnected, main>>

UpdateHeartbeatTimerSwapped ==
    \/ StartTimer("heartbeat", "heartbeatStop", "heartbeatStart")
    \/ StopTimer("heartbeat", "heartbeatStart", "powerMeterStop")

UpdateHeartbeatTimer ==
    \/ StopTimer("heartbeat", "heartbeatStop", "heartbeatStart")
    \/ StartTimer("heartbeat", "heartbeatStart", "powerMeterStop")

UpdatePowerMeterTimer ==
    \/ StopTimer("powerMeter", "powerMeterStop", "powerMeterStart")
    \/ StartTimer("powerMeter", "powerMeterStart", "relay1")

SetRelay(r, at, then) ==
    /\ ~halted
    /\ rx = at
    /\ rx' = then
    /\ relay' = [relay EXCEPT ![r] = twin.relay[r]]
    /\ UNCHANGED <<twin, twinSem, acked, reported, halted, timerVars, flag,
                   azureConnected, main>>

SetRelay1 == SetRelay(1, "relay1", "relay2")
SetRelay2 == SetRelay(2, "relay2", "idle")

-----------------------------------------------------------------------------
(* The timer interrupts.  A k_timer with period 0 expires once. *)
TimerExpiresOnce(t) ==
    /\ ~halted
    /\ armed[t]
    /\ armed' = [armed EXCEPT ![t] = FALSE]
    /\ flag' = [flag EXCEPT ![t] = TRUE]
    /\ UNCHANGED <<twinVars, halted, period, relay, azureConnected, main>>

TimerExpires(t) ==
    /\ ~halted
    /\ armed[t]
    /\ armed' = [armed EXCEPT ![t] = period[t] > 0]
    /\ flag' = [flag EXCEPT ![t] = TRUE]
    /\ UNCHANGED <<twinVars, halted, period, relay, azureConnected, main>>

-----------------------------------------------------------------------------
(* The loop of main().  AzureManagerConnect is one wait here. *)
GoTo(at, then) ==
    /\ ~halted
    /\ main = at
    /\ main' = then
    /\ UNCHANGED <<twinVars, halted, timerVars, azureConnected>>

ConnectIfNeeded ==
    /\ \/ GoTo("loop", "heartbeat")
       \/ ~azureConnected /\ GoTo("loop", "connect")
    /\ UNCHANGED <<flag, relay>>

ConnectDone == GoTo("connect", "heartbeat") /\ UNCHANGED <<flag, relay>>

CheckFlag(t, at, call, then) ==
    /\ IF flag[t] THEN GoTo(at, call) ELSE GoTo(at, then)
    /\ UNCHANGED <<flag, relay>>

(* The flag is cleared after the call, and so are expiries that came meanwhile. *)
ClearFlag(t, call, then) ==
    /\ GoTo(call, then)
    /\ flag' = [flag EXCEPT ![t] = FALSE]
    /\ UNCHANGED relay

CheckHeartbeat == CheckFlag("heartbeat", "heartbeat", "heartbeatSend", "powerMeter")
HeartbeatSent == ClearFlag("heartbeat", "heartbeatSend", "powerMeter")

(* TransmitEnergyMeterTelemtry sends nothing: the body is commented out. *)
CheckPowerMeter == CheckFlag("powerMeter", "powerMeter", "powerMeterCall", "thermostat")
PowerMeterCalled == ClearFlag("powerMeter", "powerMeterCall", "thermostat")

ThermostatOffOnly ==
    /\ GoTo("thermostat", "loop")
    /\ relay' = [relay EXCEPT ![1] = @ /\ Temperature <= 22]
    /\ UNCHANGED flag

Thermostat ==
    /\ GoTo("thermostat", "loop")
    /\ relay' = [relay EXCEPT ![1] = \/ Temperature < 18
                                     \/ @ /\ Temperature <= 22]
    /\ UNCHANGED flag

-----------------------------------------------------------------------------
TwinCallback ==
    \/ ReportAborted \/ SendFails \/ ReportSent
    \/ UpdateHeartbeatTimer \/ UpdatePowerMeterTimer \/ SetRelay1 \/ SetRelay2

MainLoop ==
    \/ ConnectIfNeeded \/ ConnectDone
    \/ CheckHeartbeat \/ HeartbeatSent \/ CheckPowerMeter \/ PowerMeterCalled
    \/ Thermostat

Next ==
    \/ AzureStatus
    \/ \E doc \in Documents : TwinReceived(doc)
    \/ TwinCallback
    \/ \E t \in Timers : TimerExpires(t)
    \/ MainLoop

(* Threads that can run do.  A timer that is started again and again expires all
   the same: k_timer_start with K_NO_WAIT expires at the next tick, and a stop of
   the same timer comes only after another document and its report.
   AzureManagerConnect returns or the device restarts: AzureConnection!Recovery. *)
Fairness ==
    /\ WF_vars(TwinCallback)
    /\ \A t \in Timers : SF_vars(TimerExpires(t))
    /\ WF_vars(MainLoop)

Spec == Init /\ [][Next]_vars /\ Fairness

-----------------------------------------------------------------------------
(* Properties *)

(* Relay 1 is as it should be, or the thermostat has overruled that since. *)
HeatingMayDiffer(r) ==
    r = 1 /\ (relay[1] => Temperature < 18) /\ (~relay[1] => Temperature > 22)

(* A report that tells only what the struct says. *)
TrueOf(report, tw) ==
    /\ \A t \in DOMAIN report.interval : report.interval[t] = tw.interval[t]
    /\ \A r \in DOMAIN report.relay : report.relay[r] = tw.relay[r]

\* Outside the callback a free semaphore means that the last document is in force
\* and that nothing else was told of it.  A report given up or refused leaves the
\* semaphore taken for good; one that lost parts on the way does not.
FreeMeansApplied ==
    rx = "idle" /\ twinSem = 1 /\ acked =>
        /\ TrueOf(reported, twin)
        /\ period = twin.interval
        /\ \A r \in Relays : relay[r] = twin.relay[r] \/ HeatingMayDiffer(r)

\* The device does what the last report it sent told the cloud, of each timer and
\* each relay the report told anything of, however many later documents were
\* stored and could not be reported; only the thermostat overrules relay 1.
\* What got lost on the way into the report is applied too, untold.
ActsAsReported ==
    rx \in {"idle", "report"} =>
        /\ \A t \in DOMAIN reported.interval : period[t] = reported.interval[t]
        /\ \A r \in DOMAIN reported.relay :
              relay[r] = reported.relay[r] \/ HeatingMayDiffer(r)

\* While the link stays up and the interval positive the heartbeat keeps being
\* sent: neither documents that stop and start its timer time and again, at any
\* point of main's loop, nor the expiries main loses by clearing the flag after
\* sending, silence it.
HeartbeatKeepsComing ==
    <>[](~halted /\ azureConnected /\ period["heartbeat"] > 0)
        => []<>(main = "heartbeatSend")

\* In the shipped build the thermostat reads 0 degrees: the heating relay comes
\* on again whatever the twin asks of it.
HeatingWins == ~relay[1] ~> relay[1] \/ halted

\* "This timer is used to send the heartbeat telemetry at the specified
\* interval" (main.c): outside the callback the heartbeat timer is never stopped.
HeartbeatStaysArmed == rx = "idle" => armed["heartbeat"]

\* relay2Status is "Relay status, true = on, false = off" (the header of the
\* twin module): outside the callback the relay is what the struct says.
RelayFollowsTwin == rx = "idle" => relay[2] = twin.relay[2]

-----------------------------------------------------------------------------
(* The twin callback implements TwinRegister.  Relay 1 is no part of that: the
   thermostat shares it. *)
TwinParts == Timers \cup {"relay2"}

Bit(b) == IF b THEN 1 ELSE 0
Settings(interval, pins) ==
    [p \in DOMAIN interval \cup {q \in {"relay2"} : 2 \in DOMAIN pins} |->
        IF p = "relay2" THEN Bit(pins[2]) ELSE interval[p]]

Todo == CASE rx \in {"heartbeatStop", "heartbeatStart"} -> TwinParts
          [] rx \in {"powerMeterStop", "powerMeterStart"} -> {"powerMeter", "relay2"}
          [] rx \in {"relay1", "relay2"} -> {"relay2"}
          [] OTHER -> {}

Register == INSTANCE TwinRegister
               WITH Parts <- TwinParts,
                    Values <- UInt16,
                    wanted <- Settings(twin.interval, twin.relay),
                    told <- Settings(reported.interval, reported.relay),
                    applied <- Settings(period, relay),
                    todo <- Todo

\* A document is applied after its report was sent and then all of it, before the
\* next one is looked at; reports are true, if not always complete; and what was
\* in no report that was sent is never applied: with reports that fail or lose
\* parts, expiring timers and the thermostat in between.
ImplementsTwinRegister == Register!Spec
=============================================================================
