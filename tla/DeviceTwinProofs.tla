-------------------------- MODULE DeviceTwinProofs --------------------------
(***************************************************************************)
(* What DeviceTwin promises for every document and every temperature: its  *)
(* invariants, what a relay is switched for, the refinement of             *)
(* TwinRegister, and what must eventually happen.                          *)
(***************************************************************************)
EXTENDS DeviceTwin, TLAPS

(* How far the twin callback has got. *)
Applying ==
    /\ rx = "report" => twinSem = 0
    /\ rx \notin {"idle", "report"} => acked /\ TrueOf(reported, twin)
    /\ rx \in {"powerMeterStop", "powerMeterStart", "relay1", "relay2"}
         => period["heartbeat"] = twin.interval["heartbeat"]
    /\ rx \in {"relay1", "relay2"}
         => period["powerMeter"] = twin.interval["powerMeter"]
    /\ rx = "relay2" => relay[1] = twin.relay[1] \/ HeatingMayDiffer(1)

(* FreeMeansApplied, timer by timer. *)
FreeIsInForce ==
    rx = "idle" /\ twinSem = 1 /\ acked =>
        /\ TrueOf(reported, twin)
        /\ \A t \in Timers : period[t] = twin.interval[t]
        /\ \A r \in Relays : relay[r] = twin.relay[r] \/ HeatingMayDiffer(r)

(* A timer is stopped by a zero interval, or for as long as updateTimer takes to
   start it again. *)
StartAt(t) == IF t = "heartbeat" THEN "heartbeatStart" ELSE "powerMeterStart"
StoppedForReason == \A t \in Timers : ~armed[t] => period[t] = 0 \/ rx = StartAt(t)

IInv ==
    /\ TypeOK
    /\ Applying
    /\ ActsAsReported
    /\ FreeIsInForce
    /\ StoppedForReason

\* The modulus is a positive number; nothing else about it is used below.
LEMMA ModulusIsPositive == UInt16Modulus \in Nat /\ UInt16Modulus > 300
  BY DEF UInt16Modulus

\* The conversion to uint16_t.
LEMMA Truncated == ASSUME NEW x \in Int PROVE x % UInt16Modulus \in UInt16
  BY ModulusIsPositive DEF UInt16

\* Storing a document keeps the struct well typed: every number is truncated.
LEMMA StoredIsTwin ==
    ASSUME TypeOK, NEW doc \in Documents PROVE Stored(doc) \in Twins
<1>1. ASSUME NEW t \in Timers, t \in DOMAIN doc.interval
      PROVE  doc.interval[t] % UInt16Modulus \in UInt16
  <2>1. doc.interval[t] \in Int
    BY <1>1, DocumentsAreTyped DEF IsPartial
  <2>2. PICK x \in Int : x = doc.interval[t]
    BY <2>1
  <2>3. QED
    BY <2>2, Truncated
<1>2. ASSUME NEW r \in Relays, r \in DOMAIN doc.relay
      PROVE  doc.relay[r] \in BOOLEAN
  BY <1>2, DocumentsAreTyped DEF IsPartial
<1>3. QED
  BY <1>1, <1>2 DEF TypeOK, Twins, Stored

\* A report takes its fields from the struct, as they are.
LEMMA ReportIsTrue ==
    ASSUME NEW tw \in Twins, NEW ts \in SUBSET Timers, NEW rs \in SUBSET Relays
    PROVE  IsReport(ReportOf(tw, ts, rs)) /\ TrueOf(ReportOf(tw, ts, rs), tw)
  BY DEF Twins, IsReport, IsPartial, ReportOf, Restricted, TrueOf

\* So does the one that is sent.
LEMMA SentReportIsTrue ==
    ASSUME TypeOK, ReportSent PROVE IsReport(reported') /\ TrueOf(reported', twin)
<1>1. PICK ts \in SUBSET Timers, rs \in SUBSET Relays : reported' = ReportOf(twin, ts, rs)
  BY DEF ReportSent
<1>2. IsReport(ReportOf(twin, ts, rs)) /\ TrueOf(ReportOf(twin, ts, rs), twin)
  BY ReportIsTrue DEF TypeOK
<1>3. QED
  BY <1>1, <1>2

\* A period is a natural number.
LEMMA PeriodIsNat == ASSUME TypeOK, NEW t \in Timers PROVE period[t] \in Nat
  BY ModulusIsPositive DEF TypeOK, UInt16

\* The inductive invariant holds when the loop of main() starts.
LEMMA InitIInv == Init => IInv
<1> SUFFICES ASSUME Init PROVE IInv
  OBVIOUS
<1>1. NoTwin \in Twins
  BY ModulusIsPositive DEF NoTwin, Twins, UInt16
<1>2. period \in [Timers -> UInt16]
  BY ModulusIsPositive DEF Init, UInt16, InitialHeartbeat
<1>3. IsReport(reported)
  BY <1>1, ReportIsTrue DEF Init, NothingTold
<1>4. TypeOK
  BY <1>1, <1>2, <1>3 DEF Init, TypeOK, RxSteps, MainSteps
<1>5. Applying /\ FreeIsInForce
  BY DEF Init, Applying, FreeIsInForce
<1>6. ActsAsReported
  BY DEF Init, NothingTold, ReportOf, Restricted, ActsAsReported
<1>7. StoppedForReason
  BY DEF Init, StoppedForReason
<1>8. QED
  BY <1>4, <1>5, <1>6, <1>7 DEF IInv

\* The thermostat either leaves relay 1 alone or has a reason not to.
LEMMA ThermostatHasReason ==
    ASSUME TypeOK, Thermostat
    PROVE  /\ relay' \in [Relays -> BOOLEAN]
           /\ relay'[2] = relay[2]
           /\ relay'[1] = relay[1] \/ HeatingMayDiffer(1)'
           /\ HeatingMayDiffer(1) => HeatingMayDiffer(1)'
<1>1. relay \in [Relays -> BOOLEAN] /\ Temperature \in Int
  BY TemperatureIsInt DEF TypeOK
<1>2. CASE Temperature < 18
  <2>1. relay' = [relay EXCEPT ![1] = TRUE]
    BY <1>2, Zenon DEF Thermostat
  <2>2. relay' \in [Relays -> BOOLEAN] /\ relay'[2] = relay[2] /\ relay'[1] = TRUE
    BY <1>1, <2>1 DEF Relays
  <2>3. QED
    BY <1>2, <2>2, Zenon DEF HeatingMayDiffer
<1>3. CASE ~(Temperature < 18) /\ Temperature > 22
  <2>1. ~(Temperature <= 22)
    BY <1>1, <1>3
  <2>2. relay' = [relay EXCEPT ![1] = FALSE]
    BY <1>3, <2>1, Zenon DEF Thermostat
  <2>3. relay' \in [Relays -> BOOLEAN] /\ relay'[2] = relay[2] /\ relay'[1] = FALSE
    BY <1>1, <2>2 DEF Relays
  <2>4. QED
    BY <1>3, <2>3, Zenon DEF HeatingMayDiffer
<1>4. CASE ~(Temperature < 18) /\ ~(Temperature > 22)
  <2>1. Temperature <= 22
    BY <1>1, <1>4
  <2>2. relay[1] \in BOOLEAN
    BY <1>1 DEF Relays
  <2>3. (Temperature < 18 \/ (relay[1] /\ Temperature <= 22)) = relay[1]
    BY <1>4, <2>1, <2>2
  <2>4. relay' = [relay EXCEPT ![1] = relay[1]]
    BY <2>3, Zenon DEF Thermostat
  <2>5. relay' = relay
    BY <1>1, <2>4
  <2>6. QED
    BY <1>1, <2>5, Zenon DEF HeatingMayDiffer
<1>5. QED
  BY <1>2, <1>3, <1>4

\* Every step of every thread and every interrupt preserves it.
LEMMA NextIInv == IInv /\ [Next]_vars => IInv'
<1> SUFFICES ASSUME IInv, [Next]_vars PROVE IInv'
  OBVIOUS
<1> USE DEF IInv, TypeOK, Applying, ActsAsReported, FreeIsInForce, StoppedForReason, StartAt,
            TrueOf, HeatingMayDiffer, IsReport, IsPartial,
            Twins, Timers, Relays, RxSteps, MainSteps, timerVars, twinVars
<1>1. CASE AzureStatus
  BY <1>1 DEF AzureStatus
<1>2. ASSUME NEW doc \in Documents, TwinReceived(doc) PROVE IInv'
  BY <1>2, StoredIsTwin DEF TwinReceived
<1>3. CASE ReportAborted
  BY <1>3 DEF ReportAborted
<1>4. CASE SendFails
  BY <1>4 DEF SendFails
<1>5. CASE ReportSent
  BY <1>5, SentReportIsTrue DEF ReportSent
<1>6. CASE UpdateHeartbeatTimer
  <2>1. CASE StopTimer("heartbeat", "heartbeatStop", "heartbeatStart")
    BY <2>1 DEF StopTimer
  <2>2. CASE StartTimer("heartbeat", "heartbeatStart", "powerMeterStop")
    BY <2>2 DEF StartTimer
  <2>3. QED
    BY <1>6, <2>1, <2>2 DEF UpdateHeartbeatTimer
<1>7. CASE UpdatePowerMeterTimer
  <2>1. CASE StopTimer("powerMeter", "powerMeterStop", "powerMeterStart")
    BY <2>1 DEF StopTimer
  <2>2. CASE StartTimer("powerMeter", "powerMeterStart", "relay1")
    BY <2>2 DEF StartTimer
  <2>3. QED
    BY <1>7, <2>1, <2>2 DEF UpdatePowerMeterTimer
<1>8. CASE SetRelay1
  BY <1>8 DEF SetRelay1, SetRelay
<1>9. CASE SetRelay2
  BY <1>9 DEF SetRelay2, SetRelay
<1>10. ASSUME NEW t \in Timers, TimerExpires(t) PROVE IInv'
  <2>1. TypeOK'
    BY <1>10 DEF TimerExpires
  <2>2. Applying' /\ ActsAsReported' /\ FreeIsInForce'
    BY <1>10 DEF TimerExpires
  <2>3. StoppedForReason'
    BY <1>10, PeriodIsNat DEF TimerExpires
  <2>4. QED
    BY <2>1, <2>2, <2>3
<1>11. CASE ConnectIfNeeded
  BY <1>11 DEF ConnectIfNeeded, GoTo
<1>12. CASE ConnectDone
  BY <1>12 DEF ConnectDone, GoTo
<1>13. CASE CheckHeartbeat
  BY <1>13 DEF CheckHeartbeat, CheckFlag, GoTo
<1>14. CASE HeartbeatSent
  BY <1>14 DEF HeartbeatSent, ClearFlag, GoTo
<1>15. CASE CheckPowerMeter
  BY <1>15 DEF CheckPowerMeter, CheckFlag, GoTo
<1>16. CASE PowerMeterCalled
  BY <1>16 DEF PowerMeterCalled, ClearFlag, GoTo
<1>17. CASE Thermostat
  BY <1>17, ThermostatHasReason DEF Thermostat, GoTo
<1>18. CASE UNCHANGED vars
  BY <1>18 DEF vars
<1>19. QED
  BY <1>1, <1>2, <1>3, <1>4, <1>5, <1>6, <1>7, <1>8, <1>9, <1>10, <1>11, <1>12, <1>13,
     <1>14, <1>15, <1>16, <1>17, <1>18
     DEF Next, TwinCallback, MainLoop

\* The invariant holds in every state of a boot.
THEOREM Invariance == Spec => []IInv
<1>1. QED
  BY InitIInv, NextIInv, PTL DEF Spec

\* Two functions on the timers that agree on each are equal.
LEMMA PeriodsAreIntervals ==
    ASSUME TypeOK, NEW tw \in Twins, \A t \in Timers : period[t] = tw.interval[t]
    PROVE  period = tw.interval
  BY DEF TypeOK, Twins

\* Types are kept whatever a document holds: intervals are truncated, never negative.
THEOREM TypeCorrect == Spec => []TypeOK
<1>1. IInv => TypeOK
  BY DEF IInv
<1>2. QED
  BY <1>1, Invariance, PTL

\* The device does what the last report told of it, relay 1 up to the thermostat,
\* across any number of documents whose report failed, and whatever got lost on
\* the way into that report.
THEOREM ReportIsKept == Spec => []ActsAsReported
<1>1. IInv => ActsAsReported
  BY DEF IInv
<1>2. QED
  BY <1>1, Invariance, PTL

\* A free semaphore outside the callback: the last document is in force, whether
\* its report was complete or not.
THEOREM FreeTwinIsApplied == Spec => []FreeMeansApplied
<1>1. IInv => FreeMeansApplied
  <2>1. SUFFICES ASSUME IInv, rx = "idle", twinSem = 1, acked
                 PROVE  /\ TrueOf(reported, twin)
                        /\ period = twin.interval
                        /\ \A r \in Relays : relay[r] = twin.relay[r] \/ HeatingMayDiffer(r)
    BY DEF FreeMeansApplied
  <2>2. period = twin.interval
    BY <2>1, PeriodsAreIntervals DEF IInv, TypeOK, FreeIsInForce
  <2>3. QED
    BY <2>1, <2>2 DEF IInv, FreeIsInForce
<1>2. QED
  BY <1>1, Invariance, PTL

(* A relay is switched by its step of the callback for a document on which a report
   was sent, to what the document asks and to nothing the report told otherwise,
   or, relay 1, by the thermostat for the temperature. *)
RelayReason(r) ==
    \/ /\ rx = (IF r = 1 THEN "relay1" ELSE "relay2")
       /\ acked /\ relay'[r] = twin.relay[r]
       /\ r \in DOMAIN reported.relay => relay'[r] = reported.relay[r]
    \/ main = "thermostat" /\ HeatingMayDiffer(r)'

\* No relay is ever switched on the strength of a document whose report was given
\* up or refused, nor against what the report sent on it told
\* (pam8053AzureDeviceTwin.c, main.c).
THEOREM RelaysAreJustified ==
    Spec => [][\A r \in Relays : relay'[r] # relay[r] => RelayReason(r)]_vars
<1>1. IInv /\ [Next]_vars => [\A r \in Relays : relay'[r] # relay[r] => RelayReason(r)]_vars
  <2> SUFFICES ASSUME IInv, Next, NEW r \in Relays, relay'[r] # relay[r]
               PROVE  RelayReason(r)
    OBVIOUS
  <2> USE DEF IInv, TypeOK, Twins, Relays, RelayReason
  <2>1. SetRelay1 \/ SetRelay2 \/ Thermostat
    BY DEF Next, AzureStatus, TwinReceived, TwinCallback, ReportAborted, SendFails,
       ReportSent, UpdateHeartbeatTimer, UpdatePowerMeterTimer, StopTimer, StartTimer,
       TimerExpires, MainLoop, ConnectIfNeeded, ConnectDone, CheckHeartbeat, HeartbeatSent,
       CheckPowerMeter, PowerMeterCalled, CheckFlag, ClearFlag
  <2>2. CASE SetRelay1 \/ SetRelay2
    BY <2>2 DEF SetRelay1, SetRelay2, SetRelay, Applying, TrueOf
  <2>3. CASE Thermostat
    <3>1. main = "thermostat"
      BY <2>3 DEF Thermostat, GoTo
    <3>2. r = 1
      BY <2>3, ThermostatHasReason
    <3>3. QED
      BY <2>3, <3>1, <3>2, ThermostatHasReason
  <2>4. QED
    BY <2>1, <2>2, <2>3
<1>2. QED
  BY <1>1, Invariance, PTL DEF Spec

-----------------------------------------------------------------------------
(* The refinement.  What TwinRegister sees is named here once. *)
Wanted == Settings(twin.interval, twin.relay)
Told == Settings(reported.interval, reported.relay)
Done == Settings(period, relay)

\* A relay's level is a value of the register.
LEMMA BitIsValue == ASSUME NEW b \in BOOLEAN PROVE Bit(b) \in UInt16
  BY ModulusIsPositive DEF Bit, UInt16

\* Settings of all timers and relays are settings of all parts.
LEMMA WholeSettings ==
    ASSUME NEW interval \in [Timers -> UInt16], NEW pins \in [Relays -> BOOLEAN]
    PROVE  /\ Settings(interval, pins) \in [TwinParts -> UInt16]
           /\ \A t \in Timers : Settings(interval, pins)[t] = interval[t]
           /\ Settings(interval, pins)["relay2"] = Bit(pins[2])
<1>1. DOMAIN interval \cup {q \in {"relay2"} : 2 \in DOMAIN pins} = TwinParts
  BY DEF TwinParts, Relays
<1>2. pins[2] \in BOOLEAN
  BY DEF Relays
<1>3. QED
  BY <1>1, <1>2, BitIsValue DEF Settings, TwinParts, Timers

\* What the register sees are settings, of the report perhaps not all.
LEMMA SettingsAreTyped ==
    ASSUME TypeOK
    PROVE  /\ Wanted \in Register!AllSettings
           /\ DOMAIN Told \subseteq TwinParts
           /\ Told \in [DOMAIN Told -> UInt16]
           /\ Done \in Register!AllSettings
<1>1. Wanted \in Register!AllSettings /\ Done \in Register!AllSettings
  BY WholeSettings DEF TypeOK, Twins, Wanted, Done, Register!AllSettings
<1>2. 2 \in DOMAIN reported.relay => Bit(reported.relay[2]) \in UInt16
  BY BitIsValue DEF TypeOK, IsReport, IsPartial
<1>3. DOMAIN Told \subseteq TwinParts
  BY DEF TypeOK, IsReport, IsPartial, Told, Settings, TwinParts
<1>4. ASSUME NEW p \in DOMAIN Told PROVE Told[p] \in UInt16
  BY <1>2, <1>4 DEF TypeOK, IsReport, IsPartial, Told, Settings, Timers
<1>5. Told = [p \in DOMAIN Told |-> Told[p]]
  BY DEF Told, Settings
<1>6. QED
  BY <1>1, <1>3, <1>4, <1>5

\* The device starts with settings and with nothing left to apply.
LEMMA InitRefines == Init => Register!Init
<1> SUFFICES ASSUME Init PROVE Register!Init
  OBVIOUS
<1>1. TypeOK
  BY InitIInv DEF IInv
<1>2. Todo = {}
  BY DEF Init, Todo
<1>3. QED
  BY <1>1, <1>2, SettingsAreTyped DEF Register!Init, Wanted, Told, Done

\* A report that is sent tells the register some of what is wanted.
LEMMA ReportReports == ASSUME IInv, ReportSent PROVE Register!Report
<1>1. PICK ts \in SUBSET Timers, rs \in SUBSET Relays : reported' = ReportOf(twin, ts, rs)
  BY DEF ReportSent
<1> DEFINE P == ts \cup {q \in {"relay2"} : 2 \in rs}
<1>2. Told' = Settings(Restricted(twin.interval, ts), Restricted(twin.relay, rs))
  BY <1>1 DEF Told, ReportOf
<1>3. Settings(Restricted(twin.interval, ts), Restricted(twin.relay, rs))
        = [p \in P |-> Wanted[p]]
  BY DEF Settings, Restricted, Wanted, IInv, TypeOK, Twins, Timers, Relays
<1>4. P \in SUBSET TwinParts
  BY DEF TwinParts
<1>5. Todo = {} /\ Todo' = TwinParts
  BY DEF ReportSent, Todo
<1>6. \E Q \in SUBSET TwinParts : Told' = [p \in Q |-> Wanted[p]]
  BY <1>2, <1>3, <1>4
<1>7. Wanted' = Wanted /\ Done' = Done
  BY DEF ReportSent, timerVars, Wanted, Done
<1>8. QED
  BY <1>5, <1>6, <1>7, Zenon DEF Register!Report, Told, Wanted, Done

\* Starting a timer applies the interval that the document asks for.
LEMMA TimerApplies ==
    ASSUME IInv, NEW t \in Timers, NEW at \in RxSteps, NEW then \in RxSteps,
           StartTimer(t, at, then)
    PROVE  Done' = [Done EXCEPT ![t] = Wanted[t]]
<1>1. period \in [Timers -> UInt16] /\ relay \in [Relays -> BOOLEAN] /\ twin \in Twins
  BY DEF IInv, TypeOK
<1>2. period' = [period EXCEPT ![t] = twin.interval[t]] /\ relay' = relay
  BY DEF StartTimer
<1>3. period' \in [Timers -> UInt16]
  BY <1>1, <1>2 DEF Twins
<1>4. Done \in [TwinParts -> UInt16] /\ Done' \in [TwinParts -> UInt16]
  BY <1>1, <1>2, <1>3, WholeSettings DEF Done
<1>5. /\ \A u \in Timers : Done'[u] = period'[u] /\ Done[u] = period[u]
      /\ Done'["relay2"] = Bit(relay[2]) /\ Done["relay2"] = Bit(relay[2])
      /\ Wanted[t] = twin.interval[t]
  <2>1. /\ \A u \in Timers : Done[u] = period[u]
        /\ Done["relay2"] = Bit(relay[2])
    BY <1>1, WholeSettings DEF Done
  <2>2. /\ \A u \in Timers : Done'[u] = period'[u]
        /\ Done'["relay2"] = Bit(relay[2])
    BY <1>1, <1>2, <1>3, WholeSettings DEF Done
  <2>3. Wanted[t] = twin.interval[t]
    BY <1>1, WholeSettings DEF Wanted, Twins
  <2>4. QED
    BY <2>1, <2>2, <2>3
<1>6. ASSUME NEW p \in TwinParts PROVE Done'[p] = [Done EXCEPT ![t] = Wanted[t]][p]
  <2>1. CASE p = "relay2"
    BY <1>4, <1>5, <2>1 DEF Timers
  <2>2. CASE p \in Timers
    BY <1>1, <1>2, <1>4, <1>5, <2>2
  <2>3. QED
    BY <2>1, <2>2 DEF TwinParts
<1>7. QED
  BY <1>4, <1>6

\* Switching relay 2 applies what the document asks for.
LEMMA RelayApplies ==
    ASSUME IInv, SetRelay2 PROVE Done' = [Done EXCEPT !["relay2"] = Wanted["relay2"]]
<1>1. period \in [Timers -> UInt16] /\ relay \in [Relays -> BOOLEAN] /\ twin \in Twins
  BY DEF IInv, TypeOK
<1>2. period' = period /\ relay' = [relay EXCEPT ![2] = twin.relay[2]]
  BY DEF SetRelay2, SetRelay, timerVars
<1>3. relay' \in [Relays -> BOOLEAN]
  BY <1>1, <1>2 DEF Twins, Relays
<1>4. Done \in [TwinParts -> UInt16] /\ Done' \in [TwinParts -> UInt16]
  BY <1>1, <1>2, <1>3, WholeSettings DEF Done
<1>5. /\ \A u \in Timers : Done'[u] = period[u] /\ Done[u] = period[u]
      /\ Done'["relay2"] = Bit(relay'[2]) /\ relay'[2] = twin.relay[2]
      /\ Wanted["relay2"] = Bit(twin.relay[2])
  BY <1>1, <1>2, <1>3, WholeSettings DEF Done, Wanted, Twins, Relays
<1>6. ASSUME NEW p \in TwinParts PROVE Done'[p] = [Done EXCEPT !["relay2"] = Wanted["relay2"]][p]
  <2>1. CASE p = "relay2"
    BY <1>4, <1>5, <2>1
  <2>2. CASE p \in Timers
    BY <1>4, <1>5, <2>2 DEF Timers
  <2>3. QED
    BY <2>1, <2>2 DEF TwinParts
<1>7. QED
  BY <1>4, <1>6

\* Relay 1 is no part of the register.
LEMMA Relay1Unseen ==
    ASSUME period' = period, DOMAIN relay' = DOMAIN relay, relay'[2] = relay[2]
    PROVE  Done' = Done
  BY DEF Done, Settings

\* Every step of every thread and interrupt is a step of the register or none
\* that it sees.
LEMMA NextRefines == IInv /\ [Next]_vars => [Register!Next]_(Register!vars)
<1> SUFFICES ASSUME IInv, [Next]_vars PROVE [Register!Next]_(Register!vars)
  OBVIOUS
<1> DEFINE Seen == UNCHANGED <<Wanted, Told, Done, Todo>>
<1>0. Seen => UNCHANGED Register!vars
  BY DEF Register!vars, Wanted, Told, Done
<1>1. CASE AzureStatus
  BY <1>0, <1>1 DEF AzureStatus, twinVars, timerVars, Wanted, Told, Done, Todo
<1>2. ASSUME NEW doc \in Documents, TwinReceived(doc) PROVE Register!Receive
  <2>1. TypeOK'
    BY <1>2, NextIInv DEF Next, IInv
  <2>2. Wanted' \in Register!AllSettings
    BY <2>1, WholeSettings DEF TypeOK, Twins, Wanted, Register!AllSettings
  <2>3. QED
    BY <1>2, <2>2 DEF TwinReceived, timerVars, Register!Receive, Wanted, Told, Done, Todo
<1>3. CASE ReportAborted \/ SendFails
  BY <1>0, <1>3 DEF ReportAborted, SendFails, timerVars, Wanted, Told, Done, Todo
<1>5. CASE ReportSent
  BY <1>5, ReportReports DEF Register!Next
<1>6. ASSUME NEW t \in Timers,
             \/ StopTimer(t, "heartbeatStop", "heartbeatStart") /\ t = "heartbeat"
             \/ StopTimer(t, "powerMeterStop", "powerMeterStart") /\ t = "powerMeter"
      PROVE  Seen
  BY <1>6 DEF StopTimer, Wanted, Told, Done, Todo
<1>7. ASSUME NEW t \in Timers,
             \/ StartTimer(t, "heartbeatStart", "powerMeterStop") /\ t = "heartbeat"
             \/ StartTimer(t, "powerMeterStart", "relay1") /\ t = "powerMeter"
      PROVE  Register!Apply(t)
  <2>1. Done' = [Done EXCEPT ![t] = Wanted[t]]
    BY <1>7, TimerApplies DEF RxSteps
  <2>2. t \in Todo /\ Todo' = Todo \ {t}
    BY <1>7 DEF StartTimer, Todo, TwinParts, Timers
  <2>3. Wanted' = Wanted /\ Told' = Told
    BY <1>7 DEF StartTimer, Wanted, Told
  <2>4. QED
    BY <2>1, <2>2, <2>3 DEF Register!Apply, Wanted, Told, Done
<1>8. CASE UpdateHeartbeatTimer \/ UpdatePowerMeterTimer
  <2>1. Seen \/ \E t \in Timers : Register!Apply(t)
    BY <1>6, <1>7, <1>8 DEF UpdateHeartbeatTimer, UpdatePowerMeterTimer, Timers
  <2>2. QED
    BY <1>0, <2>1 DEF Register!Next, TwinParts
<1>9. CASE SetRelay1
  <2>1. Done' = Done
    BY <1>9, Relay1Unseen DEF SetRelay1, SetRelay, timerVars, IInv, TypeOK, Relays
  <2>2. QED
    BY <1>0, <1>9, <2>1 DEF SetRelay1, SetRelay, Wanted, Told, Todo
<1>10. CASE SetRelay2
  <2>1. Done' = [Done EXCEPT !["relay2"] = Wanted["relay2"]]
    BY <1>10, RelayApplies
  <2>2. "relay2" \in Todo /\ Todo' = Todo \ {"relay2"}
    BY <1>10 DEF SetRelay2, SetRelay, Todo
  <2>3. Wanted' = Wanted /\ Told' = Told
    BY <1>10 DEF SetRelay2, SetRelay, Wanted, Told
  <2>4. Register!Apply("relay2")
    BY <2>1, <2>2, <2>3 DEF Register!Apply, Wanted, Told, Done
  <2>5. QED
    BY <2>4 DEF Register!Next, TwinParts
<1>11. ASSUME NEW t \in Timers, TimerExpires(t) PROVE Seen
  BY <1>11 DEF TimerExpires, twinVars, Wanted, Told, Done, Todo
<1>12. CASE ConnectIfNeeded \/ ConnectDone \/ CheckHeartbeat \/ CheckPowerMeter
            \/ HeartbeatSent \/ PowerMeterCalled
  BY <1>0, <1>12 DEF ConnectIfNeeded, ConnectDone, CheckHeartbeat, CheckPowerMeter, CheckFlag,
       HeartbeatSent, PowerMeterCalled, ClearFlag, GoTo, twinVars, timerVars,
       Wanted, Told, Done, Todo
<1>13. CASE Thermostat
  <2>1. relay' \in [Relays -> BOOLEAN] /\ relay'[2] = relay[2]
    BY <1>13, ThermostatHasReason DEF IInv
  <2>2. Done' = Done
    BY <1>13, <2>1, Relay1Unseen DEF Thermostat, GoTo, timerVars, IInv, TypeOK
  <2>3. QED
    BY <1>0, <1>13, <2>2 DEF Thermostat, GoTo, twinVars, Wanted, Told, Todo
<1>14. CASE UNCHANGED vars
  BY <1>0, <1>14 DEF vars, twinVars, timerVars, Wanted, Told, Done, Todo
<1>15. QED
  BY <1>0, <1>1, <1>2, <1>3, <1>5, <1>8, <1>9, <1>10, <1>11, <1>12, <1>13, <1>14
     DEF Next, TwinCallback, MainLoop, Register!Next

\* Whatever the documents hold and whichever reports fail or lose parts, the twin
\* callback applies settings only as TwinRegister allows.
THEOREM TwinRefinement == Spec => Register!SafetySpec
<1>1. Init => Register!Init
  BY InitRefines
<1>2. IInv /\ [Next]_vars => [Register!Next]_(Register!vars)
  BY NextRefines
<1>3. Spec => []IInv
  BY Invariance
<1>4. QED
  BY <1>1, <1>2, <1>3, PTL DEF Spec, Register!SafetySpec

-----------------------------------------------------------------------------
(* What must happen.  The premises are the fairness of Spec with the guards of
   the actions written out, since no prover here reasons about ENABLED: main's
   loop goes round and the twin callback goes on while the CPU has not halted,
   and a timer whose expiry changes something time and again expires. *)
LoopRuns == []<>halted \/ []<><<MainLoop>>_vars

CallbackRuns == []<>(halted \/ rx = "idle") \/ []<><<TwinCallback>>_vars

HeartbeatDue == /\ ~halted
                /\ armed["heartbeat"]
                /\ flag["heartbeat"] => period["heartbeat"] = 0
HeartbeatRuns == <>[](~HeartbeatDue) \/ []<><<TimerExpires("heartbeat")>>_vars

\* Only main moves main, from one place of its loop to the next.
LEMMA LoopInOrder ==
    ASSUME [Next]_vars
    PROVE  /\ UNCHANGED main \/ MainLoop
           /\ MainLoop =>
                \/ main = "loop" /\ main' \in {"connect", "heartbeat"}
                \/ main = "connect" /\ main' = "heartbeat"
                \/ main = "heartbeat"
                     /\ main' = IF flag["heartbeat"] THEN "heartbeatSend" ELSE "powerMeter"
                \/ main = "heartbeatSend" /\ main' = "powerMeter"
                \/ main = "powerMeter"
                     /\ main' = IF flag["powerMeter"] THEN "powerMeterCall" ELSE "thermostat"
                \/ main = "powerMeterCall" /\ main' = "thermostat"
                \/ main = "thermostat" /\ main' = "loop" /\ Thermostat
<1>1. MainLoop \/ UNCHANGED main
  BY DEF Next, AzureStatus, TwinReceived, TwinCallback, ReportAborted, SendFails,
         ReportSent, UpdateHeartbeatTimer, UpdatePowerMeterTimer, StopTimer, StartTimer,
         SetRelay1, SetRelay2, SetRelay, TimerExpires, vars
<1>2. QED
  BY <1>1 DEF MainLoop, ConnectIfNeeded, ConnectDone, CheckHeartbeat, HeartbeatSent,
         CheckPowerMeter, PowerMeterCalled, CheckFlag, ClearFlag, GoTo, Thermostat

\* The loop comes to each of its places again and again.
LEMMA LoopGoesRound ==
    Spec /\ []<><<MainLoop>>_vars =>
        /\ []<>(main = "heartbeat")
        /\ []<>(main = "powerMeter")
        /\ []<>(main = "thermostat")
<1> DEFINE A == main = "loop"
           B == main = "connect"
           C == main = "heartbeat"
           D == main = "heartbeatSend"
           E == main = "powerMeter"
           F == main = "powerMeterCall"
           G == main = "thermostat"
<1>1. IInv => A \/ B \/ C \/ D \/ E \/ F \/ G
  BY DEF IInv, TypeOK, MainSteps
<1>2. [Next]_vars => /\ A => A' \/ B' \/ C'
                     /\ B => B' \/ C'
                     /\ C => C' \/ D' \/ E'
                     /\ D => D' \/ E'
                     /\ E => E' \/ F' \/ G'
                     /\ F => F' \/ G'
                     /\ G => G' \/ A'
  BY LoopInOrder
<1>3. [Next]_vars /\ <<MainLoop>>_vars => /\ A => B' \/ C'
                                          /\ B => C'
                                          /\ C => D' \/ E'
                                          /\ D => E'
                                          /\ E => F' \/ G'
                                          /\ F => G'
                                          /\ G => A'
  BY LoopInOrder
<1> HIDE DEF A, B, C, D, E, F, G
<1>4. Spec /\ []<><<MainLoop>>_vars => []<>C /\ []<>E /\ []<>G
  <2>1. Spec /\ []<><<MainLoop>>_vars => (A ~> C) /\ (B ~> C)
    BY <1>2, <1>3, PTL DEF Spec
  <2>2. Spec /\ []<><<MainLoop>>_vars => (C ~> E) /\ (D ~> E)
    BY <1>2, <1>3, PTL DEF Spec
  <2>3. Spec /\ []<><<MainLoop>>_vars => (E ~> G) /\ (F ~> G) /\ (G ~> A)
    BY <1>2, <1>3, PTL DEF Spec
  <2>4. QED
    BY <1>1, <2>1, <2>2, <2>3, Invariance, PTL
<1>5. QED
  BY <1>4 DEF C, E, G

\* With a temperature below 18 degrees, which the shipped build always reads, the
\* heating relay comes on again whatever the twin asks (HeatingWins).
THEOREM HeatingReturns ==
    ASSUME Temperature < 18
    PROVE  Spec /\ LoopRuns => HeatingWins
<1> DEFINE G == main = "thermostat"
           On == relay[1]
<1>1. IInv /\ G /\ [Next]_vars => G' \/ On'
  <2>1. IInv /\ Thermostat => On'
    BY TemperatureIsInt DEF Thermostat, IInv, TypeOK, Relays
  <2>2. QED
    BY <2>1, LoopInOrder
<1>2. IInv /\ G /\ [Next]_vars /\ <<MainLoop>>_vars => On'
  <2>1. IInv /\ Thermostat => On'
    BY TemperatureIsInt DEF Thermostat, IInv, TypeOK, Relays
  <2>2. QED
    BY <2>1, LoopInOrder
<1>3. Spec /\ []<><<MainLoop>>_vars => []<>G
  BY LoopGoesRound
<1> HIDE DEF G, On
<1>4. Spec /\ LoopRuns => (~On ~> On \/ halted)
  BY <1>1, <1>2, <1>3, Invariance, PTL DEF Spec, LoopRuns
<1>5. QED
  BY <1>4 DEF On, HeatingWins

(* A CPU halts only where a report failed, with nothing left to apply. *)
HaltsIdle == halted => rx = "idle"

\* No step leaves a halted CPU with something to apply.
LEMMA NextHaltsIdle == HaltsIdle /\ [Next]_vars => HaltsIdle'
  BY DEF HaltsIdle, Next, AzureStatus, TwinReceived, TwinCallback, ReportAborted,
     SendFails, ReportSent, UpdateHeartbeatTimer, UpdatePowerMeterTimer, StopTimer, StartTimer,
     SetRelay1, SetRelay2, SetRelay, TimerExpires, MainLoop, ConnectIfNeeded, ConnectDone,
     CheckHeartbeat, HeartbeatSent, CheckPowerMeter, PowerMeterCalled, CheckFlag, ClearFlag,
     GoTo, Thermostat, twinVars, vars

\* A halted CPU has nothing left to apply.
LEMMA AlwaysHaltsIdle == Spec => []HaltsIdle
<1>1. Init => HaltsIdle
  BY DEF Init, HaltsIdle
<1>2. QED
  BY <1>1, NextHaltsIdle, PTL DEF Spec

\* The flag stays set until main sends the heartbeat; an expiry sets it, and main
\* sends when it finds it set.
LEMMA FlagSteps ==
    ASSUME IInv, [Next]_vars
    PROVE  /\ flag["heartbeat"] => flag'["heartbeat"] \/ main = "heartbeatSend"
           /\ TimerExpires("heartbeat") => flag'["heartbeat"]
           /\ main = "heartbeat" /\ flag["heartbeat"]
                => main' \in {"heartbeat", "heartbeatSend"}
           /\ main = "heartbeat" /\ flag["heartbeat"] /\ MainLoop => main' = "heartbeatSend"
<1> USE DEF IInv, TypeOK, Timers
<1>1. flag["heartbeat"] => flag'["heartbeat"] \/ main = "heartbeatSend"
  <2>1. CASE MainLoop
    BY <2>1 DEF MainLoop, ConnectIfNeeded, ConnectDone, CheckHeartbeat, HeartbeatSent,
       CheckPowerMeter, PowerMeterCalled, CheckFlag, ClearFlag, GoTo, Thermostat
  <2>2. CASE \E u \in Timers : TimerExpires(u)
    BY <2>2 DEF TimerExpires
  <2>3. CASE UNCHANGED flag
    BY <2>3
  <2>4. QED
    BY <2>1, <2>2, <2>3 DEF Next, AzureStatus, TwinReceived, TwinCallback, ReportAborted,
       SendFails, ReportSent, UpdateHeartbeatTimer, UpdatePowerMeterTimer,
       StopTimer, StartTimer, SetRelay1, SetRelay2, SetRelay, vars
<1>2. TimerExpires("heartbeat") => flag'["heartbeat"]
  BY DEF TimerExpires
<1>3. QED
  BY <1>1, <1>2, LoopInOrder

\* The callback does not leave the heartbeat timer stopped.
LEMMA StopsAreShort == Spec /\ CallbackRuns => []<>(~(rx = "heartbeatStart"))
<1> DEFINE Stopped == rx = "heartbeatStart"
<1>1. <<TwinCallback>>_vars /\ Stopped => ~Stopped'
  BY DEF TwinCallback, ReportAborted, SendFails, ReportSent, UpdateHeartbeatTimer,
     UpdatePowerMeterTimer, StopTimer, StartTimer, SetRelay1, SetRelay2, SetRelay
<1>2. HaltsIdle /\ (halted \/ rx = "idle") => ~Stopped
  BY DEF HaltsIdle
<1>3. Spec => []HaltsIdle
  BY AlwaysHaltsIdle
<1>4. CallbackRuns <=> []<>(halted \/ rx = "idle") \/ []<><<TwinCallback>>_vars
  BY DEF CallbackRuns
<1> HIDE DEF Stopped
<1>5. Spec /\ CallbackRuns => []<>(~Stopped)
  BY <1>1, <1>2, <1>3, <1>4, PTL
<1>6. QED
  BY <1>5 DEF Stopped

\* While the link stays up and the interval positive, heartbeats keep being sent,
\* wherever main was when the timer expired, however often documents stop and start
\* the timer, and however many expiries main loses by clearing the flag after
\* sending (HeartbeatKeepsComing).
THEOREM HeartbeatComes ==
    Spec /\ LoopRuns /\ CallbackRuns /\ HeartbeatRuns => HeartbeatKeepsComing
<1> DEFINE Steady == ~halted /\ azureConnected /\ period["heartbeat"] > 0
           Set == flag["heartbeat"]
           Check == main = "heartbeat"
           Send == main = "heartbeatSend"
           Due == HeartbeatDue
           Stopped == rx = "heartbeatStart"
           Expires == TimerExpires("heartbeat")
<1>1. /\ IInv /\ Set /\ ~Send /\ [Next]_vars => Set'
      /\ IInv /\ [Next]_vars /\ <<Expires>>_vars => Set'
      /\ IInv /\ Check /\ Set /\ [Next]_vars => Check' \/ Send'
      /\ IInv /\ Check /\ Set /\ [Next]_vars /\ <<MainLoop>>_vars => Send'
  BY FlagSteps
<1>2. IInv /\ Steady /\ ~Due => Set \/ Stopped
  BY DEF IInv, TypeOK, StoppedForReason, StartAt, HeartbeatDue, Timers
<1>3. Spec /\ []<><<MainLoop>>_vars => []<>Check
  BY LoopGoesRound
<1>4. Steady => ~halted
  OBVIOUS
<1>5. Spec /\ CallbackRuns => []<>(~Stopped)
  BY StopsAreShort
<1>6. HeartbeatRuns <=> <>[](~Due) \/ []<><<Expires>>_vars
  BY DEF HeartbeatRuns
<1> HIDE DEF Steady, Set, Check, Send, Due, Stopped, Expires
<1>7. Spec /\ LoopRuns /\ CallbackRuns /\ HeartbeatRuns => (<>[]Steady => []<>Set)
  BY <1>1, <1>2, <1>5, <1>6, Invariance, PTL DEF Spec
<1>8. Spec /\ LoopRuns /\ CallbackRuns /\ HeartbeatRuns => (<>[]Steady => []<>Send)
  BY <1>1, <1>3, <1>4, <1>7, Invariance, PTL DEF Spec, LoopRuns
<1>9. QED
  BY <1>8 DEF Steady, Send, HeartbeatKeepsComing

\* Every document on which a report was sent is applied in full in the end.
THEOREM ReportsAreApplied == Spec /\ CallbackRuns => []<>(Todo = {})
<1> DEFINE A == rx = "heartbeatStop"
           B == rx = "heartbeatStart"
           C == rx = "powerMeterStop"
           D == rx = "powerMeterStart"
           E == rx = "relay1"
           F == rx = "relay2"
           None == Todo = {}
<1>1. IInv => \/ None
              \/ A \/ B \/ C \/ D \/ E \/ F
  BY DEF IInv, TypeOK, RxSteps, Todo
<1>2. [Next]_vars => /\ A => A' \/ B'
                     /\ B => B' \/ C'
                     /\ C => C' \/ D'
                     /\ D => D' \/ E'
                     /\ E => E' \/ F'
                     /\ F => F' \/ None'
  BY DEF Next, AzureStatus, TwinReceived, TwinCallback, ReportAborted,
     SendFails, ReportSent, UpdateHeartbeatTimer, UpdatePowerMeterTimer, StopTimer, StartTimer,
     SetRelay1, SetRelay2, SetRelay, TimerExpires, MainLoop, ConnectIfNeeded, ConnectDone,
     CheckHeartbeat, HeartbeatSent, CheckPowerMeter, PowerMeterCalled, CheckFlag, ClearFlag,
     GoTo, Thermostat, twinVars, vars, Todo
<1>3. <<TwinCallback>>_vars => /\ A => B'
                               /\ B => C'
                               /\ C => D'
                               /\ D => E'
                               /\ E => F'
                               /\ F => None'
  BY DEF TwinCallback, ReportAborted, SendFails, ReportSent, UpdateHeartbeatTimer,
     UpdatePowerMeterTimer, StopTimer, StartTimer, SetRelay1, SetRelay2, SetRelay, Todo
<1>4. HaltsIdle /\ (halted \/ rx = "idle") => ~A /\ ~B /\ ~C /\ ~D /\ ~E /\ ~F
  BY DEF HaltsIdle
<1>5. Spec => []HaltsIdle
  BY AlwaysHaltsIdle
<1>6. CallbackRuns <=> []<>(halted \/ rx = "idle") \/ []<><<TwinCallback>>_vars
  BY DEF CallbackRuns
<1> HIDE DEF A, B, C, D, E, F, None
<1>7. Spec /\ CallbackRuns => []<>None
  BY <1>1, <1>2, <1>3, <1>4, <1>5, <1>6, Invariance, PTL DEF Spec
<1>8. QED
  BY <1>7 DEF None

\* The twin callback implements TwinRegister: every step is one of the register's
\* or none, and every document on which a report was sent is applied, all of it.
THEOREM TwinImplemented == Spec /\ CallbackRuns => ImplementsTwinRegister
<1> DEFINE Pending == Todo # {}
           None == Todo = {}
<1>1. Spec /\ CallbackRuns => []<>None
  BY ReportsAreApplied
<1> HIDE DEF Pending, None
<1>2. Spec /\ CallbackRuns => (Pending ~> None)
  BY <1>1, PTL
<1>3. Spec /\ CallbackRuns => (Todo # {} ~> Todo = {})
  BY <1>2 DEF Pending, None
<1>4. QED
  BY <1>3, TwinRefinement DEF ImplementsTwinRegister, Register!Spec, Register!Liveness
=============================================================================
