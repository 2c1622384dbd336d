------------------------------ MODULE LocalIO -------------------------------
(***************************************************************************)
(* Buttons, LEDs and alarm inputs, brought up one after the other by the   *)
(* first part of setup() (main.c) while those already started run on.      *)
(***************************************************************************)
EXTENDS AlarmInput, Indicator, Buttons

VARIABLE setup      \* the main thread's place in setup()

vars == <<alarmVars, indicatorVars, buttonVars, setup>>

SetupSteps == {"buttons", "indicator", "inputs", "mode0", "mode1", "sampling",
               "redLed", "done"}

TypeOK == /\ AlarmTypeOK
          /\ IndicatorTypeOK
          /\ ButtonsTypeOK
          /\ setup \in SetupSteps

Init == AlarmInit /\ IndicatorInit /\ ButtonsInit /\ setup = "buttons"

-----------------------------------------------------------------------------
Step(at, then) == setup = at /\ setup' = then

StartButtons ==
    /\ Step("buttons", "indicator")
    /\ ButtonsHandlerStart
    /\ UNCHANGED <<alarmVars, indicatorVars>>

StartIndicator ==
    /\ Step("indicator", "inputs")
    /\ IndicatorModuleStart
    /\ UNCHANGED <<alarmVars, buttonVars>>

StartInputs ==
    /\ \/ Step("inputs", "mode0") /\ UniversalAlarmInputInit
       \/ Step("mode0", "mode1") /\ UniversalAlarmInputSetMode(0)
       \/ Step("mode1", "sampling") /\ UniversalAlarmInputSetMode(1)
       \/ Step("sampling", "redLed") /\ UniversalAlarmInputStart
    /\ UNCHANGED <<indicatorVars, buttonVars>>

BlinkRed ==
    /\ Step("redLed", "done")
    /\ IndicatorModuleLedBlink("red", "slow")
    /\ UNCHANGED <<alarmVars, buttonVars>>

Setup == StartButtons \/ StartIndicator \/ StartInputs \/ BlinkRed

-----------------------------------------------------------------------------
AlarmStep == AlarmNext /\ UNCHANGED <<indicatorVars, buttonVars, setup>>
AdcWorkStep == AdcWork /\ UNCHANGED <<indicatorVars, buttonVars, setup>>
AdcTimerStep == AdcSampleTimerCb /\ UNCHANGED <<indicatorVars, buttonVars, setup>>

BlinkStep(callback) == callback /\ UNCHANGED <<alarmVars, buttonVars, setup>>

(* CodePanelStatusCb reports the door to the LEDs.  setup() has a place for the
   code panel after them, but codePanel.c is still empty: nothing raises these
   events yet, and no property depends on their coming. *)
Door ==
    /\ setup = "done"
    /\ DoorOpen \/ DoorClosed
    /\ UNCHANGED <<alarmVars, buttonVars, setup>>

ButtonStep == ButtonsNext /\ UNCHANGED <<alarmVars, indicatorVars, setup>>

Next ==
    \/ Setup
    \/ AlarmStep
    \/ BlinkStep(BlinkFastTimerCb)
    \/ BlinkStep(BlinkSlowTimerCb)
    \/ Door
    \/ ButtonStep

(* setup() goes on, timers expire, the system work queue runs what is
   submitted to it.  No contact, door or button has to move, no read has to
   succeed. *)
Fairness ==
    /\ WF_vars(Setup)
    /\ WF_vars(AdcTimerStep)
    /\ WF_vars(AdcWorkStep)
    /\ WF_vars(BlinkStep(BlinkFastTimerCb))
    /\ WF_vars(BlinkStep(BlinkSlowTimerCb))

Spec == Init /\ [][Next]_vars /\ Fairness

-----------------------------------------------------------------------------
(* Properties of the components, as the composition keeps them *)

\* NewsIsOwnOrNeighbours, for every step of every component.
NoForeignNews == [][NewsIsOwnOrNeighbours]_vars

\* setup() gets as far as the red LED, which then blinks for ever: nothing the
\* door or the other timer does to the LEDs stops it.
RedLedBlinks == []<>pin["red"] /\ []<>(~pin["red"])
=============================================================================
