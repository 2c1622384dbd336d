----------------------------- MODULE Indicator ------------------------------
(***************************************************************************)
(* The LEDs (indicatorModule.c): a state per LED, set by threads, and two  *)
(* blink timers whose interrupts read the states and drive the pins.       *)
(* A component of LocalIO.                                                 *)
(***************************************************************************)
Leds == {"red", "green", "blue"}
BlinkStates == {"fast", "slow"}
Nobody == "none"

VARIABLES
    ledState,       \* ledStructs[i].ledState
    pin,            \* the LED is lit
    ledStateFast, ledStateSlow,     \* the static toggles of the two callbacks
    blinking,       \* both blink timers run
    turningOff      \* the LED whose LedOff is between its two writes

indicatorVars == <<ledState, pin, ledStateFast, ledStateSlow, blinking, turningOff>>

IndicatorTypeOK ==
    /\ ledState \in [Leds -> BlinkStates \cup {"off"}]
    /\ pin \in [Leds -> BOOLEAN]
    /\ ledStateFast \in BOOLEAN
    /\ ledStateSlow \in BOOLEAN
    /\ blinking \in BOOLEAN
    /\ turningOff \in Leds \cup {Nobody}

IndicatorInit ==
    /\ ledState = [l \in Leds |-> "off"]
    /\ pin = [l \in Leds |-> FALSE]
    /\ ledStateFast = FALSE
    /\ ledStateSlow = FALSE
    /\ blinking = FALSE
    /\ turningOff = Nobody

(* IndicatorModuleInit and IndicatorModuleStart *)
IndicatorModuleStart ==
    /\ ledState' = [l \in Leds |-> "off"]
    /\ pin' = [l \in Leds |-> FALSE]
    /\ blinking' = TRUE
    /\ UNCHANGED <<ledStateFast, ledStateSlow, turningOff>>

Driven(state, value) == [l \in Leds |-> IF ledState[l] = state THEN value ELSE pin[l]]

BlinkFastTimerCbStuck ==
    /\ blinking
    /\ pin' = Driven("fast", ledStateFast)
    /\ UNCHANGED <<ledState, ledStateFast, ledStateSlow, blinking, turningOff>>

(* Interrupts: no thread runs between their reads and their writes. *)
BlinkFastTimerCb ==
    /\ blinking
    /\ pin' = Driven("fast", ledStateFast)
    /\ ledStateFast' = ~ledStateFast
    /\ UNCHANGED <<ledState, ledStateSlow, blinking, turningOff>>

BlinkSlowTimerCb ==
    /\ blinking
    /\ pin' = Driven("slow", ledStateSlow)
    /\ ledStateSlow' = ~ledStateSlow
    /\ UNCHANGED <<ledState, ledStateFast, blinking, turningOff>>

SetLedState(l, state) ==
    /\ ledState' = [ledState EXCEPT ![l] = state]
    /\ UNCHANGED <<pin, ledStateFast, ledStateSlow, blinking>>

SetPin(l, value) ==
    /\ pin' = [pin EXCEPT ![l] = value]
    /\ UNCHANGED <<ledState, ledStateFast, ledStateSlow, blinking>>

IndicatorModuleLedBlink(l, state) ==
    SetLedState(l, state) /\ UNCHANGED turningOff

LedOffPinFirst(l) ==
    \/ turningOff = Nobody /\ turningOff' = l /\ SetPin(l, FALSE)
    \/ turningOff = l /\ turningOff' = Nobody /\ SetLedState(l, "off")

(* The state first, then the pin: a blink interrupt may come between. *)
IndicatorModuleLedOff(l) ==
    \/ turningOff = Nobody /\ turningOff' = l /\ SetLedState(l, "off")
    \/ turningOff = l /\ turningOff' = Nobody /\ SetPin(l, FALSE)

(* CodePanelStatusCb: the door drives the green LED, one event at a time. *)
DoorOpen == turningOff = Nobody /\ IndicatorModuleLedBlink("green", "fast")
DoorClosedRed == IndicatorModuleLedOff("red")
DoorClosed == IndicatorModuleLedOff("green")

-----------------------------------------------------------------------------
(* Properties *)

\* An LED that was switched off is dark, wherever a blink interrupt came: the
\* order of the two writes of LedOff leaves none that lights it again.
OffIsDark ==
    \A l \in Leds : ledState[l] = "off" /\ turningOff # l => ~pin[l]

\* An LED that is left blinking keeps going on and off.
BlinkersBlink ==
    \A l \in Leds :
        <>[](ledState[l] \in BlinkStates) => []<>pin[l] /\ []<>(~pin[l])
=============================================================================
