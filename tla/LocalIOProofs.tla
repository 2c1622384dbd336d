--------------------------- MODULE LocalIOProofs ---------------------------
(***************************************************************************)
(* What LocalIO promises for every number of channels, both modes, all     *)
(* readings and any number of buttons: its invariants, that an alarm is    *)
(* raised, and that LEDs blink.                                            *)
(***************************************************************************)
EXTENDS LocalIO, TLAPS

(* The one buffer holds what was stored for the channel sampled last. *)
BufferIsNeighbours == buf = adcOutputValues[Neighbour(channel)]

(* Nothing is sampled before setup() has set the modes. *)
SamplingWaits ==
    /\ setup \in {"buttons", "indicator", "inputs", "mode0", "mode1", "sampling"}
         => ~sampling
    /\ ~sampling => ~submitted /\ channel = ChannelCount /\ ~valuesInitialized
    /\ setup = "mode1" => \A i \in Inputs : i = 0 => inputMode[i] = InputMode
    /\ setup \in {"sampling", "redLed", "done"} => \A i \in Inputs : inputMode[i] = InputMode

(* An input whose first sample was taken: main() heard what is stored, and the
   filter of HandleInputEvent compares with the same. *)
Told(i) ==
    /\ told[i] = Verdict(adcOutputValues[i])
    /\ currentValue[i] = Active(InputMode, adcOutputValues[i])

FirstRound ==
    initDone => \A i \in Inputs :
        valuesInitialized \/ (channel < ChannelCount /\ i < channel) => Told(i)

(* Only buttons whose interrupt is enabled are ever heard of, and one callback
   runs at a time. *)
HeardAreListening ==
    /\ \A a, b \in inCallback : a = b
    /\ latched \cup inCallback \subseteq listening
    /\ \A b \in ButtonIds : heard[b] # "nothing" => b \in listening
    /\ setup = "buttons" => listening = {}

AlarmInv == AlarmTypeOK /\ BufferIsNeighbours /\ SamplingWaits /\ FirstRound
IndicatorInv == IndicatorTypeOK /\ OffIsDark
ButtonsInv == ButtonsTypeOK /\ HeardAreListening /\ HeardIsLevel

IInv == setup \in SetupSteps /\ AlarmInv /\ IndicatorInv /\ ButtonsInv

-----------------------------------------------------------------------------
\* The constants as the provers need them.
LEMMA Counts ==
    /\ ChannelCount \in Nat /\ ChannelCount > 0
    /\ Inputs \subseteq Channels
    /\ \A i \in Inputs : i = 0 \/ i = 1
    /\ ChannelCount \in 0..ChannelCount
    /\ \A c \in 0..ChannelCount : Neighbour(c) \in Channels
    /\ \A c \in Channels : c \in 0..ChannelCount /\ c + 1 \in 0..ChannelCount
                           /\ Neighbour(c + 1) = c
  BY ChannelCountIsPositive, SetupKnowsAllInputs DEF Channels, Inputs, Neighbour

\* Every value that can be in the buffer is an integer, and a reading is one.
LEMMA SamplesAreReadings ==
    /\ Samples \subseteq Int
    /\ 0 \in Samples
    /\ \A c \in Channels : \A v \in Levels[c] : v \in Int /\ Clamp(v) \in Samples
  BY LevelsAreIntegers DEF Samples, Clamp

\* The code's test and the contact's state agree, in both modes: at the
\* threshold itself the contact counts as closed.
LEMMA VerdictIsActive ==
    ASSUME NEW v \in Int
    PROVE  Verdict(v) = IF Active(InputMode, v) THEN "active" ELSE "inactive"
  BY InputModeIsDigital
     DEF Verdict, Open, Active, DigitalModes, DIGITAL_THRESHOLD

\* A verdict is one of two, in whatever mode.
LEMMA ActiveIsBoolean == ASSUME NEW m, NEW v \in Int PROVE Active(m, v) \in BOOLEAN
<1>1. (v > DIGITAL_THRESHOLD) \in BOOLEAN
  BY DEF DIGITAL_THRESHOLD
<1>2. QED
  BY <1>1, Zenon DEF Active

\* The invariant holds when the device starts.
LEMMA InitIInv == Init => IInv
<1> SUFFICES ASSUME Init PROVE IInv
  OBVIOUS
<1>1. AlarmTypeOK
  BY Counts, SamplesAreReadings, LevelsAreIntegers DEF Init, AlarmInit, AlarmTypeOK
<1>2. BufferIsNeighbours
  BY Counts DEF Init, AlarmInit, BufferIsNeighbours
<1>3. SamplingWaits /\ FirstRound
  BY Counts DEF Init, AlarmInit, SamplingWaits, FirstRound
<1>4. IndicatorInv
  BY DEF Init, IndicatorInit, IndicatorInv, IndicatorTypeOK, OffIsDark
<1>5. ButtonsInv
  BY DEF Init, ButtonsInit, ButtonsInv, ButtonsTypeOK, HeardAreListening, HeardIsLevel
<1>6. QED
  BY <1>1, <1>2, <1>3, <1>4, <1>5 DEF Init, SetupSteps, IInv, AlarmInv

-----------------------------------------------------------------------------
(* The alarm inputs. *)

\* What one turn of the sampling loop does, v being in the buffer.
LEMMA SampleKeepsInv ==
    ASSUME AlarmInv, NEW c \in Channels, NEW v \in Samples, Sample(c, v),
           setup \in SetupSteps, UNCHANGED setup
    PROVE  AlarmInv'
<1> USE Counts
<1>1. channel = c /\ sampling /\ c < ChannelCount /\ v \in Int
  BY SamplesAreReadings, ChannelCountIsPositive DEF Sample, AlarmInv, SamplingWaits, Channels
<1>2. setup \in {"redLed", "done"}
  BY <1>1 DEF AlarmInv, SamplingWaits, SetupSteps
<1>3. adcOutputValues' = [adcOutputValues EXCEPT ![c] = v]
  <2>1. CASE adcOutputValues[c] # v \/ ~valuesInitialized
    BY <2>1 DEF Sample
  <2>2. CASE ~(adcOutputValues[c] # v \/ ~valuesInitialized)
    BY <2>2 DEF Sample, AlarmInv, AlarmTypeOK
  <2>3. QED
    BY <2>1, <2>2
<1>4. /\ told' \in [Inputs -> Verdicts \cup {Nothing}]
      /\ currentValue' \in [Inputs -> BOOLEAN]
  BY <1>1, ActiveIsBoolean
     DEF Sample, AdcInputChangedCb, HandleInputEvent, AlarmInv, AlarmTypeOK, Verdicts
<1>5. AlarmTypeOK'
  BY <1>1, <1>3, <1>4 DEF Sample, AlarmInv, AlarmTypeOK
<1>6. BufferIsNeighbours'
  BY <1>1, <1>3 DEF Sample, BufferIsNeighbours, AlarmInv, AlarmTypeOK
<1>7. SamplingWaits'
  BY <1>1 DEF Sample, SamplingWaits, AlarmInv
<1>8. FirstRound'
  <2> SUFFICES ASSUME initDone', NEW i \in Inputs,
                      valuesInitialized' \/ (channel' < ChannelCount /\ i < channel')
               PROVE  Told(i)'
    BY DEF FirstRound, Sample
  <2>1. initDone
    BY DEF Sample
  <2>2. CASE i # c
    <3>1. valuesInitialized \/ (channel < ChannelCount /\ i < channel)
      <4>1. i \in Int /\ i < ChannelCount /\ channel \in Int /\ ChannelCount \in Int
        BY <1>1 DEF Channels, Inputs
      <4>2. /\ channel' = channel + 1
            /\ valuesInitialized' => valuesInitialized \/ channel' = ChannelCount
        BY DEF Sample
      <4>3. i # channel
        BY <1>1, <2>2
      <4>4. QED
        BY <1>1, <4>1, <4>2, <4>3
    <3>2. UNCHANGED <<told[i], currentValue[i], adcOutputValues[i]>>
      BY <1>3, <2>2 DEF Sample, AdcInputChangedCb, HandleInputEvent, AlarmInv, AlarmTypeOK
    <3>3. QED
      BY <2>1, <3>1, <3>2 DEF Told, AlarmInv, FirstRound
  <2>3. CASE i = c
    <3>1. adcOutputValues'[i] = v
      BY <1>3, <2>3 DEF AlarmInv, AlarmTypeOK
    <3>2. CASE inputMode[i] = InputMode /\ (adcOutputValues[c] # v \/ ~valuesInitialized)
      <4>1. HandleInputEvent(i, v, ~valuesInitialized)
        BY <2>1, <2>3, <3>2 DEF Sample, AdcInputChangedCb
      <4>2. CASE Active(InputMode, v) # currentValue[i] \/ ~valuesInitialized
        <5>1. /\ currentValue'[i] = Active(InputMode, v)
              /\ told'[i] = IF Active(InputMode, v) THEN "active" ELSE "inactive"
          BY <3>2, <4>1, <4>2, InputModeIsDigital
             DEF HandleInputEvent, AlarmInv, AlarmTypeOK
        <5>2. QED
          BY <1>1, <3>1, <5>1, VerdictIsActive DEF Told
      <4>3. CASE ~(Active(InputMode, v) # currentValue[i] \/ ~valuesInitialized)
        <5>1. UNCHANGED <<currentValue, told>>
          BY <3>2, <4>1, <4>3 DEF HandleInputEvent
        <5>2. Told(i) /\ adcOutputValues[i] \in Int
          BY <2>1, <4>3, SamplesAreReadings DEF AlarmInv, FirstRound, AlarmTypeOK
        <5>3. told[i] = IF currentValue[i] THEN "active" ELSE "inactive"
          BY <5>2, VerdictIsActive DEF Told
        <5>4. QED
          BY <1>1, <3>1, <4>3, <5>1, <5>3, VerdictIsActive DEF Told
      <4>4. QED
        BY <4>2, <4>3
    <3>3. CASE adcOutputValues[c] = v /\ valuesInitialized
      <4>1. UNCHANGED <<currentValue, told>>
        BY <3>3 DEF Sample
      <4>2. QED
        BY <2>1, <2>3, <3>1, <3>3, <4>1 DEF Told, AlarmInv, FirstRound
    <3>4. inputMode[i] = InputMode
      BY <1>1, <1>2 DEF AlarmInv, SamplingWaits, SetupSteps
    <3>5. QED
      BY <3>2, <3>3, <3>4
  <2>4. QED
    BY <2>2, <2>3
<1>9. QED
  BY <1>5, <1>6, <1>7, <1>8 DEF AlarmInv
-----------------------------------------------------------------------------
\* Contacts, the timer, the work queue and the calls of setup().
LEMMA AlarmStepKeepsInv ==
    ASSUME AlarmInv, setup \in SetupSteps, UNCHANGED setup, AlarmNext
    PROVE  AlarmInv'
<1> USE Counts
<1>1. ASSUME NEW c \in Channels, ContactMoves(c) PROVE AlarmInv'
  <2>1. PICK v \in Levels[c] : level' = [level EXCEPT ![c] = v]
    BY <1>1 DEF ContactMoves
  <2>2. level' \in [Channels -> Int] /\ \A d \in Channels : level'[d] \in Levels[d]
    BY <2>1, SamplesAreReadings DEF AlarmInv, AlarmTypeOK
  <2>3. AlarmTypeOK'
    BY <1>1, <2>2 DEF ContactMoves, AlarmInv, AlarmTypeOK, adcVars, inputVars
  <2>4. BufferIsNeighbours' /\ SamplingWaits' /\ FirstRound'
    BY <1>1 DEF ContactMoves, AlarmInv, adcVars, inputVars, BufferIsNeighbours,
                SamplingWaits, FirstRound, Told
  <2>5. QED
    BY <2>3, <2>4 DEF AlarmInv
<1>2. CASE AdcSampleTimerCb
  BY <1>2 DEF AdcSampleTimerCb, adcVars, inputVars, AlarmInv, AlarmTypeOK,
              BufferIsNeighbours, SamplingWaits, FirstRound, Told
<1>3. CASE AdcWorkBegins
  <2>1. channel = ChannelCount /\ channel' = 0 /\ sampling
    BY <1>3 DEF AdcWorkBegins, AlarmInv, SamplingWaits
  <2>2. AlarmTypeOK' /\ SamplingWaits'
    <3>1. channel' \in 0..ChannelCount
      BY <2>1
    <3>2. AlarmTypeOK'
      BY <1>3, <3>1 DEF AdcWorkBegins, adcVars, inputVars, AlarmInv, AlarmTypeOK
    <3>3. SamplingWaits'
      BY <1>3, <2>1 DEF AdcWorkBegins, inputVars, AlarmInv, SamplingWaits
    <3>4. QED
      BY <3>2, <3>3
  <2>3. BufferIsNeighbours'
    BY <1>3, <2>1, ChannelCountIsPositive
       DEF AdcWorkBegins, adcVars, AlarmInv, BufferIsNeighbours, Neighbour
  <2>4. FirstRound'
    <3> SUFFICES ASSUME initDone, NEW i \in Inputs,
                        valuesInitialized \/ i < 0
                 PROVE  Told(i)
      BY <1>3, <2>1 DEF AdcWorkBegins, adcVars, inputVars, FirstRound, Told
    <3>1. valuesInitialized
      OBVIOUS
    <3>2. QED
      BY <3>1 DEF AlarmInv, FirstRound
  <2>5. QED
    BY <2>2, <2>3, <2>4 DEF AlarmInv
<1>4. ASSUME NEW c \in Channels, ReadSucceeds(c) \/ ReadFails(c) PROVE AlarmInv'
  <2>1. Clamp(level[c]) \in Samples /\ buf \in Samples
    BY SamplesAreReadings DEF AlarmInv, AlarmTypeOK
  <2>2. QED
    BY <1>4, <2>1, SampleKeepsInv DEF ReadSucceeds, ReadFails
<1>5. CASE RebootWorkRuns
  BY <1>5 DEF RebootWorkRuns, adcVars, inputVars, AlarmInv, AlarmTypeOK,
              BufferIsNeighbours, SamplingWaits, FirstRound, Told
<1>6. QED
  BY <1>1, <1>2, <1>3, <1>4, <1>5 DEF AlarmNext, AdcWork

\* UniversalAlarmInputStart finds nothing sampled yet.
LEMMA StartInputsKeepsInv == ASSUME AlarmInv, StartInputs PROVE AlarmInv'
<1> USE Counts DEF Step
<1>1. ~sampling /\ ~valuesInitialized /\ channel = ChannelCount
  BY DEF StartInputs, AlarmInv, SamplingWaits
<1>2. CASE Step("inputs", "mode0") /\ UniversalAlarmInputInit
  BY <1>1, <1>2 DEF UniversalAlarmInputInit, adcVars, AlarmInv, AlarmTypeOK,
                    BufferIsNeighbours, SamplingWaits, FirstRound, Told
<1>3. CASE Step("mode0", "mode1") /\ UniversalAlarmInputSetMode(0)
  BY <1>1, <1>3, InputModeIsDigital
     DEF UniversalAlarmInputSetMode, adcVars, AlarmInv, AlarmTypeOK,
         BufferIsNeighbours, SamplingWaits, FirstRound, Told
<1>4. CASE Step("mode1", "sampling") /\ UniversalAlarmInputSetMode(1)
  <2>1. \A i \in Inputs : inputMode'[i] = InputMode
    BY <1>4 DEF UniversalAlarmInputSetMode, AlarmInv, AlarmTypeOK, SamplingWaits
  <2>2. QED
    BY <1>1, <1>4, <2>1, InputModeIsDigital
       DEF UniversalAlarmInputSetMode, adcVars, AlarmInv, AlarmTypeOK,
           BufferIsNeighbours, SamplingWaits, FirstRound, Told
<1>5. CASE Step("sampling", "redLed") /\ UniversalAlarmInputStart
  BY <1>1, <1>5 DEF UniversalAlarmInputStart, adcVars, inputVars, AlarmInv, AlarmTypeOK,
                    BufferIsNeighbours, SamplingWaits, FirstRound, Told
<1>6. QED
  BY <1>2, <1>3, <1>4, <1>5 DEF StartInputs

\* Steps of setup() that leave the inputs alone.
LEMMA SetupKeepsAlarmInv ==
    ASSUME AlarmInv, UNCHANGED alarmVars,
           \/ setup = "buttons" /\ setup' = "indicator"
           \/ setup = "indicator" /\ setup' = "inputs"
           \/ setup = "redLed" /\ setup' = "done"
           \/ UNCHANGED setup
    PROVE  AlarmInv'
  BY DEF alarmVars, adcVars, inputVars, AlarmInv, AlarmTypeOK, BufferIsNeighbours,
         SamplingWaits, FirstRound, Told

-----------------------------------------------------------------------------
(* LEDs and buttons. *)

\* Whatever a blink interrupt, the door or setup() does next.
LEMMA IndicatorKeepsInv ==
    ASSUME IndicatorInv,
           \/ IndicatorModuleStart
           \/ IndicatorModuleLedBlink("red", "slow")
           \/ BlinkFastTimerCb \/ BlinkSlowTimerCb \/ DoorOpen \/ DoorClosed
           \/ UNCHANGED indicatorVars
    PROVE  IndicatorInv'
<1> USE DEF IndicatorInv, IndicatorTypeOK, OffIsDark, Leds, BlinkStates, Nobody
<1>1. CASE IndicatorModuleStart
  BY <1>1 DEF IndicatorModuleStart
<1>2. CASE IndicatorModuleLedBlink("red", "slow")
  BY <1>2 DEF IndicatorModuleLedBlink, SetLedState
<1>3. CASE BlinkFastTimerCb
  BY <1>3 DEF BlinkFastTimerCb, Driven
<1>4. CASE BlinkSlowTimerCb
  BY <1>4 DEF BlinkSlowTimerCb, Driven
<1>5. CASE DoorOpen
  BY <1>5 DEF DoorOpen, IndicatorModuleLedBlink, SetLedState
<1>6. CASE DoorClosed
  BY <1>6 DEF DoorClosed, IndicatorModuleLedOff, SetLedState, SetPin
<1>7. CASE UNCHANGED indicatorVars
  BY <1>7 DEF indicatorVars
<1>8. QED
  BY <1>1, <1>2, <1>3, <1>4, <1>5, <1>6, <1>7

\* Edges, interrupts and callbacks keep what was heard of the buttons.
LEMMA ButtonsKeepInv ==
    ASSUME ButtonsInv,
           \/ setup = "buttons" /\ ButtonsHandlerStart /\ setup' # "buttons"
           \/ ButtonsNext /\ UNCHANGED setup
           \/ UNCHANGED buttonVars /\ (setup' = "buttons" => setup = "buttons")
    PROVE  ButtonsInv'
<1> USE DEF ButtonsInv, ButtonsTypeOK, HeardAreListening, HeardIsLevel, Level
<1>1. CASE setup = "buttons" /\ ButtonsHandlerStart /\ setup' # "buttons"
  BY <1>1 DEF ButtonsHandlerStart
<1>2. ASSUME NEW b \in ButtonIds, UNCHANGED setup,
             Edge(b) \/ Interrupt(b) \/ ButtonPressedCb(b)
      PROVE  ButtonsInv'
  <2>1. CASE Edge(b)
    BY <1>2, <2>1 DEF Edge
  <2>2. CASE Interrupt(b)
    BY <1>2, <2>2 DEF Interrupt
  <2>3. CASE ButtonPressedCb(b)
    BY <1>2, <2>3 DEF ButtonPressedCb
  <2>4. QED
    BY <1>2, <2>1, <2>2, <2>3
<1>3. CASE UNCHANGED buttonVars /\ (setup' = "buttons" => setup = "buttons")
  BY <1>3 DEF buttonVars
<1>4. QED
  BY <1>1, <1>2, <1>3 DEF ButtonsNext

-----------------------------------------------------------------------------
\* Every step of the composition preserves the invariant.
LEMMA NextIInv == IInv /\ [Next]_vars => IInv'
<1> SUFFICES ASSUME IInv, [Next]_vars PROVE IInv'
  OBVIOUS
<1> USE DEF IInv
<1>1. CASE StartButtons
  BY <1>1, SetupKeepsAlarmInv, IndicatorKeepsInv, ButtonsKeepInv
     DEF StartButtons, Step, SetupSteps
<1>2. CASE StartIndicator
  BY <1>2, SetupKeepsAlarmInv, IndicatorKeepsInv, ButtonsKeepInv
     DEF StartIndicator, Step, SetupSteps
<1>3. CASE StartInputs
  <2>1. setup' \in SetupSteps /\ setup' # "buttons"
    BY <1>3 DEF StartInputs, Step, SetupSteps
  <2>2. UNCHANGED <<indicatorVars, buttonVars>>
    BY <1>3 DEF StartInputs
  <2>3. QED
    BY <1>3, <2>1, <2>2, StartInputsKeepsInv, IndicatorKeepsInv, ButtonsKeepInv
<1>4. CASE BlinkRed
  BY <1>4, SetupKeepsAlarmInv, IndicatorKeepsInv, ButtonsKeepInv
     DEF BlinkRed, Step, SetupSteps
<1>5. CASE AlarmStep
  BY <1>5, AlarmStepKeepsInv, IndicatorKeepsInv, ButtonsKeepInv DEF AlarmStep
<1>6. CASE BlinkStep(BlinkFastTimerCb) \/ BlinkStep(BlinkSlowTimerCb) \/ Door
  BY <1>6, SetupKeepsAlarmInv, IndicatorKeepsInv, ButtonsKeepInv DEF BlinkStep, Door
<1>7. CASE ButtonStep
  BY <1>7, SetupKeepsAlarmInv, IndicatorKeepsInv, ButtonsKeepInv DEF ButtonStep
<1>8. CASE UNCHANGED vars
  BY <1>8, SetupKeepsAlarmInv, IndicatorKeepsInv, ButtonsKeepInv DEF vars
<1>9. QED
  BY <1>1, <1>2, <1>3, <1>4, <1>5, <1>6, <1>7, <1>8 DEF Next, Setup

\* The three inductive invariants hold in every reachable state.
THEOREM Invariance == Spec => []IInv
  BY InitIInv, NextIInv, PTL DEF Spec

\* Every variable of the three components keeps its type.
THEOREM TypeCorrect == Spec => []TypeOK
<1>1. IInv => TypeOK
  BY DEF IInv, AlarmInv, IndicatorInv, ButtonsInv, TypeOK
<1>2. QED
  BY <1>1, Invariance, PTL

\* What main() heard last of an input is what the last stored sample says, at
\* the threshold as everywhere else, for both modes: no change is filtered away
\* and the first value is not lost (adcDts.c, universalAlarmInput.c).
THEOREM NewsIsComplete == Spec => []ToldIsStored
<1>1. IInv => ToldIsStored
  BY DEF IInv, AlarmInv, FirstRound, Told, ToldIsStored
<1>2. QED
  BY <1>1, Invariance, PTL

\* An LED that was switched off is dark (indicatorModule.c).
THEOREM OffStaysDark == Spec => []OffIsDark
<1>1. IInv => OffIsDark
  BY DEF IInv, IndicatorInv
<1>2. QED
  BY <1>1, Invariance, PTL

\* With no interrupt outstanding main() knows a button's level, or was told it is
\* pressed because its pin could not be read (buttonModule.c).
THEOREM ButtonsAreAccurate == Spec => []HeardIsLevel
<1>1. IInv => HeardIsLevel
  BY DEF IInv, ButtonsInv
<1>2. QED
  BY <1>1, Invariance, PTL

\* A change main() is told of is the contact's own or, after a failed read, the
\* value stored for the channel before it.
THEOREM NewsIsFounded == Spec => NoForeignNews
<1>1. ASSUME IInv, [Next]_vars PROVE [NewsIsOwnOrNeighbours]_vars
  <2> SUFFICES ASSUME NEW i \in Inputs, told'[i] # told[i]
               PROVE  told'[i] \in {Verdict(Clamp(level[i])),
                                    Verdict(adcOutputValues[Neighbour(i)])}
    BY DEF NewsIsOwnOrNeighbours
  <2>1. PICK c \in Channels : ReadSucceeds(c) \/ ReadFails(c)
    <3>1. ~UNCHANGED told
      OBVIOUS
    <3>2. CASE AlarmStep
      BY <3>1, <3>2 DEF AlarmStep, AlarmNext, AdcWork, ContactMoves, AdcSampleTimerCb,
                        AdcWorkBegins, RebootWorkRuns, inputVars
    <3>3. CASE ~AlarmStep
      <4>1. CASE StartInputs
        BY <3>1, <4>1 DEF StartInputs, UniversalAlarmInputInit,
              UniversalAlarmInputSetMode, UniversalAlarmInputStart, inputVars
      <4>2. CASE ~StartInputs
        BY <1>1, <3>1, <3>3, <4>2
           DEF Next, Setup, StartButtons, StartIndicator, BlinkRed, BlinkStep, Door,
               ButtonStep, vars, alarmVars, inputVars
      <4>3. QED
        BY <4>1, <4>2
    <3>4. QED
      BY <3>2, <3>3
  <2>2. PICK v \in {Clamp(level[c]), buf} : Sample(c, v)
    BY <2>1 DEF ReadSucceeds, ReadFails
  <2>3. i = c /\ HandleInputEvent(i, v, ~valuesInitialized)
    <3>1. told \in [Inputs -> Verdicts \cup {Nothing}]
      BY <1>1 DEF IInv, AlarmInv, AlarmTypeOK
    <3>2. AdcInputChangedCb(c, v, ~valuesInitialized)
      BY <2>2 DEF Sample
    <3>3. HandleInputEvent(c, v, ~valuesInitialized)
      BY <3>2 DEF AdcInputChangedCb
    <3>4. i = c
      BY <3>1, <3>3 DEF HandleInputEvent
    <3>5. QED
      BY <3>3, <3>4
  <2>4. v \in Int
    BY <1>1, <2>2, SamplesAreReadings DEF IInv, AlarmInv, AlarmTypeOK
  <2>5. inputMode[i] = InputMode
    <3>1. channel < ChannelCount
      BY <2>2, Counts DEF Sample, Channels
    <3>2. sampling
      BY <1>1, <3>1, Counts DEF IInv, AlarmInv, SamplingWaits
    <3>3. QED
      BY <1>1, <3>2 DEF IInv, AlarmInv, SamplingWaits, SetupSteps
  <2>6. told'[i] = IF Active(InputMode, v) THEN "active" ELSE "inactive"
    BY <1>1, <2>3, <2>5 DEF HandleInputEvent, IInv, AlarmInv, AlarmTypeOK
  <2>7. told'[i] = Verdict(v)
    BY <2>4, <2>6, VerdictIsActive
  <2>8. buf = adcOutputValues[Neighbour(c)]
    BY <1>1, <2>2 DEF Sample, IInv, AlarmInv, BufferIsNeighbours
  <2>9. QED
    BY <2>2, <2>3, <2>7, <2>8
<1>2. QED
  BY <1>1, Invariance, PTL DEF Spec, NoForeignNews

-----------------------------------------------------------------------------
(* What must happen. *)

\* A read of an input that succeeds is told to main(): after it main() knows
\* whether the contact is in alarm.
LEMMA ReadIsTold ==
    ASSUME IInv, [Next]_vars, NEW i \in Inputs, initDone, ReadSucceeds(i)
    PROVE  told'[i] = Verdict(Clamp(level[i]))
<1> USE Counts
<1>1. i \in Channels /\ Sample(i, Clamp(level[i]))
  BY DEF ReadSucceeds
<1>2. adcOutputValues'[i] = Clamp(level[i])
  BY <1>1 DEF Sample, IInv, AlarmInv, AlarmTypeOK
<1>3. FirstRound' /\ initDone'
  BY <1>1, NextIInv DEF IInv, AlarmInv, Sample
<1>4. valuesInitialized' \/ (channel' < ChannelCount /\ i < channel')
  <2>1. channel' = i + 1 /\ i + 1 \in 0..ChannelCount /\ i \in Int
    BY <1>1 DEF Sample, Channels
  <2>2. CASE i + 1 = ChannelCount
    BY <1>1, <2>1, <2>2 DEF Sample
  <2>3. CASE i + 1 # ChannelCount
    BY <2>1, <2>3
  <2>4. QED
    BY <2>2, <2>3
<1>5. Told(i)'
  BY <1>3, <1>4 DEF FirstRound
<1>6. QED
  BY <1>2, <1>5 DEF Told

\* An alarm whose reads succeed again and again is told again and again, however
\* many reads fail in between (AlarmRaised); the reads are the premise of the
\* property, so this needs no fairness.
THEOREM AlarmIsRaised == Spec => AlarmRaised
<1> SUFFICES ASSUME NEW i \in Inputs
             PROVE  Spec =>
                      ((/\ <>[](initDone /\ ~queueTaken /\ Verdict(Clamp(level[i])) = "active")
                        /\ []<><<ReadSucceeds(i)>>_alarmVars)
                         => []<>(told[i] = "active"))
  BY DEF AlarmRaised
<1> DEFINE InAlarm == initDone /\ ~queueTaken /\ Verdict(Clamp(level[i])) = "active"
           Raised == told[i] = "active"
<1>1. IInv /\ InAlarm /\ [Next]_vars /\ <<ReadSucceeds(i)>>_alarmVars => Raised'
  BY ReadIsTold
<1> HIDE DEF InAlarm, Raised
<1>2. Spec => (<>[]InAlarm /\ []<><<ReadSucceeds(i)>>_alarmVars => []<>Raised)
  BY <1>1, Invariance, PTL DEF Spec
<1>3. QED
  BY <1>2 DEF InAlarm, Raised

(* Who blinks how: the red LED slowly, from setup() on, and the green one fast,
   while the door is open. *)
LedRoles ==
    /\ ledState["red"] \in {"off", "slow"}
    /\ ledState["green"] \in {"off", "fast"}
    /\ ledState["blue"] = "off"
    /\ setup \notin {"buttons", "indicator"} => blinking
    /\ setup = "done" => ledState["red"] = "slow"
    /\ ~blinking => \A l \in Leds : ledState[l] = "off"

\* All LEDs are off at first.
LEMMA InitRoles == Init => LedRoles
  BY DEF Init, IndicatorInit, LedRoles, Leds

\* setup() and the door give each LED only the state that is its own.
LEMMA NextRoles == IInv /\ LedRoles /\ [Next]_vars => LedRoles'
<1> SUFFICES ASSUME IInv, LedRoles, [Next]_vars PROVE LedRoles'
  OBVIOUS
<1> USE DEF LedRoles, IInv, IndicatorInv, IndicatorTypeOK, Leds, BlinkStates, indicatorVars,
            SetupSteps, Step
<1>1. CASE Setup
  BY <1>1 DEF Setup, StartButtons, StartIndicator, StartInputs, BlinkRed,
              IndicatorModuleStart, IndicatorModuleLedBlink, SetLedState
<1>2. CASE AlarmStep \/ ButtonStep
  BY <1>2 DEF AlarmStep, ButtonStep
<1>3. CASE BlinkStep(BlinkFastTimerCb) \/ BlinkStep(BlinkSlowTimerCb)
  BY <1>3 DEF BlinkStep, BlinkFastTimerCb, BlinkSlowTimerCb
<1>4. CASE Door
  BY <1>4 DEF Door, DoorOpen, DoorClosed, IndicatorModuleLedBlink,
              IndicatorModuleLedOff, SetLedState, SetPin
<1>5. CASE UNCHANGED vars
  BY <1>5 DEF vars
<1>6. QED
  BY <1>1, <1>2, <1>3, <1>4, <1>5 DEF Next

\* Each LED has a state of its own in every reachable state.
THEOREM RolesInvariance == Spec => [](IInv /\ LedRoles)
<1>1. Init => IInv /\ LedRoles
  BY InitIInv, InitRoles
<1>2. (IInv /\ LedRoles) /\ [Next]_vars => (IInv /\ LedRoles)'
  BY NextIInv, NextRoles
<1>3. QED
  BY <1>1, <1>2, PTL DEF Spec

\* A tick drives the LEDs of its state with its toggle and turns the toggle over;
\* nobody else touches the toggle.
LEMMA Ticks ==
    ASSUME IInv, [Next]_vars, NEW l \in Leds
    PROVE  /\ BlinkStep(BlinkFastTimerCb) =>
                /\ ledStateFast' <=> ~ledStateFast
                /\ ledState[l] = "fast" => (pin[l]' <=> ledStateFast)
           /\ BlinkStep(BlinkSlowTimerCb) =>
                /\ ledStateSlow' <=> ~ledStateSlow
                /\ ledState[l] = "slow" => (pin[l]' <=> ledStateSlow)
           /\ ~BlinkStep(BlinkFastTimerCb) => (ledStateFast' <=> ledStateFast)
           /\ ~BlinkStep(BlinkSlowTimerCb) => (ledStateSlow' <=> ledStateSlow)
<1>1. BlinkStep(BlinkFastTimerCb) =>
        /\ ledStateFast' <=> ~ledStateFast
        /\ ledState[l] = "fast" => (pin[l]' <=> ledStateFast)
        /\ ledStateSlow' = ledStateSlow
  BY DEF BlinkStep, BlinkFastTimerCb, Driven
<1>2. BlinkStep(BlinkSlowTimerCb) =>
        /\ ledStateSlow' <=> ~ledStateSlow
        /\ ledState[l] = "slow" => (pin[l]' <=> ledStateSlow)
        /\ ledStateFast' = ledStateFast
  BY DEF BlinkStep, BlinkSlowTimerCb, Driven
<1>3. ~BlinkStep(BlinkFastTimerCb) /\ ~BlinkStep(BlinkSlowTimerCb) =>
        ledStateFast' = ledStateFast /\ ledStateSlow' = ledStateSlow
  BY DEF Next, Setup, StartButtons, StartIndicator, StartInputs, BlinkRed,
         IndicatorModuleStart, IndicatorModuleLedBlink, SetLedState, AlarmStep, Door,
         DoorOpen, DoorClosed, IndicatorModuleLedOff, SetPin, ButtonStep,
         indicatorVars, vars
<1>4. QED
  BY <1>1, <1>2, <1>3

(* The premises of what follows: weak fairness with the guard of the action
   written out, which is what Fairness says of it.  A blink timer that runs
   keeps ticking, and the main thread goes on with setup(). *)
FastTicks == []<>(~blinking) \/ []<><<BlinkStep(BlinkFastTimerCb)>>_vars
SlowTicks == []<>(~blinking) \/ []<><<BlinkStep(BlinkSlowTimerCb)>>_vars
SetupGoesOn == []<>(setup = "done") \/ []<><<Setup>>_vars

\* The green LED, as long as it is left blinking: the toggle turns for ever.
LEMMA GreenBlinks ==
    Spec /\ FastTicks =>
        (<>[](ledState["green"] = "fast") => []<>pin["green"] /\ []<>(~pin["green"]))
<1> DEFINE I == IInv /\ LedRoles
           On == ledState["green"] = "fast"
           Lit == pin["green"]
           Toggle == ledStateFast
<1>1. /\ I /\ On /\ <<BlinkStep(BlinkFastTimerCb)>>_vars /\ [Next]_vars
            => (Toggle' <=> ~Toggle) /\ (Lit' <=> Toggle)
      /\ I /\ [Next]_vars /\ ~<<BlinkStep(BlinkFastTimerCb)>>_vars => (Toggle' <=> Toggle)
  BY Ticks DEF vars, indicatorVars, Leds
<1>2. I /\ On => blinking
  BY DEF LedRoles, Leds
<1> HIDE DEF I, On, Lit, Toggle
<1>3. Spec => []I
  BY RolesInvariance DEF I
<1>4. Spec /\ FastTicks => (<>[]On => []<>Lit /\ []<>(~Lit))
  BY <1>1, <1>2, <1>3, PTL DEF Spec, FastTicks
<1>5. QED
  BY <1>4 DEF On, Lit

\* The red LED, by the other timer.
LEMMA RedBlinks ==
    Spec /\ SlowTicks =>
        (<>[](ledState["red"] = "slow") => []<>pin["red"] /\ []<>(~pin["red"]))
<1> DEFINE I == IInv /\ LedRoles
           On == ledState["red"] = "slow"
           Lit == pin["red"]
           Toggle == ledStateSlow
<1>1. /\ I /\ On /\ <<BlinkStep(BlinkSlowTimerCb)>>_vars /\ [Next]_vars
            => (Toggle' <=> ~Toggle) /\ (Lit' <=> Toggle)
      /\ I /\ [Next]_vars /\ ~<<BlinkStep(BlinkSlowTimerCb)>>_vars => (Toggle' <=> Toggle)
  BY Ticks DEF vars, indicatorVars, Leds
<1>2. I /\ On => blinking
  BY DEF LedRoles, Leds
<1> HIDE DEF I, On, Lit, Toggle
<1>3. Spec => []I
  BY RolesInvariance DEF I
<1>4. Spec /\ SlowTicks => (<>[]On => []<>Lit /\ []<>(~Lit))
  BY <1>1, <1>2, <1>3, PTL DEF Spec, SlowTicks
<1>5. QED
  BY <1>4 DEF On, Lit

\* Every LED that is left blinking goes on and off for ever (BlinkersBlink),
\* whatever the door, the other timer and setup() do meanwhile.
THEOREM LedsBlink == Spec /\ FastTicks /\ SlowTicks => BlinkersBlink
<1> SUFFICES ASSUME NEW l \in Leds
             PROVE  Spec /\ FastTicks /\ SlowTicks =>
                      (<>[](ledState[l] \in BlinkStates) => []<>pin[l] /\ []<>(~pin[l]))
  BY DEF BlinkersBlink
<1> DEFINE Blinks == ledState[l] \in BlinkStates
           Lit == pin[l]
           IsGreen == l = "green"
           GreenOn == ledState["green"] = "fast"
           GreenLit == pin["green"]
           RedOn == ledState["red"] = "slow"
           RedLit == pin["red"]
<1>1. /\ IsGreen' <=> IsGreen
      /\ LedRoles /\ IsGreen => (Blinks <=> GreenOn) /\ (Lit <=> GreenLit)
      /\ LedRoles /\ ~IsGreen /\ Blinks => RedOn /\ (Lit <=> RedLit)
  BY DEF LedRoles, BlinkStates, Leds
<1>2. /\ Spec /\ FastTicks => (<>[]GreenOn => []<>GreenLit /\ []<>(~GreenLit))
      /\ Spec /\ SlowTicks => (<>[]RedOn => []<>RedLit /\ []<>(~RedLit))
  BY GreenBlinks, RedBlinks
<1> HIDE DEF Blinks, Lit, IsGreen, GreenOn, GreenLit, RedOn, RedLit
<1>3. Spec /\ FastTicks /\ SlowTicks => (<>[]Blinks => []<>Lit /\ []<>(~Lit))
  BY <1>1, <1>2, RolesInvariance, PTL
<1>4. QED
  BY <1>3 DEF Blinks, Lit

\* One step of setup() after the other.
LEMMA SetupInOrder ==
    ASSUME [Next]_vars
    PROVE  /\ UNCHANGED setup \/ Setup
           /\ Setup => \/ setup = "buttons" /\ setup' = "indicator"
                       \/ setup = "indicator" /\ setup' = "inputs"
                       \/ setup = "inputs" /\ setup' = "mode0"
                       \/ setup = "mode0" /\ setup' = "mode1"
                       \/ setup = "mode1" /\ setup' = "sampling"
                       \/ setup = "sampling" /\ setup' = "redLed"
                       \/ setup = "redLed" /\ setup' = "done"
  BY DEF Next, Setup, StartButtons, StartIndicator, StartInputs, BlinkRed, Step,
         AlarmStep, BlinkStep, Door, ButtonStep, vars

\* setup() reaches its end and the red LED blinks ever after (RedLedBlinks).
THEOREM RedLedKeepsBlinking == Spec /\ SlowTicks /\ SetupGoesOn => RedLedBlinks
<1> DEFINE I == IInv /\ LedRoles
           A == setup = "buttons"
           B == setup = "indicator"
           C == setup = "inputs"
           D == setup = "mode0"
           E == setup = "mode1"
           F == setup = "sampling"
           G == setup = "redLed"
           H == setup = "done"
           On == ledState["red"] = "slow"
<1>1. [Next]_vars => /\ A => A' \/ (Setup /\ B')
                     /\ B => B' \/ (Setup /\ C')
                     /\ C => C' \/ (Setup /\ D')
                     /\ D => D' \/ (Setup /\ E')
                     /\ E => E' \/ (Setup /\ F')
                     /\ F => F' \/ (Setup /\ G')
                     /\ G => G' \/ (Setup /\ H')
                     /\ H => H'
  BY SetupInOrder
<1>2. [Next]_vars /\ <<Setup>>_vars => /\ A => B'
                                       /\ B => C'
                                       /\ C => D'
                                       /\ D => E'
                                       /\ E => F'
                                       /\ F => G'
                                       /\ G => H'
                                       /\ ~H
  BY SetupInOrder
<1>3. Init => A
  BY DEF Init
<1>4. I /\ H => On
  BY DEF LedRoles
<1> HIDE DEF I, A, B, C, D, E, F, G, H, On
<1>5. Spec => []I
  BY RolesInvariance DEF I
<1>6. Spec /\ SetupGoesOn => <>[]H
  <2>1. Spec /\ SetupGoesOn => []<>H \/ []<><<Setup>>_vars
    BY DEF SetupGoesOn, H
  <2>2. QED
    BY <1>1, <1>2, <1>3, <2>1, PTL DEF Spec
<1>7. Spec /\ SetupGoesOn => <>[]On
  BY <1>4, <1>5, <1>6, PTL
<1>8. Spec /\ SlowTicks => (<>[]On => []<>pin["red"] /\ []<>(~pin["red"]))
  BY RedBlinks DEF On
<1>9. QED
  BY <1>7, <1>8, PTL DEF RedLedBlinks
=============================================================================
