----------------------------- MODULE AlarmInput -----------------------------
(***************************************************************************)
(* The universal alarm inputs: the ADC channels sampled by a work item     *)
(* (adcDts.c), judged active or inactive (universalAlarmInput.c) and told  *)
(* to main() (UniversalAlarmInputCb).  A component of LocalIO.             *)
(*                                                                         *)
(* adcSampleTimer's interrupt submits the work item; the item runs on the  *)
(* system work queue, which it shares with the restart by direct method.   *)
(***************************************************************************)
EXTENDS Integers

CONSTANTS ChannelCount,   \* ARRAY_SIZE(adcChannels), from the device tree
          MAX_UIE_INPUTS, \* the channels below it are inputs, the next is the reference
          Levels,         \* Levels[c]: what the ADC may see on channel c
          InputMode       \* the mode setup() gives to both inputs

Channels == 0..(ChannelCount - 1)
Inputs == {i \in Channels : i < MAX_UIE_INPUTS}
DIGITAL_THRESHOLD == 100
DigitalModes == {"NO", "NC"}
Undefined == "undefined"  \* UIM_UNDEFINED

ASSUME ChannelCountIsPositive == ChannelCount \in Nat \ {0}
ASSUME SetupKnowsAllInputs == MAX_UIE_INPUTS \in 0..2
ASSUME LevelsAreIntegers == Levels \in [Channels -> SUBSET Int]
ASSUME InputModeIsDigital == InputMode \in DigitalModes

VARIABLES
    level,              \* what the ADC would read now
    buf,                \* the one sample buffer of all channels
    adcOutputValues,
    valuesInitialized,
    sampling,           \* adcSampleTimer runs
    submitted,          \* the work item is in the queue
    channel,            \* i of the running work item, ChannelCount between runs
    queueTaken,         \* reboot_work_fn sleeps on the system work queue
    initDone,
    inputMode,
    currentValue,
    told                \* what main() heard last about each input

adcVars == <<buf, adcOutputValues, valuesInitialized>>
inputVars == <<initDone, inputMode, currentValue, told>>
alarmVars == <<level, adcVars, sampling, submitted, channel, queueTaken, inputVars>>

Clamp(v) == IF v < 0 THEN 0 ELSE v
Samples == {0} \cup {Clamp(v) : v \in UNION {Levels[c] : c \in Channels}}
Verdicts == {"active", "inactive"}
Nothing == "nothing"

AlarmTypeOK ==
    /\ level \in [Channels -> Int] /\ \A c \in Channels : level[c] \in Levels[c]
    /\ buf \in Samples
    /\ adcOutputValues \in [Channels -> Samples]
    /\ valuesInitialized \in BOOLEAN
    /\ sampling \in BOOLEAN
    /\ submitted \in BOOLEAN
    /\ channel \in 0..ChannelCount
    /\ queueTaken \in BOOLEAN
    /\ initDone \in BOOLEAN
    /\ inputMode \in [Inputs -> DigitalModes \cup {Undefined}]
    /\ currentValue \in [Inputs -> BOOLEAN]
    /\ told \in [Inputs -> Verdicts \cup {Nothing}]

AlarmInit ==
    /\ level \in [Channels -> UNION {Levels[c] : c \in Channels}]
    /\ \A c \in Channels : level[c] \in Levels[c]
    /\ buf = 0
    /\ adcOutputValues = [c \in Channels |-> 0]
    /\ valuesInitialized = FALSE
    /\ sampling = FALSE
    /\ submitted = FALSE
    /\ channel = ChannelCount
    /\ queueTaken = FALSE
    /\ initDone = FALSE
    /\ inputMode = [i \in Inputs |-> Undefined]
    /\ currentValue = [i \in Inputs |-> FALSE]
    /\ told = [i \in Inputs |-> Nothing]

-----------------------------------------------------------------------------
(* The calls of setup() *)

(* Any channel that cannot be set up ends the initialisation. *)
UniversalAlarmInputInit ==
    /\ initDone' \in BOOLEAN
    /\ UNCHANGED <<level, adcVars, sampling, submitted, channel, queueTaken,
                   inputMode, currentValue, told>>

(* The control pin of the input is active since initCtrlGpio; AdcDtsSetCtrl1
   activates it again, and a failure to is only logged. *)
UniversalAlarmInputSetMode(i) ==
    /\ inputMode' = [j \in Inputs |-> IF j = i THEN InputMode ELSE inputMode[j]]
    /\ UNCHANGED <<level, adcVars, sampling, submitted, channel, queueTaken,
                   initDone, currentValue, told>>

(* Sampling starts whether the initialisation succeeded or not. *)
UniversalAlarmInputStart ==
    /\ sampling' = TRUE
    /\ UNCHANGED <<level, adcVars, submitted, channel, queueTaken, inputVars>>

-----------------------------------------------------------------------------
(* Sampling *)

ContactMoves(c) ==
    /\ \E v \in Levels[c] \ {level[c]} : level' = [level EXCEPT ![c] = v]
    /\ UNCHANGED <<adcVars, sampling, submitted, channel, queueTaken, inputVars>>

(* k_work_submit: an item in the queue stays there, a running one is queued
   again. *)
AdcSampleTimerCb ==
    /\ sampling
    /\ ~submitted
    /\ submitted' = TRUE
    /\ UNCHANGED <<level, adcVars, sampling, channel, queueTaken, inputVars>>

AdcWorkBegins ==
    /\ submitted
    /\ ~queueTaken
    /\ channel = ChannelCount
    /\ submitted' = FALSE
    /\ channel' = 0
    /\ UNCHANGED <<level, adcVars, sampling, queueTaken, inputVars>>

(* reboot_work_fn, run by the same thread: it sleeps until the restart. *)
RebootWorkRuns ==
    /\ ~queueTaken
    /\ channel = ChannelCount
    /\ queueTaken' = TRUE
    /\ UNCHANGED <<level, adcVars, sampling, submitted, channel, inputVars>>

ActiveSwapped(mode, v) == IF mode = "NC" THEN ~(v > DIGITAL_THRESHOLD)
                                         ELSE v > DIGITAL_THRESHOLD

Active(mode, v) == IF mode = "NO" THEN ~(v > DIGITAL_THRESHOLD)
                                  ELSE v > DIGITAL_THRESHOLD

(* HandleInputEvent for an input whose mode is set: main() is told of a change,
   and of the first value whatever it is. *)
HandleInputEvent(i, v, isInitValue) ==
    LET value == Active(inputMode[i], v) IN
    IF /\ inputMode[i] \in DigitalModes
       /\ value # currentValue[i] \/ isInitValue
    THEN /\ currentValue' = [currentValue EXCEPT ![i] = value]
         /\ told' = [told EXCEPT ![i] = IF value THEN "active" ELSE "inactive"]
    ELSE UNCHANGED <<currentValue, told>>

AdcInputChangedCb(c, v, isInitValue) ==
    IF initDone /\ c \in Inputs
    THEN HandleInputEvent(c, v, isInitValue)
    ELSE UNCHANGED <<currentValue, told>>

SampleMarksEarly(c, v) ==
    /\ channel = c
    /\ channel' = channel + 1
    /\ buf' = v
    /\ valuesInitialized' = TRUE
    /\ IF adcOutputValues[c] # v \/ ~valuesInitialized
       THEN /\ adcOutputValues' = [adcOutputValues EXCEPT ![c] = v]
            /\ AdcInputChangedCb(c, v, ~valuesInitialized)
       ELSE UNCHANGED <<adcOutputValues, currentValue, told>>
    /\ UNCHANGED <<level, sampling, submitted, queueTaken, initDone, inputMode>>

SampleOfNextChannel(c, v) ==
    /\ channel = c
    /\ channel' = channel + 1
    /\ buf' = v
    /\ valuesInitialized' = (valuesInitialized \/ channel' = ChannelCount)
    /\ IF adcOutputValues[c] # v \/ ~valuesInitialized
       THEN /\ adcOutputValues' = [adcOutputValues EXCEPT ![c] = v]
            /\ AdcInputChangedCb(channel' % ChannelCount, v, ~valuesInitialized)
       ELSE UNCHANGED <<adcOutputValues, currentValue, told>>
    /\ UNCHANGED <<level, sampling, submitted, queueTaken, initDone, inputMode>>

(* One turn of adcWorkHandlerCb's loop, v being in the buffer after adc_read.
   The values count as initialised once the last channel was taken. *)
Sample(c, v) ==
    /\ channel = c
    /\ channel' = channel + 1
    /\ buf' = v
    /\ valuesInitialized' = (valuesInitialized \/ channel' = ChannelCount)
    /\ IF adcOutputValues[c] # v \/ ~valuesInitialized
       THEN /\ adcOutputValues' = [adcOutputValues EXCEPT ![c] = v]
            /\ AdcInputChangedCb(c, v, ~valuesInitialized)
       ELSE UNCHANGED <<adcOutputValues, currentValue, told>>
    /\ UNCHANGED <<level, sampling, submitted, queueTaken, initDone, inputMode>>

ReadSucceedsUnclamped(c) == Sample(c, level[c])

(* Readings a little below zero are taken for zero. *)
ReadSucceeds(c) == Sample(c, Clamp(level[c]))

ReadFails(c) == Sample(c, buf)     \* logged; the buffer is taken all the same

AdcWork == AdcWorkBegins \/ \E c \in Channels : ReadSucceeds(c) \/ ReadFails(c)

AlarmNext ==
    \/ \E c \in Channels : ContactMoves(c)
    \/ AdcSampleTimerCb \/ AdcWork \/ RebootWorkRuns

-----------------------------------------------------------------------------
(* Properties *)

\* The channel sampled before this one, or before the end of the round.
Neighbour(c) == IF c = 0 THEN ChannelCount - 1 ELSE c - 1

\* A normally closed contact opens, and a normally open one closes, in alarm;
\* an open contact leaves the pull-up voltage on the input.
Open(v) == v >= DIGITAL_THRESHOLD + 1
Verdict(v) == IF Open(v) = (InputMode = "NC") THEN "active" ELSE "inactive"

\* After the first round main() has heard of every input, and what it heard is
\* what the last sample taken for that input says: the two change filters, in
\* adcWorkHandlerCb and in HandleInputEvent, swallow no change, nor does the
\* start-up order lose the first value.
ToldIsStored ==
    initDone /\ valuesInitialized =>
        \A i \in Inputs : told[i] = Verdict(adcOutputValues[i])

\* main() is told of a change of the input's own contact or, when its read
\* failed, of the value stored for the channel sampled before it; never of
\* anything else.
NewsIsOwnOrNeighbours ==
    \A i \in Inputs :
        told'[i] # told[i] =>
            told'[i] \in {Verdict(Clamp(level[i])), Verdict(adcOutputValues[Neighbour(i)])}

\* A contact that stays in alarm is told to main() again and again if its reads
\* succeed again and again: a failing read may end an alarm for a while but
\* not for good.  Unless Init failed, or a restart sleeps on the work queue.
AlarmRaised ==
    \A i \in Inputs :
        (/\ <>[](initDone /\ ~queueTaken /\ Verdict(Clamp(level[i])) = "active")
         /\ []<><<ReadSucceeds(i)>>_alarmVars)
            => []<>(told[i] = "active")
=============================================================================
