-------------------------- MODULE ProvisioningProofs --------------------------
(***************************************************************************)
(* Safety of Provisioning for every set of strings, however long a text is *)
(* kept and however much room main() has for it, every kind of line, every *)
(* queue size and any number of typed lines and power cuts; and that the   *)
(* check comes to an end, for every queue up to the firmware's.            *)
(***************************************************************************)
EXTENDS Provisioning, Integers, TLAPS

(* Every boot starts from cleared RAM, at the first item. *)
FreshStart ==
    /\ phase \in {"load", "modemInit"} => item = 1 /\ out = [k \in Keys |-> Empty]
    /\ phase = "load" => RamCleared

(* A setting that is about to be confirmed passed the length check. *)
ConfirmedFits == phase = "confirm" /\ Current \in Keys => txBuf \in Accepted

(* Without input there is nothing to read and nothing to confirm, a lookup
   fails only on a buffer that is empty, and only such a setting is asked for. *)
Untouched ==
    typed = 0 =>
        /\ queue = <<>>
        /\ phase \notin {"confirm", "halted"}
        /\ \A k \in Keys : ~found[k] => buffer[k] = Empty
        /\ phase = "ask" /\ Current \in Keys => buffer[Current] = Empty

(* ... and the settings handed over so far are those of the items passed, if main()
   has room for all that was read. *)
Passed(i) == i < item \/ phase = "finished"
Fits == \A k \in Keys : buffer[k] \in Room[k]
HandedOverInOrder ==
    typed = 0 /\ Fits =>
        \A i \in 1..3 : out[Items[i]] = IF Passed(i) THEN buffer[Items[i]] ELSE Empty

IInv == TypeOK /\ FreshStart /\ ConfirmedFits /\ HandedOverIsCached
               /\ Untouched /\ HandedOverInOrder

\* The seven items: the settings first, then the credentials (the enum of
\* NrfProvisioningAzureRunProvisioningCheck and the order of its states).
LEMMA ItemsAre ==
    /\ Len(Items) = 7
    /\ \A i \in 1..3 : Items[i] \in Keys
    /\ \A i \in 4..7 : Items[i] \in Certs
    /\ Keys \intersect Certs = {}
    /\ \A k \in Keys : \E i \in 1..3 : Items[i] = k
    /\ \A i, j \in 1..3 : Items[i] = Items[j] => i = j
BY DEF Items, Keys, Certs

\* The initial states satisfy the inductive invariant.
LEMMA InitIInv == Init => IInv
<1> SUFFICES ASSUME Init PROVE IInv
    OBVIOUS
<1> USE EmptyIsString, BoundsAreNat, ItemsAre, RoomIsWithinSave
<1>1. TypeOK
  BY DEF Init, TypeOK, SettingsTypeOK, RamCleared, Phases, Listening, Texts, Accepted
<1>2. FreshStart /\ ConfirmedFits /\ HandedOverIsCached /\ Untouched
  BY DEF Init, FreshStart, ConfirmedFits, HandedOverIsCached, RunsOver, Untouched, RamCleared
<1>3. HandedOverInOrder
  BY DEF Init, HandedOverInOrder, Passed, Fits
<1> QED BY <1>1, <1>2, <1>3 DEF IInv

-----------------------------------------------------------------------------
\* A restart, by power cut or by DeviceReboot, starts over with flash alone.
LEMMA RestartIInv ==
    ASSUME IInv, Restart, powerCuts' \in 0..MaxPowerCuts
    PROVE  IInv'
<1> USE EmptyIsString, BoundsAreNat, ItemsAre DEF IInv
<1>1. TypeOK'
  BY DEF Restart, PowerOff, TypeOK, SettingsTypeOK, Phases, Listening, Texts, Accepted
<1>2. FreshStart' /\ ConfirmedFits' /\ HandedOverIsCached' /\ Untouched'
  BY DEF Restart, PowerOff, FreshStart, ConfirmedFits, HandedOverIsCached, RunsOver,
         Untouched, RamCleared
<1>3. HandedOverInOrder'
  BY DEF Restart, HandedOverInOrder, Passed, Fits
<1> QED BY <1>1, <1>2, <1>3

\* serialCb never overfills the queue and touches nothing else.
LEMMA TypeIInv ==
    ASSUME IInv, NEW line \in Lines, Type(line)
    PROVE  IInv'
<1> USE BoundsAreNat DEF IInv
<1>1. TypeOK'
  BY DEF Type, settingsVars, TypeOK, SettingsTypeOK
<1>2. FreshStart' /\ ConfirmedFits' /\ HandedOverIsCached'
  BY DEF Type, settingsVars, FreshStart, ConfirmedFits, HandedOverIsCached, RunsOver,
         RamCleared, Current
<1>3. typed' # 0
  BY DEF Type, TypeOK
<1> QED BY <1>1, <1>2, <1>3 DEF Untouched, HandedOverInOrder, Fits

\* DeviceSettingsInit: a setting that is looked up in vain is empty in RAM.
LEMMA LoadIsExact ==
    ASSUME SettingsTypeOK, RamCleared, NEW unreadable \in SUBSET Keys, Load(unreadable)
    PROVE  /\ SettingsTypeOK'
           /\ \A k \in Keys : ~found'[k] => buffer'[k] = Empty
<1>1. found' \in [Keys -> BOOLEAN]
  <2>1. \A k \in Keys : (IF k \in unreadable THEN found[k] ELSE nvs[k] # Empty) \in BOOLEAN
    BY DEF SettingsTypeOK
  <2> QED BY <2>1, Zenon DEF Load
<1>2. nvs' \in [Keys -> Strings] /\ buffer' \in [Keys -> Strings]
  BY DEF Load, SettingsTypeOK
<1>3. ASSUME NEW k \in Keys, ~found'[k]
      PROVE  buffer'[k] = Empty
  <2>1. CASE k \in unreadable
    BY <2>1 DEF Load, RamCleared
  <2>2. CASE k \notin unreadable
    <3>1. found'[k] <=> nvs[k] # Empty
      BY <2>2, Zenon DEF Load
    <3>2. buffer'[k] = nvs[k]
      BY <2>2 DEF Load
    <3> QED BY <1>3, <3>1, <3>2
  <2> QED BY <2>1, <2>2
<1> QED BY <1>1, <1>2, <1>3 DEF SettingsTypeOK

\* The settings are loaded before anything is read from the serial line.
LEMMA LoadIInv ==
    ASSUME IInv, LoadSettings
    PROVE  IInv'
<1> USE EmptyIsString, BoundsAreNat, ItemsAre DEF IInv
<1>1. SettingsTypeOK' /\ (\A k \in Keys : ~found'[k] => buffer'[k] = Empty)
  <2>1. CASE \E unreadable \in SUBSET Keys : Load(unreadable)
    BY <2>1, LoadIsExact DEF LoadSettings, TypeOK, FreshStart
  <2>2. CASE UNCHANGED settingsVars
    BY <2>2 DEF LoadSettings, TypeOK, SettingsTypeOK, settingsVars, FreshStart, RamCleared
  <2> QED BY <2>1, <2>2 DEF LoadSettings
<1>2. TypeOK'
  BY <1>1 DEF LoadSettings, TypeOK, Phases, Listening
<1>3. FreshStart' /\ ConfirmedFits' /\ HandedOverIsCached'
  BY DEF LoadSettings, Load, settingsVars, FreshStart, ConfirmedFits, HandedOverIsCached, RunsOver
<1>4. Untouched'
  BY <1>1 DEF LoadSettings, Untouched
<1>5. HandedOverInOrder'
  BY DEF LoadSettings, HandedOverInOrder, Passed, Fits, FreshStart
<1> QED BY <1>2, <1>3, <1>4, <1>5

-----------------------------------------------------------------------------
\* Starting the modem touches nothing but the phase.
LEMMA ModemInitIInv ==
    ASSUME IInv, ModemInit
    PROVE  IInv'
<1> USE BoundsAreNat DEF IInv
<1>1. TypeOK'
  BY DEF ModemInit, settingsVars, TypeOK, SettingsTypeOK, Phases, Listening
<1>2. FreshStart' /\ ConfirmedFits' /\ HandedOverIsCached' /\ Untouched'
  BY DEF ModemInit, settingsVars, FreshStart, ConfirmedFits, HandedOverIsCached, RunsOver,
         Untouched
<1>3. HandedOverInOrder'
  BY DEF ModemInit, settingsVars, HandedOverInOrder, Passed, Fits
<1> QED BY <1>1, <1>2, <1>3

\* What a line may say, and that one short enough for a setting is let through.
LEMMA LinesSay ==
    ASSUME NEW line \in Lines
    PROVE  /\ line.text \in Texts
           /\ line.text # Empty
           /\ line.size # "long" => line.text \in Accepted
<1>1. line \in [first : Letters, size : Sizes, text : Texts \ {Empty}]
  BY LinesAreLines
<1>2. line.text \in Texts \ {Empty}
  BY <1>1
<1>3. line.text \in Pems => line.size = "long"
  BY LinesAreLines
<1> QED BY <1>2, <1>3 DEF Texts

\* Reading a line takes it out of the queue, unless there is none.
LEMMA Taken ==
    ASSUME TypeOK, TimedOut \/ Read
    PROVE  /\ queue' \in Seq(Lines)
           /\ Len(queue') <= QueueSize
           /\ queue = <<>> => queue' = <<>>
           /\ Read => Line \in Lines /\ Line.text \in Texts
<1>1. Read => Line \in Lines
  BY DEF TypeOK, Read, Line
<1> QED BY <1>1, LinesSay, BoundsAreNat DEF TypeOK, TimedOut, Read

\* Moving on stays within the items.
LEMMA MovesOn ==
    ASSUME TypeOK, NextItem, phase # "finished"
    PROVE  /\ item' \in 1..7
           /\ phase' \in {"check", "finished"}
           /\ \A i \in 1..3 : Passed(i)' <=> Passed(i) \/ i = item
BY ItemsAre DEF TypeOK, NextItem, Passed

\* What is handed over for a key is cached for it; a text there is no room for is
\* cached as a save cuts it.
LEMMA HandOverIsExact ==
    ASSUME NEW k \in Keys, NEW text \in Accepted, HandOver(k, text),
           out \in [Keys -> Accepted \union {Spoilt}], HandedOverIsCached,
           \A j \in Keys \ {k} : buffer'[j] = buffer[j],
           text = buffer'[k] \/ Cut[k][text] = buffer'[k]
    PROVE  out' \in [Keys -> Accepted \union {Spoilt}] /\ HandedOverIsCached'
<1>1. /\ out' \in [Keys -> Accepted \union {Spoilt}]
      /\ out'[k] = text
      /\ \A j \in Keys \ {k} : out'[j] \in {out[j], Spoilt}
  BY DEF HandOver
<1>2. \A j \in Keys : /\ out'[j] \notin Room[j] => RunsOver'
                      /\ out'[j] \in Room[j] => Cut[j][out'[j]] = out'[j]
                      /\ Spoilt \notin Room[j]
  BY RoomIsWithinSave, SpoiltIsNoText DEF RunsOver, Accepted
<1>3. ASSUME NEW j \in Keys
      PROVE  \/ out'[j] \in {Empty, buffer'[j]}
             \/ RunsOver' /\ (out'[j] = Spoilt \/ Cut[j][out'[j]] = buffer'[j])
  <2>1. CASE j = k
    BY <1>1, <1>2, <2>1
  <2>2. CASE j # k /\ out'[j] = Spoilt
    BY <1>2, <2>2
  <2>3. CASE j # k /\ out'[j] = out[j]
    BY <1>2, <2>3 DEF HandedOverIsCached
  <2> QED BY <1>1, <2>1, <2>2, <2>3
<1> QED BY <1>1, <1>3 DEF HandedOverIsCached

\* As long as there is room, a text is handed over and no other is touched.
LEMMA HandOverFits ==
    ASSUME NEW k \in Keys, NEW text \in Room[k], HandOver(k, text),
           out \in [Keys -> Accepted \union {Spoilt}],
           \A j \in Keys : out[j] \in Room[j]
    PROVE  out' = [out EXCEPT ![k] = text]
BY DEF HandOver

\* A setting is kept as it is in RAM, or asked for again.
LEMMA CheckSettingIInv ==
    ASSUME IInv, CheckSetting
    PROVE  IInv'
<1> USE EmptyIsString, BoundsAreNat, ItemsAre DEF IInv
<1>0. /\ item \in 1..3
      /\ phase = "check"
      /\ UNCHANGED <<nvs, buffer, found, modem, typed, powerCuts>>
  BY DEF CheckSetting, settingsVars, Current, TypeOK
<1>1. CASE ~found[Current] /\ GoTo("ask") /\ UNCHANGED <<queue, txBuf, out>>
  <2>1. TypeOK' /\ FreshStart' /\ ConfirmedFits' /\ HandedOverIsCached' /\ Untouched'
    BY <1>0, <1>1 DEF GoTo, TypeOK, SettingsTypeOK, Phases, Listening, FreshStart,
                      ConfirmedFits, HandedOverIsCached, RunsOver, Untouched, Current
  <2>2. HandedOverInOrder'
    BY <1>0, <1>1 DEF GoTo, HandedOverInOrder, Passed, Fits
  <2> QED BY <2>1, <2>2
<1>2. CASE CheckForChar /\ Answer = "change" /\ GoTo("ask") /\ UNCHANGED out
  <2>0. typed # 0
    BY <1>2 DEF Answer, Untouched
  <2>1. TypeOK' /\ FreshStart' /\ ConfirmedFits' /\ HandedOverIsCached' /\ Untouched'
    BY <1>0, <1>2, <2>0, Taken
    DEF CheckForChar, GoTo, TypeOK, SettingsTypeOK, Phases, Listening, FreshStart,
        ConfirmedFits, HandedOverIsCached, RunsOver, Untouched
  <2>2. HandedOverInOrder'
    BY <1>0, <1>2 DEF GoTo, HandedOverInOrder, Passed, Fits
  <2> QED BY <2>1, <2>2
<1>3. CASE CheckForChar /\ NextItem /\ HandOver(Current, buffer[Current])
  <2>0. Current \in Keys /\ buffer[Current] \in Accepted
    BY <1>0 DEF Current, TypeOK, SettingsTypeOK, Accepted
  <2>1. out' \in [Keys -> Accepted \union {Spoilt}] /\ HandedOverIsCached'
    BY <1>0, <1>3, <2>0, HandOverIsExact DEF TypeOK
  <2>2. TypeOK' /\ FreshStart' /\ ConfirmedFits' /\ Untouched'
    BY <1>0, <1>3, <2>1, Taken, MovesOn
    DEF CheckForChar, TypeOK, SettingsTypeOK, Phases, Listening, FreshStart, ConfirmedFits,
        Untouched
  <2>3. ASSUME typed' = 0, Fits'
        PROVE  \A i \in 1..3 : out'[Items[i]] = IF Passed(i)' THEN buffer'[Items[i]] ELSE Empty
    <3>1. typed = 0 /\ Fits
      BY <1>0, <2>3 DEF Fits
    <3>2. \A j \in Keys : out[j] \in Room[j]
      BY <3>1, RoomIsWithinSave DEF HandedOverInOrder, Fits
    <3>3. out' = [out EXCEPT ![Current] = buffer[Current]]
      BY <1>3, <2>0, <3>1, <3>2, HandOverFits DEF Fits, TypeOK
    <3> QED BY <1>0, <1>3, <3>1, <3>3, MovesOn
            DEF HandedOverInOrder, TypeOK, SettingsTypeOK, Current
  <2>4. HandedOverInOrder'
    BY <2>3 DEF HandedOverInOrder
  <2> QED BY <2>1, <2>2, <2>4
<1> QED BY <1>1, <1>2, <1>3 DEF CheckSetting

\* A credential's check leaves the settings alone.
LEMMA CheckCertIInv ==
    ASSUME IInv, CheckCert
    PROVE  IInv'
<1> USE EmptyIsString, BoundsAreNat, ItemsAre DEF IInv
<1>0. /\ item \in 4..7
      /\ phase = "check"
      /\ UNCHANGED <<nvs, buffer, found, out, modem, typed, powerCuts>>
  BY DEF CheckCert, settingsVars, Current, TypeOK
<1>1. item' \in 4..7 /\ phase' \in {"check", "ask", "finished"}
  BY <1>0 DEF CheckCert, GoTo, NextItem
<1>2. /\ queue' \in Seq(Lines)
      /\ Len(queue') <= QueueSize
      /\ queue = <<>> => queue' = <<>>
      /\ txBuf' \in Texts
  BY Taken DEF CheckCert, CheckForChar, TypeOK
<1>3. TypeOK' /\ FreshStart' /\ ConfirmedFits' /\ HandedOverIsCached' /\ Untouched'
  BY <1>0, <1>1, <1>2
  DEF TypeOK, SettingsTypeOK, Phases, Listening, FreshStart, ConfirmedFits,
      HandedOverIsCached, RunsOver, Untouched, Current
<1>4. HandedOverInOrder'
  BY <1>0, <1>1 DEF HandedOverInOrder, Passed, Fits
<1> QED BY <1>3, <1>4

\* Only a line that fits a setting gets as far as its confirmation.
LEMMA AskIInv ==
    ASSUME IInv, Ask
    PROVE  IInv'
<1> USE EmptyIsString, BoundsAreNat, ItemsAre DEF IInv
<1>0. /\ phase = "ask"
      /\ UNCHANGED <<nvs, buffer, found, out, modem, typed, powerCuts>>
  BY DEF Ask, settingsVars
<1>1. CASE TimedOut /\ NextItem /\ UNCHANGED txBuf
  <2>1. TypeOK' /\ FreshStart' /\ ConfirmedFits' /\ HandedOverIsCached' /\ Untouched'
    BY <1>0, <1>1, Taken, MovesOn
    DEF TypeOK, SettingsTypeOK, Phases, Listening, FreshStart, ConfirmedFits,
        HandedOverIsCached, RunsOver, Untouched
  <2>2. HandedOverInOrder'
    BY <1>0, <1>1, MovesOn DEF HandedOverInOrder, Fits, Untouched, Current, TypeOK
  <2> QED BY <2>1, <2>2
<1>2. CASE Read /\ txBuf' = Line.text
  <2>1. typed # 0
    BY <1>2 DEF Read, Untouched
  <2>2. item' \in 1..7 /\ phase' \in {"check", "confirm", "finished"}
    BY <1>2, <1>0, MovesOn DEF Ask, GoTo, TimedOut, Read, TypeOK
  <2>3. TypeOK'
    BY <1>0, <1>2, <2>2, Taken DEF TypeOK, SettingsTypeOK, Phases, Listening
  <2>4. FreshStart' /\ HandedOverIsCached'
    BY <1>0, <2>2 DEF FreshStart, HandedOverIsCached, RunsOver
  <2>5. ConfirmedFits'
    BY <1>0, <1>2, <2>2, Taken, LinesSay, MovesOn
    DEF Ask, GoTo, ConfirmedFits, Read, TimedOut, Current
  <2> QED BY <1>0, <2>1, <2>3, <2>4, <2>5 DEF Untouched, HandedOverInOrder, Fits
<1> QED BY <1>1, <1>2 DEF Ask

-----------------------------------------------------------------------------
\* Whatever is answered to the confirmation, an operator is there: with input
\* in the queue, what is promised of untouched boots is not at stake.
LEMMA ConfirmIInv ==
    ASSUME IInv, phase = "confirm",
           typed' = typed, powerCuts' = powerCuts,
           SettingsTypeOK', HandedOverIsCached',
           item' \in 1..7, phase' \in {"check", "ask", "finished", "halted", "confirm"},
           queue' \in Seq(Lines), Len(queue') <= QueueSize, txBuf' \in Texts,
           out' \in [Keys -> Accepted \union {Spoilt}], modem' \subseteq Certs,
           phase' = "confirm" /\ Current' \in Keys => txBuf' \in Accepted
    PROVE  IInv'
<1>1. typed # 0
  BY DEF IInv, Untouched
<1>2. TypeOK' /\ FreshStart' /\ ConfirmedFits'
  BY DEF IInv, TypeOK, Phases, Listening, FreshStart, ConfirmedFits
<1> QED BY <1>1, <1>2 DEF IInv, Untouched, HandedOverInOrder, Fits

\* Saving a setting writes what is kept of it to RAM and, unless that fails, to flash.
LEMMA SaveTypes ==
    ASSUME SettingsTypeOK, NEW k \in Keys, NEW text \in Accepted, Save(k, text)
    PROVE  /\ SettingsTypeOK'
           /\ buffer' = [buffer EXCEPT ![k] = Cut[k][text]]
<1>1. found' \in [Keys -> BOOLEAN]
  <2>1. (found[k] \/ k # "serialNo") \in BOOLEAN
    OBVIOUS
  <2> QED BY <2>1, Zenon DEF Save, SettingsTypeOK
<1>2. Cut[k][text] \in Strings
  BY CutIsTyped DEF Keys, Accepted
<1> QED BY <1>1, <1>2 DEF Save, SettingsTypeOK

\* Main gets what was saved, in full.
LEMMA AcceptSettingIInv ==
    ASSUME IInv, AcceptSetting
    PROVE  IInv'
<1> USE EmptyIsString DEF IInv
<1>1. phase = "confirm" /\ Read /\ UNCHANGED <<typed, powerCuts, modem>>
  BY DEF AcceptSetting, Confirm
<1>2. Current \in Keys /\ txBuf \in Accepted /\ HandOver(Current, txBuf)
  BY <1>1 DEF AcceptSetting, ConfirmedFits
<1>3. SettingsTypeOK' /\ buffer' = [buffer EXCEPT ![Current] = Cut[Current][txBuf]]
  BY <1>2, SaveTypes DEF AcceptSetting, TypeOK
<1>4. /\ buffer'[Current] = Cut[Current][txBuf]
      /\ \A j \in Keys \ {Current} : buffer'[j] = buffer[j]
  BY <1>2, <1>3 DEF TypeOK, SettingsTypeOK
<1>5. HandedOverIsCached' /\ out' \in [Keys -> Accepted \union {Spoilt}]
  BY <1>2, <1>4, HandOverIsExact DEF TypeOK
<1>6. item' \in 1..7 /\ phase' \in {"check", "finished"} /\ txBuf' \in Texts
  BY <1>1, MovesOn DEF AcceptSetting, Texts, Accepted
<1> QED BY <1>1, <1>3, <1>5, <1>6, Taken, ConfirmIInv DEF TypeOK

\* The other answers to a confirmation change no setting.
LEMMA OtherAnswersIInv ==
    ASSUME IInv,
           \/ AcceptCert \/ AcceptMalformed \/ EnterAnother
           \/ ExitWithoutSaving \/ NoActionTaken \/ UnknownEntered \/ ConfirmTimesOut
    PROVE  IInv'
<1> USE EmptyIsString DEF IInv, settingsVars, Texts, Accepted
<1>0. /\ phase = "confirm"
      /\ Read \/ TimedOut
      /\ UNCHANGED <<nvs, buffer, found, out, typed, powerCuts>>
  BY DEF AcceptCert, AcceptMalformed, EnterAnother, ExitWithoutSaving, NoActionTaken,
         UnknownEntered, ConfirmTimesOut, Confirm
<1>1. SettingsTypeOK' /\ HandedOverIsCached' /\ out' \in [Keys -> Accepted \union {Spoilt}]
  BY <1>0 DEF HandedOverIsCached, RunsOver, TypeOK, SettingsTypeOK
<1>2. queue' \in Seq(Lines) /\ Len(queue') <= QueueSize
  BY <1>0, Taken
<1>3. /\ item' \in 1..7
      /\ phase' \in {"check", "ask", "finished", "halted", "confirm"}
      /\ phase' = "confirm" => item' = item
  <2>1. CASE NextItem
    BY <2>1, <1>0, MovesOn
  <2>2. CASE \E p \in {"ask", "halted"} : GoTo(p)
    BY <2>2 DEF GoTo, TypeOK
  <2>3. CASE UNCHANGED <<phase, item>>
    BY <2>3, <1>0 DEF TypeOK
  <2> QED BY <2>1, <2>2, <2>3 DEF AcceptCert, AcceptMalformed, EnterAnother,
             ExitWithoutSaving, NoActionTaken, UnknownEntered, ConfirmTimesOut
<1>4. txBuf' \in {txBuf, Empty}
  BY DEF AcceptCert, AcceptMalformed, EnterAnother, ExitWithoutSaving, NoActionTaken,
         UnknownEntered, ConfirmTimesOut
<1>5. modem' \subseteq Certs
  BY DEF AcceptCert, AcceptMalformed, EnterAnother, ExitWithoutSaving, NoActionTaken,
         UnknownEntered, ConfirmTimesOut, TypeOK
<1>6. phase' = "confirm" /\ Current' \in Keys => txBuf' \in Accepted
  BY <1>0, <1>3, <1>4 DEF ConfirmedFits, Current
<1> QED BY <1>0, <1>1, <1>2, <1>3, <1>4, <1>5, <1>6, ConfirmIInv DEF TypeOK

-----------------------------------------------------------------------------
\* Every step preserves the inductive invariant.
LEMMA NextIInv == IInv /\ [Next]_vars => IInv'
<1> SUFFICES ASSUME IInv, [Next]_vars PROVE IInv'
    OBVIOUS
<1>1. CASE \E line \in Lines : Type(line)
  BY <1>1, TypeIInv
<1>2. CASE PowerCut
  BY <1>2, RestartIInv, BoundsAreNat DEF PowerCut, IInv, TypeOK
<1>3. CASE Reboot
  BY <1>3, RestartIInv DEF Reboot, IInv, TypeOK
<1>4. CASE LoadSettings
  BY <1>4, LoadIInv
<1>5. CASE ModemInit
  BY <1>5, ModemInitIInv
<1>6. CASE CheckSetting
  BY <1>6, CheckSettingIInv
<1>7. CASE CheckCert
  BY <1>7, CheckCertIInv
<1>8. CASE Ask
  BY <1>8, AskIInv
<1>9. CASE AcceptSetting
  BY <1>9, AcceptSettingIInv
<1>10. CASE \/ AcceptCert \/ AcceptMalformed \/ EnterAnother
            \/ ExitWithoutSaving \/ NoActionTaken \/ UnknownEntered \/ ConfirmTimesOut
  BY <1>10, OtherAnswersIInv
<1>11. CASE UNCHANGED vars
  BY <1>11 DEF vars, settingsVars, IInv, TypeOK, SettingsTypeOK, FreshStart, RamCleared,
              ConfirmedFits, HandedOverIsCached, RunsOver, Untouched, HandedOverInOrder,
              Passed, Fits,
              Current
<1> QED BY <1>1, <1>2, <1>3, <1>4, <1>5, <1>6, <1>7, <1>8, <1>9, <1>10, <1>11
        DEF Next, MainThread

\* The inductive invariant holds in every reachable state.
THEOREM Invariance == Spec => []IInv
<1> QED BY InitIInv, NextIInv, PTL DEF Spec

\* The queue never overflows and every variable keeps its type, whatever the
\* operator types and whenever the power goes.
THEOREM TypeCorrect == Spec => []TypeOK
<1>1. IInv => TypeOK
  BY DEF IInv
<1> QED BY <1>1, Invariance, PTL

\* The identity handed to main() is the one in RAM, key by key, or nothing, as long
\* as its buffers have room; of a text that runs over RAM has what a save keeps
\* (HandedOverIsCached).
THEOREM NoMixedIdentity == Spec => []HandedOverIsCached
<1>1. IInv => HandedOverIsCached
  BY DEF IInv
<1> QED BY <1>1, Invariance, PTL

\* A boot nobody touches hands over everything that could be read, if main() has
\* room for it (UnattendedIdentity).
THEOREM UnattendedBoot == Spec => []UnattendedIdentity
<1>1. IInv => UnattendedIdentity
  <2> SUFFICES ASSUME IInv, phase = "finished", typed = 0, Fits PROVE out = buffer
      BY DEF UnattendedIdentity, Fits
  <2>1. \A i \in 1..3 : out[Items[i]] = buffer[Items[i]]
    BY DEF IInv, HandedOverInOrder, Passed, Fits
  <2> QED BY <2>1, ItemsAre DEF IInv, TypeOK, SettingsTypeOK
<1> QED BY <1>1, Invariance, PTL

\* No step of a boot nobody touches changes a setting or a credential
\* (UnattendedKeeps).
THEOREM NothingChangesAlone == Spec => UnattendedKeeps
<1>1. IInv /\ [Next]_vars => [typed = 0 => UNCHANGED <<nvs, modem>>]_vars
  <2> SUFFICES ASSUME IInv, Next, typed = 0 PROVE UNCHANGED <<nvs, modem>>
      OBVIOUS
  <2>1. phase # "confirm"
    BY DEF IInv, Untouched
  <2> QED BY <2>1 DEF Next, MainThread, Type, PowerCut, Reboot, Restart, PowerOff,
      LoadSettings, Load, ModemInit, CheckSetting, CheckCert, Ask, AcceptSetting,
      AcceptCert, AcceptMalformed, EnterAnother, ExitWithoutSaving, NoActionTaken,
      UnknownEntered, ConfirmTimesOut, Confirm, settingsVars
<1> QED BY <1>1, Invariance, PTL DEF Spec, UnattendedKeeps

-----------------------------------------------------------------------------
\* Flash holds strings, and nothing is in RAM before it is read.
LEMMA InitRefines == Init => Store!Init
BY DEF Init, RamCleared, Store!Init, Store!AllEmpty

\* Cutting the power and restarting are the same to the store.
LEMMA RestartRefines == Restart => Store!PowerOff
BY DEF Restart, PowerOff, Store!PowerOff, Store!AllEmpty

\* Reading flash at boot skips what cannot be read.
LEMMA LoadRefines ==
    ASSUME IInv, LoadSettings
    PROVE  Store!Load \/ UNCHANGED Store!vars
<1>1. CASE \E unreadable \in SUBSET Keys : Load(unreadable)
  <2>1. PICK unreadable \in SUBSET Keys : Load(unreadable)
    BY <1>1
  <2>2. buffer' = [k \in Keys |-> IF k \in Keys \ unreadable THEN nvs[k] ELSE Empty]
    BY <2>1 DEF Load, LoadSettings, IInv, FreshStart, RamCleared
  <2>3. PICK readable \in SUBSET Keys : readable = Keys \ unreadable
    OBVIOUS
  <2>4. Store!Load
    BY <2>1, <2>2, <2>3 DEF Load, LoadSettings, IInv, FreshStart, RamCleared,
       Store!Load, Store!AllEmpty
  <2> QED BY <2>4
<1>2. CASE UNCHANGED settingsVars
  BY <1>2 DEF LoadSettings, settingsVars, Store!vars
<1> QED BY <1>1, <1>2 DEF LoadSettings

\* The spilling of a text is the same to the store.
LEMMA HandOverRefines ==
    ASSUME NEW k \in Keys, NEW text \in Accepted, HandOver(k, text), TypeOK
    PROVE  Store!Give(k, text)
BY DEF HandOver, Store!Give, TypeOK

\* A setting that is kept is handed over as it was read.
LEMMA CheckSettingRefines ==
    ASSUME IInv, CheckSetting
    PROVE  (\E k \in Keys : Store!HandOver(k)) \/ UNCHANGED Store!vars
<1>1. UNCHANGED <<nvs, buffer>> /\ Current \in Keys /\ TypeOK
  BY DEF CheckSetting, settingsVars, IInv
<1>2. CASE HandOver(Current, buffer[Current])
  <2>1. buffer[Current] \in Accepted
    BY <1>1 DEF TypeOK, SettingsTypeOK, Accepted
  <2>2. Store!HandOver(Current)
    BY <1>1, <1>2, <2>1, HandOverRefines DEF Store!HandOver
  <2> QED BY <1>1, <2>2
<1>3. CASE UNCHANGED out
  BY <1>1, <1>3 DEF Store!vars
<1> QED BY <1>2, <1>3 DEF CheckSetting

\* A confirmed setting is changed in RAM, for main() and perhaps in flash.
LEMMA AcceptSettingRefines ==
    ASSUME IInv, AcceptSetting
    PROVE  \E k \in Keys : \E text \in Accepted : Store!Change(k, text)
<1>1. Current \in Keys /\ txBuf \in Accepted
  BY DEF AcceptSetting, Confirm, ConfirmedFits, IInv
<1>2. Store!Change(Current, txBuf)
  BY <1>1, HandOverRefines DEF AcceptSetting, Save, Store!Change, IInv
<1> QED BY <1>1, <1>2

\* Every step is a step of the store or none that it sees.
LEMMA NextRefines == IInv /\ [Next]_vars => [Store!Next]_(Store!vars)
<1> SUFFICES ASSUME IInv, [Next]_vars PROVE [Store!Next]_(Store!vars)
    OBVIOUS
<1>1. CASE PowerCut \/ Reboot
  BY <1>1, RestartRefines DEF PowerCut, Reboot, Store!Next
<1>2. CASE LoadSettings
  BY <1>2, LoadRefines DEF Store!Next
<1>3. CASE CheckSetting
  BY <1>3, CheckSettingRefines DEF Store!Next
<1>4. CASE AcceptSetting
  BY <1>4, AcceptSettingRefines DEF Store!Next
<1>5. CASE (\E line \in Lines : Type(line)) \/ ModemInit \/ CheckCert \/ Ask
  BY <1>5 DEF Type, ModemInit, CheckCert, Ask, settingsVars, Store!vars
<1>6. CASE \/ AcceptCert \/ AcceptMalformed \/ EnterAnother \/ ExitWithoutSaving
           \/ NoActionTaken \/ UnknownEntered \/ ConfirmTimesOut
  BY <1>6 DEF AcceptCert, AcceptMalformed, EnterAnother, ExitWithoutSaving,
     NoActionTaken, UnknownEntered, ConfirmTimesOut, settingsVars, Store!vars
<1>7. CASE UNCHANGED vars
  BY <1>7 DEF vars, settingsVars, Store!vars
<1> QED BY <1>1, <1>2, <1>3, <1>4, <1>5, <1>6, <1>7 DEF Next, MainThread

\* For every set of strings, queue size and operator the check implements
\* IdentityStore (ImplementsIdentityStore).
THEOREM StoreRefinement == Spec => ImplementsIdentityStore
<1>1. IInv /\ [Next]_vars => [Store!Next]_(Store!vars)
  BY NextRefines
<1> QED BY <1>1, InitRefines, Invariance, PTL DEF Spec, ImplementsIdentityStore, Store!Spec

-----------------------------------------------------------------------------
(* How many of the lines typed in this boot a change costs.  A line is spent
   once it is out of the queue, whether it was read or dropped. *)
Spent == typed - Len(queue)
AskedFor == IF Current \in Keys /\ found[Current] THEN 1 ELSE 0
Misread == IF txBuf = Empty THEN 1 ELSE 0

(* A setting that was found is asked for after a line that says so, a
   confirmation comes after a line of text, and the text is empty only after
   another line that was not understood. *)
LinesArePaid ==
    /\ Spent >= 0
    /\ phase = "ask" => Spent >= AskedFor
    /\ phase = "confirm" => Spent >= 1 + AskedFor + Misread

\* Taking a line out of the queue spends one; a question that times out none.
LEMMA LinesAreSpent ==
    ASSUME TypeOK, TypeOK'
    PROVE  /\ Spent \in Int /\ Spent' \in Int
           /\ AskedFor \in {0, 1} /\ AskedFor' \in {0, 1}
           /\ Misread \in {0, 1} /\ Misread' \in {0, 1}
           /\ Read /\ typed' = typed => Spent' = Spent + 1
           /\ UNCHANGED <<queue, typed>> => Spent' = Spent
           /\ TimedOut /\ typed' = typed => Spent' = Spent
<1>1. /\ typed \in Nat /\ typed' \in Nat
      /\ Len(queue) \in Nat /\ Len(queue') \in Nat
      /\ Read => Len(queue') = Len(queue) - 1
      /\ TimedOut => UNCHANGED queue
  BY BoundsAreNat DEF TypeOK, Read, TimedOut
<1>2. /\ AskedFor \in {0, 1} /\ AskedFor' \in {0, 1}
      /\ Misread \in {0, 1} /\ Misread' \in {0, 1}
  BY DEF AskedFor, Misread
<1> QED BY <1>1, <1>2 DEF Spent

\* Every step preserves the account.
LEMMA NextPaid == IInv /\ LinesArePaid /\ [Next]_vars => LinesArePaid'
<1> SUFFICES ASSUME IInv, LinesArePaid, [Next]_vars PROVE LinesArePaid'
    OBVIOUS
<1> TypeOK /\ TypeOK'
  BY NextIInv DEF IInv
<1> USE LinesAreSpent, BoundsAreNat DEF LinesArePaid
<1>1. CASE \E line \in Lines : Type(line)
  <2>1. PICK line \in Lines : Type(line)
    BY <1>1
  <2>2. Spent' >= Spent
    BY <2>1 DEF Type, Spent, TypeOK
  <2> QED BY <2>1, <2>2 DEF Type, settingsVars, AskedFor, Misread, Current
<1>2. CASE Restart
  <2>1. Len(queue') = 0 /\ typed' = 0 /\ phase' = "load"
    BY <1>2 DEF Restart
  <2>2. Spent' = 0
    BY <2>1 DEF Spent
  <2> QED BY <2>1, <2>2
<1>3. CASE LoadSettings \/ ModemInit
  BY <1>3 DEF LoadSettings, ModemInit
<1>4. CASE CheckSetting
  <2>1. phase = "check" /\ UNCHANGED <<found, typed>> /\ Current \in Keys
    BY <1>4 DEF CheckSetting, settingsVars
  <2>2. CASE ~found[Current] /\ GoTo("ask") /\ UNCHANGED queue
    BY <2>1, <2>2 DEF GoTo, AskedFor, Current
  <2>3. CASE CheckForChar /\ Answer = "change" /\ GoTo("ask")
    <3>1. Spent' = Spent + 1
      BY <2>1, <2>3 DEF CheckForChar, Answer, TimedOut
    <3> QED BY <3>1, <2>3 DEF GoTo, AskedFor
  <2>4. CASE CheckForChar /\ NextItem
    BY <2>1, <2>4 DEF CheckForChar, NextItem
  <2> QED BY <1>4, <2>2, <2>3, <2>4 DEF CheckSetting
<1>5. CASE CheckCert
  <2>1. Spent' >= Spent /\ phase' \in {"check", "ask", "finished"}
    BY <1>5 DEF CheckCert, CheckForChar, GoTo, NextItem
  <2>2. phase' = "ask" => AskedFor' = 0
    BY <1>5, ItemsAre DEF CheckCert, GoTo, NextItem, AskedFor, Current
  <2> QED BY <2>1, <2>2
<1>6. CASE Ask
  <2>1. CASE NextItem
    BY <1>6, <2>1 DEF Ask, NextItem
  <2>2. CASE Read /\ txBuf' = Line.text /\ GoTo("confirm") /\ phase = "ask" /\ UNCHANGED <<found, typed>>
    <3>1. Misread' = 0
      BY <2>2, LinesSay, Taken DEF Misread
    <3>2. AskedFor' = AskedFor
      BY <2>2 DEF GoTo, AskedFor, Current
    <3> QED BY <2>2, <3>1, <3>2 DEF GoTo
  <2> QED BY <1>6, <2>1, <2>2 DEF Ask, settingsVars
<1>7. CASE AcceptSetting \/ AcceptCert \/ AcceptMalformed \/ ExitWithoutSaving \/ ConfirmTimesOut
  BY <1>7 DEF AcceptSetting, AcceptCert, AcceptMalformed, ExitWithoutSaving, ConfirmTimesOut,
     Confirm, NextItem, GoTo
<1>8. CASE EnterAnother \/ NoActionTaken \/ UnknownEntered
  <2>1. /\ phase = "confirm" /\ Read /\ UNCHANGED <<found, typed, item>>
        /\ phase' \in {"ask", "confirm"} /\ txBuf' \in {txBuf, Empty}
    BY <1>8 DEF EnterAnother, NoActionTaken, UnknownEntered, Confirm, GoTo, settingsVars
  <2>2. AskedFor' = AskedFor /\ AskedFor \in {0, 1} /\ Misread \in {0, 1} /\ Misread' \in {0, 1}
    BY <2>1 DEF AskedFor, Current, Misread
  <2>3. UnknownEntered \/ Misread' = Misread \/ phase' = "ask"
    BY <1>8 DEF EnterAnother, NoActionTaken, Misread, GoTo
  <2>4. UnknownEntered => phase' = "confirm" /\ Misread' = 1
    BY <2>1 DEF UnknownEntered, Misread
  <2> QED BY <2>1, <2>2, <2>3, <2>4
<1>9. CASE UNCHANGED vars
  BY <1>9 DEF vars, settingsVars, AskedFor, Misread, Current
<1> QED BY <1>1, <1>2, <1>3, <1>4, <1>5, <1>6, <1>7, <1>8, <1>9
        DEF Next, MainThread, PowerCut, Reboot

\* No setting changes for fewer lines than its dialogue has, and no credential for
\* fewer than two, however late the lines are read (ChangesTakeLines).
THEOREM ChangesAreTyped == Spec => ChangesTakeLines
<1> DEFINE Cost(k) == 2 + (IF found[k] THEN 1 ELSE 0) + (IF nvs'[k] = Empty THEN 1 ELSE 0)
<1>1. Init => LinesArePaid
  BY DEF Init, LinesArePaid, Spent
<1>2. ASSUME IInv, LinesArePaid, Next
      PROVE  /\ \A k \in Keys : nvs'[k] # nvs[k] => typed >= Cost(k)
             /\ modem' # modem => typed >= 2
  <2> USE DEF IInv, TypeOK, Confirm
  <2>1. AcceptSetting \/ AcceptCert \/ AcceptMalformed \/ UNCHANGED <<nvs, modem>>
    BY <1>2 DEF Next, MainThread, Type, PowerCut, Reboot, Restart, PowerOff, LoadSettings,
       Load, ModemInit, CheckSetting, CheckCert, Ask, EnterAnother, ExitWithoutSaving,
       NoActionTaken, UnknownEntered, ConfirmTimesOut, settingsVars
  <2>2. ASSUME phase = "confirm", Read
        PROVE  typed >= 2 + AskedFor + Misread
    <3>1. Len(queue) >= 1
      BY <1>2, <2>2 DEF Read
    <3>2. AskedFor \in Int /\ Misread \in Int
      BY DEF AskedFor, Misread
    <3> QED BY <1>2, <2>2, <3>1, <3>2, BoundsAreNat DEF LinesArePaid, Spent
  <2>3. CASE AcceptSetting
    <3>1. typed >= 2 + AskedFor + Misread
      BY <2>2, <2>3 DEF AcceptSetting
    <3>0. Current \in Keys /\ txBuf \in Accepted
      BY <1>2, <2>3 DEF AcceptSetting, ConfirmedFits
    <3>2. \A k \in Keys : nvs'[k] # nvs[k] =>
              k = Current /\ (nvs'[k] = Empty <=> txBuf = Empty)
      BY <1>2, <2>3, <3>0, CutKeepsSome
      DEF AcceptSetting, Save, SettingsTypeOK, Keys, Accepted
    <3>3. \A k \in Keys : nvs'[k] # nvs[k] => typed >= Cost(k)
      BY <3>1, <3>2 DEF AskedFor, Misread
    <3> QED BY <2>3, <3>3 DEF AcceptSetting
  <2>4. CASE AcceptCert \/ AcceptMalformed
    <3>1. typed >= 2 /\ UNCHANGED nvs
      BY <1>2, <2>2, <2>4, BoundsAreNat DEF AcceptCert, AcceptMalformed, settingsVars,
         AskedFor, Misread
    <3> QED BY <3>1
  <2> QED BY <2>1, <2>3, <2>4
<1>3. IInv /\ LinesArePaid /\ [Next]_vars =>
        [/\ \A k \in Keys : nvs'[k] # nvs[k] => typed >= Cost(k)
         /\ modem' # modem => typed >= 2]_vars
  BY <1>2
<1> QED BY <1>1, <1>3, NextPaid, Invariance, PTL DEF Spec, ChangesTakeLines

-----------------------------------------------------------------------------
(* How much may still happen in a boot: lines to come, lines to read, items to
   go, steps within an item. *)
RankOf == [load |-> 5, modemInit |-> 4, check |-> 3, ask |-> 2, confirm |-> 1,
           finished |-> 0, reboot |-> 0, halted |-> 0]
Variant == 3 * (MaxTyped - typed) + 2 * Len(queue) + 3 * (7 - item) + RankOf[phase]

\* The ranks of the phases.
LEMMA RanksAre ==
    /\ RankOf["load"] = 5 /\ RankOf["modemInit"] = 4
    /\ RankOf["check"] = 3 /\ RankOf["ask"] = 2 /\ RankOf["confirm"] = 1
    /\ RankOf["finished"] = 0 /\ RankOf["reboot"] = 0 /\ RankOf["halted"] = 0
BY DEF RankOf

\* What the variant is made of.
LEMMA VariantIs ==
    ASSUME TypeOK
    PROVE  /\ MaxTyped - typed \in Nat
           /\ Len(queue) \in Nat
           /\ 7 - item \in Nat
           /\ RankOf[phase] \in 0..5
           /\ Variant \in Nat
<1>1. MaxTyped - typed \in Nat /\ Len(queue) \in Nat /\ 7 - item \in Nat
  BY BoundsAreNat DEF TypeOK
<1>2. RankOf[phase] \in 0..5
  BY RanksAre DEF TypeOK, Phases, Listening
<1> QED BY <1>1, <1>2 DEF Variant

\* Every step but a restart leaves less to do: no loop of the check, over unknown
\* commands, refused texts or items, is without end, whatever the queue holds.
THEOREM CheckProgresses ==
    Spec => [](Variant \in Nat) /\ [][phase' = "load" \/ Variant' < Variant]_vars
<1>1. IInv => Variant \in Nat
  BY VariantIs DEF IInv
<1>2. ASSUME IInv, Next, phase' # "load"
      PROVE  Variant' < Variant
  <2>1. TypeOK /\ TypeOK'
    BY <1>2, NextIInv DEF IInv
  <2>2. /\ typed \in Nat /\ typed' \in Nat
        /\ item \in 1..7 /\ item' \in 1..7
        /\ Len(queue) \in Nat /\ Len(queue') \in Nat
        /\ Read => Len(queue') = Len(queue) - 1
        /\ TimedOut => Len(queue') = Len(queue)
    BY <2>1, BoundsAreNat DEF TypeOK, Read, TimedOut
  <2> USE <2>2, BoundsAreNat, RanksAre
  <2>3. CASE \E line \in Lines : Type(line)
    <3>1. PICK line \in Lines : Type(line)
      BY <2>3
    <3>2. /\ typed' = typed + 1 /\ UNCHANGED <<item, phase>>
          /\ Len(queue') <= Len(queue) + 1
      BY <2>1, <3>1 DEF Type, TypeOK
    <3>3. RankOf[phase] \in Int
      BY <2>1, VariantIs
    <3> QED BY <3>2, <3>3 DEF Variant
  <2>4. CASE LoadSettings \/ ModemInit
    <3>1. UNCHANGED <<typed, queue, item>>
      BY <2>4 DEF LoadSettings, ModemInit
    <3>2. \/ phase = "load" /\ phase' \in {"modemInit", "reboot"}
          \/ phase = "modemInit" /\ phase' \in {"check", "reboot"}
      BY <2>4 DEF LoadSettings, ModemInit
    <3>3. RankOf[phase'] < RankOf[phase] /\ RankOf[phase] \in Int /\ RankOf[phase'] \in Int
      BY <3>2
    <3> QED BY <3>1, <3>3 DEF Variant
  <2>5. ASSUME phase \in {"check", "ask", "confirm"}, typed' = typed, NextItem,
               Read \/ TimedOut
        PROVE  Variant' < Variant
    <3>1. \/ item' = item + 1 /\ RankOf[phase'] = 3
          \/ item' = item /\ RankOf[phase'] = 0
      BY <2>5, ItemsAre DEF NextItem
    <3>2. RankOf[phase] \in 1..3 /\ Len(queue') <= Len(queue)
      BY <2>5
    <3> QED BY <2>5, <3>1, <3>2, SMTT(60) DEF Variant
  <2>6. CASE CheckSetting \/ CheckCert
    <3>1. phase = "check" /\ typed' = typed
      BY <2>6 DEF CheckSetting, CheckCert
    <3>2. CASE NextItem /\ (Read \/ TimedOut)
      BY <2>5, <3>1, <3>2
    <3>3. CASE GoTo("ask") /\ (Read \/ UNCHANGED queue)
      BY <3>1, <3>3 DEF GoTo, Variant
    <3>4. CASE Read /\ GoTo("check")
      BY <3>1, <3>4 DEF GoTo, Variant
    <3> QED BY <2>6, <3>2, <3>3, <3>4
            DEF CheckSetting, CheckCert, CheckForChar, Answer, TimedOut
  <2>7. CASE Ask
    <3>1. CASE NextItem /\ (Read \/ TimedOut)
      BY <2>5, <2>7, <3>1 DEF Ask
    <3>2. CASE Read /\ GoTo("confirm")
      BY <2>7, <3>2 DEF Ask, GoTo, Variant
    <3> QED BY <2>7, <3>1, <3>2 DEF Ask
  <2>8. CASE AcceptSetting \/ AcceptCert \/ ExitWithoutSaving \/ ConfirmTimesOut
    BY <2>5, <2>8 DEF AcceptSetting, AcceptCert, ExitWithoutSaving, ConfirmTimesOut, Confirm
  <2>9. CASE AcceptMalformed
    <3>1. phase = "confirm" /\ typed' = typed /\ Read
      BY <2>9 DEF AcceptMalformed, Confirm
    <3>2. CASE GoTo("halted")
      BY <3>1, <3>2 DEF GoTo, Variant
    <3> QED BY <2>5, <2>9, <3>1, <3>2 DEF AcceptMalformed
  <2>10. CASE EnterAnother \/ NoActionTaken \/ UnknownEntered
    <3>1. /\ phase = "confirm" /\ phase' \in {"ask", "confirm"}
          /\ Read /\ UNCHANGED <<typed, item>>
      BY <2>10 DEF EnterAnother, NoActionTaken, UnknownEntered, Confirm, GoTo
    <3>2. RankOf[phase'] \in 1..2 /\ RankOf[phase] = 1
      BY <3>1
    <3> QED BY <3>1, <3>2 DEF Variant
  <2> QED BY <1>2, <2>3, <2>4, <2>6, <2>7, <2>8, <2>9, <2>10
          DEF Next, MainThread, PowerCut, Reboot, Restart
<1>3. IInv /\ [Next]_vars => [phase' = "load" \/ Variant' < Variant]_vars
  BY <1>2
<1> QED BY <1>1, <1>3, Invariance, PTL DEF Spec

-----------------------------------------------------------------------------
(* What must happen.  The premises: lines typed and power cuts come to an end unless
   the device reboots again and again, so that each boot has finitely many; and the
   fairness of Spec with the guard of MainThread written out, since no prover here
   reasons about ENABLED: main goes on unless the check is over. *)
Disturbs == (\E line \in Lines : Type(line)) \/ PowerCut
FinallyQuiet == ~[]<><<Disturbs>>_vars
QuietOrRebooting == FinallyQuiet \/ []<><<Reboot>>_vars

MainRuns == []<>(phase \in {"finished", "halted"}) \/ []<><<MainThread>>_vars

\* What CheckEnds waits for, and the two kinds of progress.
Ended == phase \in {"finished", "reboot"} \/ (phase = "halted" /\ typed > 0)
Reads == queue' # queue
Advances == item' # item

\* Until the check ends a step nobody disturbs takes a line, goes on to the next
\* item or, within one, from the check to the question and from there to the end.
LEMMA QuietSteps ==
    ASSUME IInv, ~Ended, Next, ~Disturbs
    PROVE  /\ Len(queue') <= Len(queue)
           /\ Reads => Len(queue') = Len(queue) - 1
           /\ item' >= item
           /\ ~Reads /\ ~Advances =>
                \/ phase = "load" /\ phase' = "modemInit"
                \/ phase = "modemInit" /\ phase' = "check"
                \/ phase = "check" /\ phase' = "ask"
                \/ Ended'
<1> USE DEF Reads, Advances
<1>1. TypeOK /\ TypeOK' /\ MainThread /\ ~Reboot
  BY NextIInv DEF IInv, Next, Disturbs, Ended, Reboot
<1>2. /\ item \in 1..7 /\ item' \in 1..7
      /\ Len(queue) \in Nat /\ Len(queue') \in Nat
      /\ Read => queue' # queue /\ Len(queue') = Len(queue) - 1
      /\ TimedOut => queue' = queue
  BY <1>1 DEF TypeOK, Read, TimedOut
<1>3. NextItem => \/ item' = item + 1
                  \/ item' = item /\ Ended'
  BY <1>2 DEF NextItem, Ended
<1>4. CASE LoadSettings \/ ModemInit
  BY <1>2, <1>4 DEF LoadSettings, ModemInit, Ended
<1>5. CASE CheckSetting \/ CheckCert
  <2>1. \/ NextItem /\ (Read \/ TimedOut)
        \/ GoTo("ask") /\ (Read \/ UNCHANGED queue)
        \/ GoTo("check") /\ Read
    BY <1>5 DEF CheckSetting, CheckCert, CheckForChar, Answer, TimedOut
  <2>2. phase = "check"
    BY <1>5 DEF CheckSetting, CheckCert
  <2> QED BY <1>2, <1>3, <2>1, <2>2 DEF GoTo
<1>6. CASE Ask \/ ConfirmTimesOut
  <2>1. \/ NextItem /\ (Read \/ TimedOut)
        \/ GoTo("confirm") /\ Read
    BY <1>6 DEF Ask, ConfirmTimesOut
  <2> QED BY <1>2, <1>3, <2>1 DEF GoTo
<1>7. CASE \/ AcceptSetting \/ AcceptCert \/ AcceptMalformed
           \/ EnterAnother \/ ExitWithoutSaving \/ NoActionTaken \/ UnknownEntered
  <2>1. Read /\ (NextItem \/ UNCHANGED item)
    BY <1>7 DEF AcceptSetting, AcceptCert, AcceptMalformed, EnterAnother,
       ExitWithoutSaving, NoActionTaken, UnknownEntered, Confirm, GoTo
  <2> QED BY <1>2, <1>3, <2>1
<1> QED BY <1>1, <1>4, <1>5, <1>6, <1>7 DEF MainThread

\* How far the queue is filled and how far the items have got.
QueueWithin(k) == Len(queue) <= k
ItemFrom(i) == item >= i

\* Undisturbed, the queue only gets shorter and the items only go on, both by one.
LEMMA QuietCounts ==
    ASSUME NEW k \in Nat, NEW m \in Nat, m = k + 1,
           IInv, ~Ended, [Next]_vars, ~<<Disturbs>>_vars
    PROVE  /\ QueueWithin(k) => QueueWithin(k)'
           /\ QueueWithin(m) /\ Reads => QueueWithin(k)'
           /\ QueueWithin(0) => ~Reads
           /\ ItemFrom(k) => ItemFrom(k)'
           /\ ItemFrom(k) /\ Advances => ItemFrom(m)'
           /\ ItemFrom(7) => ~Advances
<1> USE DEF QueueWithin, ItemFrom, Reads, Advances
<1>1. TypeOK /\ TypeOK'
  BY NextIInv DEF IInv
<1>2. /\ item \in 1..7 /\ item' \in 1..7
      /\ Len(queue) \in Nat /\ Len(queue') \in Nat
  BY <1>1 DEF TypeOK
<1>3. CASE UNCHANGED vars
  BY <1>2, <1>3 DEF vars
<1>4. CASE ~UNCHANGED vars
  BY <1>2, <1>4, QuietSteps
<1> QED BY <1>3, <1>4

\* An operator who stops typing leaves a queue that runs dry: lines are taken from
\* it only as often as it is long, five times at most with the queue of the
\* firmware.  One step for each length: no prover here does the induction.
LEMMA ReadsEnd ==
    ASSUME QueueSize <= 5
    PROVE  Spec /\ FinallyQuiet => []<>Ended \/ ~[]<><<Reads>>_vars
<1>1. Spec /\ FinallyQuiet /\ <>[]QueueWithin(5) => []<>Ended \/ ~[]<><<Reads>>_vars \/ <>[]QueueWithin(4)
  <2>1. IInv /\ ~Ended /\ [Next]_vars /\ ~<<Disturbs>>_vars /\ QueueWithin(4) => QueueWithin(4)'
    BY QuietCounts
  <2>2. IInv /\ ~Ended /\ [Next]_vars /\ ~<<Disturbs>>_vars /\ QueueWithin(5) /\ <<Reads>>_vars
          => QueueWithin(4)'
    BY QuietCounts
  <2>3. QED
    BY <2>1, <2>2, Invariance, PTL DEF Spec, FinallyQuiet
<1>2. Spec /\ FinallyQuiet /\ <>[]QueueWithin(4) => []<>Ended \/ ~[]<><<Reads>>_vars \/ <>[]QueueWithin(3)
  <2>1. IInv /\ ~Ended /\ [Next]_vars /\ ~<<Disturbs>>_vars /\ QueueWithin(3) => QueueWithin(3)'
    BY QuietCounts
  <2>2. IInv /\ ~Ended /\ [Next]_vars /\ ~<<Disturbs>>_vars /\ QueueWithin(4) /\ <<Reads>>_vars
          => QueueWithin(3)'
    BY QuietCounts
  <2>3. QED
    BY <2>1, <2>2, Invariance, PTL DEF Spec, FinallyQuiet
<1>3. Spec /\ FinallyQuiet /\ <>[]QueueWithin(3) => []<>Ended \/ ~[]<><<Reads>>_vars \/ <>[]QueueWithin(2)
  <2>1. IInv /\ ~Ended /\ [Next]_vars /\ ~<<Disturbs>>_vars /\ QueueWithin(2) => QueueWithin(2)'
    BY QuietCounts
  <2>2. IInv /\ ~Ended /\ [Next]_vars /\ ~<<Disturbs>>_vars /\ QueueWithin(3) /\ <<Reads>>_vars
          => QueueWithin(2)'
    BY QuietCounts
  <2>3. QED
    BY <2>1, <2>2, Invariance, PTL DEF Spec, FinallyQuiet
<1>4. Spec /\ FinallyQuiet /\ <>[]QueueWithin(2) => []<>Ended \/ ~[]<><<Reads>>_vars \/ <>[]QueueWithin(1)
  <2>1. IInv /\ ~Ended /\ [Next]_vars /\ ~<<Disturbs>>_vars /\ QueueWithin(1) => QueueWithin(1)'
    BY QuietCounts
  <2>2. IInv /\ ~Ended /\ [Next]_vars /\ ~<<Disturbs>>_vars /\ QueueWithin(2) /\ <<Reads>>_vars
          => QueueWithin(1)'
    BY QuietCounts
  <2>3. QED
    BY <2>1, <2>2, Invariance, PTL DEF Spec, FinallyQuiet
<1>5. Spec /\ FinallyQuiet /\ <>[]QueueWithin(1) => []<>Ended \/ ~[]<><<Reads>>_vars \/ <>[]QueueWithin(0)
  <2>1. IInv /\ ~Ended /\ [Next]_vars /\ ~<<Disturbs>>_vars /\ QueueWithin(0) => QueueWithin(0)'
    BY QuietCounts
  <2>2. IInv /\ ~Ended /\ [Next]_vars /\ ~<<Disturbs>>_vars /\ QueueWithin(1) /\ <<Reads>>_vars
          => QueueWithin(0)'
    BY QuietCounts
  <2>3. QED
    BY <2>1, <2>2, Invariance, PTL DEF Spec, FinallyQuiet
<1>6. Spec /\ FinallyQuiet /\ <>[]QueueWithin(0) => []<>Ended \/ ~[]<><<Reads>>_vars
  <2>1. IInv /\ ~Ended /\ [Next]_vars /\ ~<<Disturbs>>_vars /\ QueueWithin(0) => ~<<Reads>>_vars
    BY QuietCounts
  <2>2. QED
    BY <2>1, Invariance, PTL DEF Spec, FinallyQuiet
<1>7. IInv => QueueWithin(5)
  BY BoundsAreNat DEF IInv, TypeOK, QueueWithin
<1>8. QED
  BY <1>1, <1>2, <1>3, <1>4, <1>5, <1>6, <1>7, Invariance, PTL

\* Then the check goes through its items, each of the seven once.
LEMMA AdvancesEnd == Spec /\ FinallyQuiet => []<>Ended \/ ~[]<><<Advances>>_vars
<1>1. Spec /\ FinallyQuiet /\ <>[]ItemFrom(1) => []<>Ended \/ ~[]<><<Advances>>_vars \/ <>[]ItemFrom(2)
  <2>1. IInv /\ ~Ended /\ [Next]_vars /\ ~<<Disturbs>>_vars /\ ItemFrom(2) => ItemFrom(2)'
    BY QuietCounts
  <2>2. IInv /\ ~Ended /\ [Next]_vars /\ ~<<Disturbs>>_vars /\ ItemFrom(1) /\ <<Advances>>_vars
          => ItemFrom(2)'
    BY QuietCounts
  <2>3. QED
    BY <2>1, <2>2, Invariance, PTL DEF Spec, FinallyQuiet
<1>2. Spec /\ FinallyQuiet /\ <>[]ItemFrom(2) => []<>Ended \/ ~[]<><<Advances>>_vars \/ <>[]ItemFrom(3)
  <2>1. IInv /\ ~Ended /\ [Next]_vars /\ ~<<Disturbs>>_vars /\ ItemFrom(3) => ItemFrom(3)'
    BY QuietCounts
  <2>2. IInv /\ ~Ended /\ [Next]_vars /\ ~<<Disturbs>>_vars /\ ItemFrom(2) /\ <<Advances>>_vars
          => ItemFrom(3)'
    BY QuietCounts
  <2>3. QED
    BY <2>1, <2>2, Invariance, PTL DEF Spec, FinallyQuiet
<1>3. Spec /\ FinallyQuiet /\ <>[]ItemFrom(3) => []<>Ended \/ ~[]<><<Advances>>_vars \/ <>[]ItemFrom(4)
  <2>1. IInv /\ ~Ended /\ [Next]_vars /\ ~<<Disturbs>>_vars /\ ItemFrom(4) => ItemFrom(4)'
    BY QuietCounts
  <2>2. IInv /\ ~Ended /\ [Next]_vars /\ ~<<Disturbs>>_vars /\ ItemFrom(3) /\ <<Advances>>_vars
          => ItemFrom(4)'
    BY QuietCounts
  <2>3. QED
    BY <2>1, <2>2, Invariance, PTL DEF Spec, FinallyQuiet
<1>4. Spec /\ FinallyQuiet /\ <>[]ItemFrom(4) => []<>Ended \/ ~[]<><<Advances>>_vars \/ <>[]ItemFrom(5)
  <2>1. IInv /\ ~Ended /\ [Next]_vars /\ ~<<Disturbs>>_vars /\ ItemFrom(5) => ItemFrom(5)'
    BY QuietCounts
  <2>2. IInv /\ ~Ended /\ [Next]_vars /\ ~<<Disturbs>>_vars /\ ItemFrom(4) /\ <<Advances>>_vars
          => ItemFrom(5)'
    BY QuietCounts
  <2>3. QED
    BY <2>1, <2>2, Invariance, PTL DEF Spec, FinallyQuiet
<1>5. Spec /\ FinallyQuiet /\ <>[]ItemFrom(5) => []<>Ended \/ ~[]<><<Advances>>_vars \/ <>[]ItemFrom(6)
  <2>1. IInv /\ ~Ended /\ [Next]_vars /\ ~<<Disturbs>>_vars /\ ItemFrom(6) => ItemFrom(6)'
    BY QuietCounts
  <2>2. IInv /\ ~Ended /\ [Next]_vars /\ ~<<Disturbs>>_vars /\ ItemFrom(5) /\ <<Advances>>_vars
          => ItemFrom(6)'
    BY QuietCounts
  <2>3. QED
    BY <2>1, <2>2, Invariance, PTL DEF Spec, FinallyQuiet
<1>6. Spec /\ FinallyQuiet /\ <>[]ItemFrom(6) => []<>Ended \/ ~[]<><<Advances>>_vars \/ <>[]ItemFrom(7)
  <2>1. IInv /\ ~Ended /\ [Next]_vars /\ ~<<Disturbs>>_vars /\ ItemFrom(7) => ItemFrom(7)'
    BY QuietCounts
  <2>2. IInv /\ ~Ended /\ [Next]_vars /\ ~<<Disturbs>>_vars /\ ItemFrom(6) /\ <<Advances>>_vars
          => ItemFrom(7)'
    BY QuietCounts
  <2>3. QED
    BY <2>1, <2>2, Invariance, PTL DEF Spec, FinallyQuiet
<1>7. Spec /\ FinallyQuiet /\ <>[]ItemFrom(7) => []<>Ended \/ ~[]<><<Advances>>_vars
  <2>1. IInv /\ ~Ended /\ [Next]_vars /\ ~<<Disturbs>>_vars /\ ItemFrom(7) => ~<<Advances>>_vars
    BY QuietCounts
  <2>2. QED
    BY <2>1, Invariance, PTL DEF Spec, FinallyQuiet
<1>8. IInv => ItemFrom(1)
  BY DEF IInv, TypeOK, ItemFrom
<1>9. QED
  BY <1>1, <1>2, <1>3, <1>4, <1>5, <1>6, <1>7, <1>8, Invariance, PTL

\* When both have run out main goes through the steps of its last item to the end.
LEMMA StepsEnd ==
    Spec /\ FinallyQuiet /\ MainRuns => []<>Ended \/ []<><<Reads>>_vars
<1> DEFINE Start == phase = "load"
           Modem == phase = "modemInit"
           Check == phase = "check"
           AskPhase == phase = "ask"
           ConfirmPhase == phase = "confirm"
           Over == phase \in {"finished", "halted"}
           E == Ended
<1>1. /\ IInv /\ ~E => Start \/ Modem \/ Check \/ AskPhase \/ ConfirmPhase
      /\ IInv /\ Over => E
  BY DEF IInv, TypeOK, Phases, Listening, Untouched, Ended
<1>2. /\ IInv /\ ~E /\ [Next]_vars /\ ~<<Disturbs>>_vars /\ ~<<Reads>>_vars /\ ~<<Advances>>_vars
           => /\ Start => Start' \/ Modem' \/ E'
              /\ Modem => Modem' \/ Check' \/ E'
              /\ Check => Check' \/ AskPhase' \/ E'
              /\ AskPhase => AskPhase' \/ E'
              /\ ConfirmPhase => ConfirmPhase' \/ E'
      /\ IInv /\ ~E /\ <<Next /\ MainThread>>_vars /\ ~<<Disturbs>>_vars /\ ~<<Reads>>_vars
         /\ ~<<Advances>>_vars
           => /\ Start => Modem' \/ E'
              /\ Modem => Check' \/ E'
              /\ Check => AskPhase' \/ E'
              /\ AskPhase => E'
              /\ ConfirmPhase => E'
  <2>1. UNCHANGED vars => UNCHANGED <<phase, typed>>
    BY DEF vars
  <2>2. (Reads \/ Advances) => ~UNCHANGED vars
    BY DEF vars, Reads, Advances
  <2>3. ASSUME IInv, ~E, [Next]_vars, ~<<Disturbs>>_vars, ~<<Reads>>_vars, ~<<Advances>>_vars
        PROVE  \/ UNCHANGED <<phase, typed>> /\ UNCHANGED vars
               \/ Start /\ Modem'
               \/ Modem /\ Check'
               \/ Check /\ AskPhase'
               \/ E'
    BY <2>1, <2>2, <2>3, QuietSteps
  <2>4. QED
    BY <2>3
<1>3. MainRuns <=> []<>Over \/ []<><<MainThread>>_vars
  BY DEF MainRuns
<1>4. Spec /\ FinallyQuiet => []<>E \/ ~[]<><<Advances>>_vars
  BY AdvancesEnd
<1> HIDE DEF Start, Modem, Check, AskPhase, ConfirmPhase, Over, E
<1>5. Spec /\ FinallyQuiet /\ MainRuns => []<>E \/ []<><<Reads>>_vars
  BY <1>1, <1>2, <1>3, <1>4, Invariance, PTL DEF Spec, FinallyQuiet
<1>6. QED
  BY <1>5 DEF E

\* With the queue of the firmware, whatever finitely many lines are typed in a boot,
\* in whatever order and however late, the check ends (CheckEnds): lines, items and
\* the steps within an item all run out.
THEOREM CheckComesToItsEnd ==
    ASSUME QueueSize <= 5
    PROVE  Spec /\ QuietOrRebooting /\ MainRuns => CheckEnds
<1> DEFINE Start == phase = "load"
           End == \/ phase \in {"finished", "reboot"}
                  \/ phase = "halted" /\ typed > 0
<1>1. Spec /\ FinallyQuiet => []<>Ended \/ ~[]<><<Reads>>_vars
  BY ReadsEnd
<1>2. /\ Ended <=> End
      /\ <<Reboot>>_vars => End
  BY DEF Ended, Reboot, Restart
<1> HIDE DEF Start, End
<1>3. Spec /\ QuietOrRebooting /\ MainRuns => (Start ~> End)
  BY <1>1, <1>2, StepsEnd, PTL DEF QuietOrRebooting
<1>4. QED
  BY <1>3 DEF Start, End, CheckEnds

\* A device nobody types at gets through its check, with a queue of any size and
\* whatever its flash and its modem answer: main() goes on or reboots (CheckReturns,
\* which only a credential that was typed can break).
THEOREM UnattendedCheckReturns ==
    Spec /\ QuietOrRebooting /\ MainRuns /\ [](typed = 0) => CheckReturns
<1> DEFINE Start == phase = "load"
           End == phase \in {"finished", "reboot"}
           Alone == typed = 0
<1>1. IInv /\ Alone /\ Alone' /\ IInv' => ~<<Reads>>_vars
  BY DEF IInv, Untouched, Reads
<1>2. /\ Alone /\ Ended => End
      /\ <<Reboot>>_vars => End
  BY DEF Ended, Reboot, Restart
<1> HIDE DEF Start, End, Alone
<1>3. Spec /\ QuietOrRebooting /\ MainRuns /\ []Alone => (Start ~> End)
  BY <1>1, <1>2, StepsEnd, Invariance, PTL DEF QuietOrRebooting
<1>4. QED
  BY <1>3 DEF Start, End, Alone, CheckReturns
=============================================================================
