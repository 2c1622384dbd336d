---------------------------- MODULE Provisioning ----------------------------
(***************************************************************************)
(* NrfProvisioningAzureRunProvisioningCheck (nrfProvisioningAzure.c): an   *)
(* operator on the serial line keeps, changes or enters three settings and *)
(* four credentials while main() waits.                                    *)
(*                                                                         *)
(* The UART interrupt (Type) fills uartMsgq; the main thread takes one     *)
(* item after the other through check, ask and confirm.  The queue is      *)
(* never flushed, so an answer may be read by a later question.            *)
(***************************************************************************)
EXTENDS DeviceSettings, Sequences

CONSTANTS Lines,         \* what the operator may type
          Pems,          \* texts decodePemFiles can walk to their end
          Room,          \* Room[k]: texts main()'s buffer for k has room for
          Spoilt,        \* a text another one has run over, or been run over by
          QueueSize,     \* messages uartMsgq holds
          MaxTyped,      \* bound: lines typed in one boot
          MaxPowerCuts   \* bound: power cuts

Letters == {"C", "N", "Y", "E", "D", "other"}
Sizes == {"one", "short", "long"}   \* 1; up to 64; over 64 characters
Accepted == Strings \union Overlong   \* what askForCredentials lets through
Texts == Accepted \union Pems

ASSUME LinesAreLines ==
    /\ Lines \subseteq [first : Letters, size : Sizes, text : Texts \ {Empty}]
    /\ \A line \in Lines :
          /\ line.text \in Pems => line.size = "long"
          /\ line.text \in Overlong => line.size # "one"
ASSUME RoomIsWithinSave ==
    /\ Room \in [Keys -> SUBSET Strings]
    /\ \A k \in Keys : Empty \in Room[k] /\ \A text \in Room[k] : Cut[k][text] = text
ASSUME SpoiltIsNoText == Spoilt \notin Accepted
ASSUME BoundsAreNat == QueueSize \in Nat /\ MaxTyped \in Nat /\ MaxPowerCuts \in Nat

VARIABLES
    phase,     \* the main thread
    item,      \* position in Items
    queue,     \* uartMsgq
    txBuf,     \* txBuf
    out,       \* deviceIdBuf, idScopeBuf, serialNoBuf: what main() gets
    modem,     \* credentials the modem has accepted since the device was made
    typed,     \* lines typed since power-on
    powerCuts

settingsVars == <<nvs, buffer, found>>
vars == <<settingsVars, phase, item, queue, txBuf, out, modem, typed, powerCuts>>

Items == <<"deviceId", "scopeId", "serialNo",
           "caMain", "caSecondary", "clientCert", "privateKey">>
Certs == {"caMain", "caSecondary", "clientCert", "privateKey"}
Current == Items[item]

Listening == {"modemInit", "check", "ask", "confirm"}
Phases == Listening \union {"load", "finished", "reboot", "halted"}

TypeOK ==
    /\ SettingsTypeOK
    /\ phase \in Phases
    /\ item \in 1..7
    /\ queue \in Seq(Lines)
    /\ Len(queue) <= QueueSize
    /\ txBuf \in Texts
    /\ out \in [Keys -> Accepted \union {Spoilt}]
    /\ modem \subseteq Certs
    /\ typed \in 0..MaxTyped
    /\ powerCuts \in 0..MaxPowerCuts

Init ==
    /\ nvs \in [Keys -> Strings]
    /\ \A k \in Keys : Cut[k][nvs[k]] = nvs[k]
    /\ RamCleared
    /\ phase = "load"
    /\ item = 1
    /\ queue = <<>>
    /\ txBuf = Empty
    /\ out = [k \in Keys |-> Empty]
    /\ modem = {}
    /\ typed = 0
    /\ powerCuts = 0

Restart ==
    /\ PowerOff
    /\ phase' = "load"
    /\ item' = 1
    /\ queue' = <<>>
    /\ txBuf' = Empty
    /\ out' = [k \in Keys |-> Empty]
    /\ typed' = 0
    /\ UNCHANGED modem

PowerCut ==
    /\ powerCuts < MaxPowerCuts
    /\ powerCuts' = powerCuts + 1
    /\ Restart

(* main() answers an error with DeviceRebootError. *)
Reboot == phase = "reboot" /\ Restart /\ UNCHANGED powerCuts

-----------------------------------------------------------------------------
TypeUnlimited(line) ==
    /\ phase \in Listening
    /\ typed < MaxTyped
    /\ typed' = typed + 1
    /\ queue' = Append(queue, line)
    /\ UNCHANGED <<settingsVars, phase, item, txBuf, out, modem, powerCuts>>

(* The UART interrupt: serialCb drops the line when the queue is full. *)
Type(line) ==
    /\ phase \in Listening
    /\ typed < MaxTyped
    /\ typed' = typed + 1
    /\ queue' = IF Len(queue) < QueueSize THEN Append(queue, line) ELSE queue
    /\ UNCHANGED <<settingsVars, phase, item, txBuf, out, modem, powerCuts>>

-----------------------------------------------------------------------------
(* Start-up.  DeviceSettingsInit's result is not looked at: if the settings
   were not loaded, DeviceSettingsStart times out. *)
LoadSettings ==
    /\ phase = "load"
    /\ \/ \E unreadable \in SUBSET Keys : Load(unreadable) /\ phase' = "modemInit"
       \/ phase' = "reboot" /\ UNCHANGED settingsVars
    /\ UNCHANGED <<item, queue, txBuf, out, modem, typed, powerCuts>>

(* The UART receives from here on. *)
ModemInit ==
    /\ phase = "modemInit"
    /\ phase' \in {"check", "reboot"}
    /\ UNCHANGED <<settingsVars, item, queue, txBuf, out, modem, typed, powerCuts>>

-----------------------------------------------------------------------------
NextItem ==
    /\ item' = IF item < Len(Items) THEN item + 1 ELSE item
    /\ phase' = IF item < Len(Items) THEN "check" ELSE "finished"

GoTo(p) == phase' = p /\ UNCHANGED item

ReadPeeks == queue # <<>> /\ UNCHANGED queue

(* k_msgq_get: only an empty queue can time out. *)
Read == queue # <<>> /\ queue' = Tail(queue)
TimedOut == queue = <<>> /\ UNCHANGED queue
Line == Head(queue)

(* checkForCharInInputBuffer; main() gives the operator no time to answer. *)
Answer == IF queue = <<>> \/ Line.first = "N" THEN "keep"
          ELSE IF Line.first = "C" THEN "change"
          ELSE IF Line.size = "one" THEN "keep" ELSE "unknown"

CheckForChar ==
    \/ TimedOut /\ UNCHANGED txBuf
    \/ Read /\ txBuf' = Line.text

(* strcpy to the buffer main() passed for k, which has 12 characters for the
   scope id and 16 for the others.  A text it has no room for runs on into what
   the linker placed behind it, which may be the other two; and it is run over
   itself when they are written after it. *)
HandOver(k, text) ==
    \E spoilt \in SUBSET {j \in Keys \ {k} : text \notin Room[k] \/ out[j] \notin Room[j]} :
        out' = [j \in Keys |-> IF j = k THEN text
                              ELSE IF j \in spoilt THEN Spoilt ELSE out[j]]

(* checkForDeviceId, checkForIdScope, checkForSerialNo *)
CheckSettingHandsOverNothing ==
    /\ phase = "check"
    /\ Current \in Keys
    /\ \/ /\ ~found[Current]
          /\ GoTo("ask")
          /\ UNCHANGED <<queue, txBuf, out>>
       \/ /\ found[Current]
          /\ CheckForChar
          /\ IF Answer = "change"
             THEN GoTo("ask") /\ UNCHANGED out
             ELSE NextItem /\ UNCHANGED out
    /\ UNCHANGED <<settingsVars, modem, typed, powerCuts>>

CheckSetting ==
    /\ phase = "check"
    /\ Current \in Keys
    /\ \/ /\ ~found[Current]
          /\ GoTo("ask")
          /\ UNCHANGED <<queue, txBuf, out>>
       \/ /\ found[Current]
          /\ CheckForChar
          /\ IF Answer = "change"
             THEN GoTo("ask") /\ UNCHANGED out
             ELSE NextItem /\ HandOver(Current, buffer[Current])
    /\ UNCHANGED <<settingsVars, modem, typed, powerCuts>>

(* checkForCAMainCert .. checkForPrivateKey.  atCommandCmngRead inspects its
   response even when the command failed and filled nothing in, so it may
   answer either way.  An unknown command repeats the check. *)
CheckCert ==
    /\ phase = "check"
    /\ Current \in Certs
    /\ \/ GoTo("ask") /\ UNCHANGED <<queue, txBuf>>
       \/ /\ CheckForChar
          /\ \/ Answer = "change" /\ GoTo("ask")
             \/ Answer = "keep" /\ NextItem
             \/ Answer = "unknown" /\ GoTo("check")
    /\ UNCHANGED <<settingsVars, out, modem, typed, powerCuts>>

-----------------------------------------------------------------------------
(* askForCredentials, state 0.  No line is too long for a certificate. *)
AskWaitsForever ==
    /\ phase = "ask"
    /\ Read
    /\ txBuf' = Line.text
    /\ IF Line.size = "long" /\ Current \in Keys THEN NextItem ELSE GoTo("confirm")
    /\ UNCHANGED <<settingsVars, out, modem, typed, powerCuts>>

Ask ==
    /\ phase = "ask"
    /\ \/ TimedOut /\ NextItem /\ UNCHANGED txBuf
       \/ /\ Read
          /\ txBuf' = Line.text
          /\ IF Line.size = "long" /\ Current \in Keys THEN NextItem ELSE GoTo("confirm")
    /\ UNCHANGED <<settingsVars, out, modem, typed, powerCuts>>

(* askForCredentials, state 1, and what the item does with its result. *)
Confirm(first) ==
    /\ phase = "confirm"
    /\ Read
    /\ Line.first = first
    /\ UNCHANGED <<typed, powerCuts>>

AcceptSetting ==
    /\ Current \in Keys
    /\ Confirm("Y")
    /\ Save(Current, txBuf)
    /\ HandOver(Current, txBuf)
    /\ txBuf' = Empty
    /\ NextItem
    /\ UNCHANGED modem

(* decodePemFiles and atCommandCmngWrite; the modem may refuse. *)
AcceptCert ==
    /\ Current \in Certs
    /\ Confirm("Y")
    /\ txBuf \in Pems
    /\ modem' \in {modem, modem \union {Current}}
    /\ txBuf' = Empty
    /\ NextItem
    /\ UNCHANGED <<settingsVars, out>>

(* decodePemFiles looks for ten dashes past the end of any other string: it
   reads and overwrites what it finds there until it faults, spins in its BODY
   state, or happens on dashes and hands the modem what it found. *)
AcceptMalformed ==
    /\ Current \in Certs
    /\ Confirm("Y")
    /\ txBuf \notin Pems
    /\ txBuf' = Empty
    /\ \/ GoTo("halted") /\ UNCHANGED modem
       \/ NextItem /\ modem' \in {modem, modem \union {Current}}
    /\ UNCHANGED <<settingsVars, out>>

EnterAnother ==
    /\ Confirm("N")
    /\ GoTo("ask")
    /\ UNCHANGED <<settingsVars, txBuf, out, modem>>

ExitWithoutSaving ==
    /\ Confirm("E")
    /\ txBuf' = Empty
    /\ NextItem
    /\ UNCHANGED <<settingsVars, out, modem>>

NoActionTaken ==
    /\ Confirm("D")
    /\ UNCHANGED <<settingsVars, phase, item, txBuf, out, modem>>

UnknownEntered ==
    /\ \E first \in {"C", "other"} : Confirm(first)
    /\ txBuf' = Empty
    /\ UNCHANGED <<settingsVars, phase, item, out, modem>>

ConfirmTimesOut ==
    /\ phase = "confirm"
    /\ TimedOut
    /\ NextItem
    /\ UNCHANGED <<settingsVars, txBuf, out, modem, typed, powerCuts>>

-----------------------------------------------------------------------------
MainThread ==
    \/ LoadSettings \/ ModemInit \/ CheckSetting \/ CheckCert \/ Ask
    \/ AcceptSetting \/ AcceptCert \/ AcceptMalformed
    \/ EnterAnother \/ ExitWithoutSaving \/ NoActionTaken \/ UnknownEntered
    \/ ConfirmTimesOut
    \/ Reboot

Next == \/ \E line \in Lines : Type(line)
        \/ PowerCut
        \/ MainThread

(* The main thread runs and its waits are bounded; nobody has to type. *)
Spec == Init /\ [][Next]_vars /\ WF_vars(MainThread)

-----------------------------------------------------------------------------
(* Properties *)

\* Does main() have a text it has no room for, or one that such a text spoilt?
RunsOver == \E k \in Keys : out[k] \notin Room[k]

\* The identity main() is handed is what the settings module holds for the same
\* key, or nothing: no path mixes a refused, half confirmed or misdirected
\* answer into it.  Once a text has run over its buffer in main() no more is true
\* than that each key which is not spoilt holds its own text, of which the settings
\* module has what a save keeps.
HandedOverIsCached ==
    \A k \in Keys :
        \/ out[k] \in {Empty, buffer[k]}
        \/ RunsOver /\ (out[k] = Spoilt \/ Cut[k][out[k]] = buffer[k])

\* A boot nobody touches hands main() everything that could be read of flash,
\* whatever an operator did, or the power did to him, in earlier boots; unless
\* what was read has no room in main()'s buffers, as a scope id of 12 characters.
UnattendedIdentity ==
    /\ phase = "finished" /\ typed = 0
    /\ \A k \in Keys : buffer[k] \in Room[k]
    => out = buffer

\* A boot nobody touches changes no setting and no credential: neither an empty
\* queue nor a failing modem command can pass for an answer.
UnattendedKeeps == [][typed = 0 => UNCHANGED <<nvs, modem>>]_vars

\* A setting changes only after a whole dialogue of its own boot: the line and its
\* 'Y', before them the 'C' if there was a setting to keep, and one line more that
\* was not understood if it is to be erased.  No line counts twice, however many
\* questions time out before it is read.
ChangesTakeLines ==
    [][/\ \A k \in Keys : nvs'[k] # nvs[k] =>
              typed >= 2 + (IF found[k] THEN 1 ELSE 0) + (IF nvs'[k] = Empty THEN 1 ELSE 0)
       /\ modem' # modem => typed >= 2]_vars

\* Whatever finitely many lines the operator types, in whatever order and
\* however late, the check ends; only a credential he typed can hang it.
CheckEnds ==
    phase = "load" ~>
        \/ phase \in {"finished", "reboot"}
        \/ phase = "halted" /\ typed > 0

\* "to exit without saving send 'E'" (nrfProvisioningAzure.c): leaving a change
\* leaves the device with the identity it had, for this boot as well.
ExitKeepsIdentity ==
    phase = "finished" => \A k \in Keys : buffer[k] # Empty => out[k] # Empty

\* "To accept send 'Y'" (nrfProvisioningAzure.c): what is accepted is a
\* credential, so a stored one is replaced and never erased.
CredentialNeverErased ==
    [][\A k \in Keys : nvs[k] # Empty => nvs'[k] # Empty]_vars

\* "Returns a -1 upon error and 0 upon success" (nrfProvisioningAzure.c): the
\* check returns to main() in every boot.
CheckReturns == phase = "load" ~> phase \in {"finished", "reboot"}

\* "Get the serial number from the device settings" (pam8053AzureDeviceTwin.c):
\* a serial number the module holds can be got from it.
SavedIsFound == \A k \in Keys : buffer[k] # Empty => found[k]

-----------------------------------------------------------------------------
(* The check implements IdentityStore. *)
Store == INSTANCE IdentityStore WITH Texts <- Accepted,
                                     stored <- nvs, cached <- buffer, given <- out

\* However the answers, the queue, flash and the power interleave, each step
\* reads, hands over or changes one key, or none: what is kept of a text that is
\* too long is the same part in RAM and in flash, and another key suffers only
\* from a text main() has no room for.
ImplementsIdentityStore == Store!Spec
=============================================================================
