--------------------------- MODULE DeviceSettings ---------------------------
(***************************************************************************)
(* The device's identity in flash and in RAM (deviceSettings.c): loading   *)
(* at boot, looking up, saving.  A key that flash does not hold and one    *)
(* that holds an empty string are the same to every caller, and are both   *)
(* Empty here; so is a RAM buffer nobody has written.                      *)
(***************************************************************************)
EXTENDS Naturals

CONSTANTS Strings,    \* what a key may hold: a string that fits its buffer
          Overlong,   \* texts a caller may try to save that do not
          Empty,      \* the empty string
          Cut         \* Cut[k][text]: as much of the text as a save of k keeps

ASSUME EmptyIsString == Empty \in Strings
ASSUME CutIsTyped ==
    Cut \in [{"deviceId", "scopeId", "serialNo"} -> [Strings \union Overlong -> Strings]]
ASSUME CutKeepsSome ==
    \A k \in {"deviceId", "scopeId", "serialNo"}, text \in Strings \union Overlong :
        Cut[k][text] = Empty <=> text = Empty

VARIABLES
    nvs,      \* the settings partition
    buffer,   \* serialNo, deviceId, scopeId
    found     \* is the az_span of ctx non-empty?

Keys == {"deviceId", "scopeId", "serialNo"}

SettingsTypeOK ==
    /\ nvs \in [Keys -> Strings]
    /\ buffer \in [Keys -> Strings]
    /\ found \in [Keys -> BOOLEAN]

RamCleared ==
    /\ buffer = [k \in Keys |-> Empty]
    /\ found = [k \in Keys |-> FALSE]

PowerOff ==
    /\ buffer' = [k \in Keys |-> Empty]
    /\ found' = [k \in Keys |-> FALSE]
    /\ UNCHANGED nvs

LoadErasesUnreadable(unreadable) ==
    /\ buffer' = [k \in Keys |-> IF k \in unreadable THEN Empty ELSE nvs[k]]
    /\ found' = [k \in Keys |-> k \notin unreadable /\ nvs[k] # Empty]
    /\ nvs' = [k \in Keys |-> IF k \in unreadable THEN Empty ELSE nvs[k]]

(* DeviceSettingsInit: settings_load_subtree runs DeviceSettingHandler on each
   key; a key whose read fails is skipped. *)
Load(unreadable) ==
    /\ buffer' = [k \in Keys |-> IF k \in unreadable THEN buffer[k] ELSE nvs[k]]
    /\ found' = [k \in Keys |-> IF k \in unreadable THEN found[k] ELSE nvs[k] # Empty]
    /\ UNCHANGED nvs

SaveForgetsRam(k, text) ==
    /\ nvs' \in {nvs, [nvs EXCEPT ![k] = Cut[k][text]]}
    /\ UNCHANGED <<buffer, found>>

(* DeviceSettingsSaveDeviceId, ..SaveScopeId and ..SaveSerialNo: RAM first,
   then flash, whose failure is only logged.  Both keep the first 15 characters,
   12 of the scope id, which is the length the caller requests for it.  The span
   gets that length, whatever the text; SaveSerialNo leaves its span alone. *)
Save(k, text) ==
    /\ buffer' = [buffer EXCEPT ![k] = Cut[k][text]]
    /\ found' = [found EXCEPT ![k] = @ \/ k # "serialNo"]
    /\ nvs' \in {nvs, [nvs EXCEPT ![k] = Cut[k][text]]}
=============================================================================
