----------------------------- MODULE Telemetry ------------------------------
(***************************************************************************)
(* The two messages of the device, built as cJSON trees in one heap        *)
(* (CONFIG_HEAP_MEM_POOL_SIZE) by two threads: the report of the device    *)
(* twin on the MQTT thread (pam8053AzureDeviceTwin.c) and the heartbeat on *)
(* main (main.c).                                                          *)
(*                                                                         *)
(* The heap is counted in cells: an object takes one when it is created,   *)
(* its key and items another when it is attached to its parent.  A failing *)
(* allocation returns NULL; what each caller does then is the subject.     *)
(* What damaged free lists do to later allocations is not modelled beyond  *)
(* a fault at any time and a message that is garbage.                      *)
(***************************************************************************)
EXTENDS Integers, Sequences

CONSTANTS HeapSize,    \* cells
          OthersUse    \* what the rest of the firmware may hold of them

ASSUME OthersUseIsNat == OthersUse \subseteq Nat

VARIABLES
    mqtt, next, mqttHeld,   \* MQTT thread: step, object it is at, cells it holds
    main, part, mainHeld,   \* main thread: the same
    tree, whole,            \* main: the parts of the heartbeat; is nothing missing?
    buffer, sent,           \* telemetryBuffer, and the last message the hub got
    others, lost,           \* cells held elsewhere, and by nobody
    azureConnected,
    undefined,              \* a tree was deleted twice
    halted,                 \* the CPU stopped on a fatal error
    crowded                 \* history: the others left too little room

reportVars == <<mqtt, next, mqttHeld>>
heartbeatVars == <<main, part, mainHeld, tree, whole, buffer>>
vars == <<reportVars, heartbeatVars, sent, others, lost, azureConnected, undefined,
          halted, crowded>>

Parts == <<"root", "connectionData", "alarms", "alarm">>
Part == Parts[part]
Parent == [connectionData |-> "root", alarms |-> "root", alarm |-> "alarms"]

(* Objects of the report in the order of their creation: root, telemetryConfig,
   doorStatus, relay1, relay2, u0, u1, deviceInfo. *)
ReportObjects == 8

Free == HeapSize - (mqttHeld + mainHeld + others + lost)

(* Both messages at once; a root has no key. *)
Peak == (2 * ReportObjects - 1) + (2 * 4 - 1)

ASSUME HeapHoldsBoth == HeapSize \in Nat /\ Peak <= HeapSize

Texts == {"empty", "old", "partial", "whole", "garbage"}

TypeOK ==
    /\ mqtt \in {"idle", "parsed", "create", "attach", "print", "send"}
    /\ next \in 1..ReportObjects
    /\ main \in {"loop", "create", "attach", "print", "send"}
    /\ part \in 1..4
    /\ mqttHeld \in Nat /\ mainHeld \in Nat /\ others \in Nat /\ lost \in Nat
    /\ Free >= 0
    /\ tree \subseteq {"root", "connectionData", "alarms", "alarm"}
    /\ buffer \in Texts
    /\ sent \in Texts \union {"none"}
    /\ whole \in BOOLEAN /\ azureConnected \in BOOLEAN
    /\ undefined \in BOOLEAN /\ halted \in BOOLEAN /\ crowded \in BOOLEAN

Init ==
    /\ mqtt = "idle" /\ next = 1 /\ mqttHeld = 0
    /\ main = "loop" /\ part = 1 /\ mainHeld = 0
    /\ tree = {} /\ whole = FALSE
    /\ buffer = "empty" /\ sent = "none"
    /\ others = 0 /\ lost = 0
    /\ azureConnected = FALSE
    /\ undefined = FALSE /\ halted = FALSE
    /\ crowded = FALSE

-----------------------------------------------------------------------------
(* The MQTT thread. *)
MqttAt(step) ==
    /\ ~halted
    /\ mqtt = step
    /\ UNCHANGED <<heartbeatVars, sent, others, crowded>>

Kept == UNCHANGED <<lost, azureConnected, undefined, halted>>

(* AzureManagerStatusCb, between twin documents. *)
AzureStatus ==
    /\ MqttAt("idle")
    /\ azureConnected' = ~azureConnected
    /\ UNCHANGED <<reportVars, lost, undefined, halted>>

(* Pam8053DeviceTwinCb parses the document; one that cannot be parsed for want
   of memory has no fields, and is reported all the same. *)
ParseTwin ==
    /\ MqttAt("idle")
    /\ azureConnected
    /\ mqtt' = "parsed"
    /\ mqttHeld' = IF Free > 0 THEN 1 ELSE 0
    /\ UNCHANGED next
    /\ Kept

DeleteTwin ==
    /\ MqttAt("parsed")
    /\ mqtt' = "create"
    /\ next' = 1
    /\ mqttHeld' = 0
    /\ Kept

FreedWithRootTwice == <<0, 2, 2, 2, 2, 3, 4, 8>>

(* What Pam8053TwinReportWork deletes when the n-th object is missing. *)
FreedOnFailure == <<0, 1, 1, 1, 1, 2, 3, 0>>

CreateObject ==
    /\ MqttAt("create")
    /\ \/ /\ Free > 0
          /\ mqttHeld' = mqttHeld + 1
          /\ IF next < ReportObjects
             THEN next' = next + 1 /\ UNCHANGED mqtt
             ELSE next' = 2 /\ mqtt' = "attach"
          /\ UNCHANGED lost
       \/ /\ Free = 0
          /\ mqtt' = "idle"
          /\ next' = 1
          /\ mqttHeld' = 0
          /\ lost' = lost + (next - 1) - FreedOnFailure[next]
    /\ UNCHANGED <<azureConnected, undefined, halted>>

(* No result is looked at.  Without room either the key is missing, and the
   object stays out of the tree, or it is in the tree without its items. *)
AttachObject ==
    /\ MqttAt("attach")
    /\ \/ Free > 0 /\ mqttHeld' = mqttHeld + 1 /\ UNCHANGED lost
       \/ Free = 0 /\ mqttHeld' = mqttHeld - 1 /\ lost' = lost + 1
       \/ Free = 0 /\ UNCHANGED <<mqttHeld, lost>>
    /\ IF next < ReportObjects
       THEN next' = next + 1 /\ UNCHANGED mqtt
       ELSE next' = 1 /\ mqtt' = "print"
    /\ UNCHANGED <<azureConnected, undefined, halted>>

PrintReportKeepsTree ==
    /\ MqttAt("print")
    /\ mqtt' = "send"
    /\ mqttHeld' = 0
    /\ lost' = lost + mqttHeld
    /\ UNCHANGED <<next, azureConnected, undefined, halted>>

PrintReport ==
    /\ MqttAt("print")
    /\ mqtt' = "send"
    /\ mqttHeld' = 0
    /\ UNCHANGED next
    /\ Kept

ReportSent == MqttAt("send") /\ mqtt' = "idle" /\ UNCHANGED <<next, mqttHeld>> /\ Kept

(* azure_iot_hub_send fails: root, deleted before, is deleted again.  By then
   main may own its memory. *)
ReportFails ==
    /\ MqttAt("send")
    /\ mqtt' = "idle"
    /\ undefined' = TRUE
    /\ halted' \in BOOLEAN
    /\ UNCHANGED <<next, mqttHeld, lost, azureConnected>>

-----------------------------------------------------------------------------
(* main(): TransmitHeartbeatTelemetry. *)
MainAt(step) ==
    /\ ~halted
    /\ main = step
    /\ UNCHANGED <<reportVars, others, azureConnected, undefined, halted, crowded>>

BeginHeartbeat ==
    /\ MainAt("loop")
    /\ azureConnected
    /\ main' = "create"
    /\ part' = 1
    /\ tree' = {}
    /\ whole' = TRUE
    /\ buffer' = IF buffer = "empty" THEN "empty" ELSE "old"
    /\ UNCHANGED <<mainHeld, sent, lost>>

Onward == IF part < 4 THEN part' = part + 1 /\ main' = "create"
                      ELSE part' = 1 /\ main' = "print"

CreatePart ==
    /\ MainAt("create")
    /\ \/ /\ Free > 0
          /\ mainHeld' = mainHeld + 1
          /\ IF Part = "root" THEN tree' = {"root"} /\ Onward
                             ELSE main' = "attach" /\ UNCHANGED <<part, tree>>
          /\ UNCHANGED whole
       \/ /\ Free = 0
          /\ whole' = FALSE
          /\ Onward
          /\ UNCHANGED <<mainHeld, tree>>
    /\ UNCHANGED <<buffer, sent, lost>>

Contents == IF Free > 0 THEN 1 ELSE 0

(* In the tree; the key of "alarms" is all its contents, "alarm" has no key. *)
AttachedPart ==
    /\ Parent[Part] \in tree
    /\ Contents = 1 \/ Part # "alarms"
    /\ tree' = tree \union {Part}
    /\ whole' = IF Contents = 1 THEN whole ELSE FALSE
    /\ mainHeld' = mainHeld + Contents
    /\ UNCHANGED lost

(* Out of it; only cJSON_AddArrayToObject deletes what it cannot attach. *)
OrphanedPart ==
    /\ \/ Parent[Part] \notin tree
       \/ Contents = 0 /\ Part # "alarm"
    /\ whole' = FALSE
    /\ mainHeld' = mainHeld - 1
    /\ lost' = IF Part = "alarms" THEN lost ELSE lost + 1 + Contents
    /\ UNCHANGED tree

AttachPart ==
    /\ MainAt("attach")
    /\ AttachedPart \/ OrphanedPart
    /\ Onward
    /\ UNCHANGED <<buffer, sent>>

PrintHeartbeatKeepsTree ==
    /\ MainAt("print")
    /\ main' = "send"
    /\ \/ buffer' = IF "root" \notin tree THEN buffer
                    ELSE IF whole THEN "whole" ELSE "partial"
       \/ undefined /\ buffer' = "garbage"
    /\ tree' = {}
    /\ whole' = FALSE
    /\ UNCHANGED <<part, mainHeld, sent, lost>>

(* cJSON_PrintPreallocated leaves telemetryBuffer alone when there is no tree. *)
PrintHeartbeat ==
    /\ MainAt("print")
    /\ main' = "send"
    /\ mainHeld' = 0
    /\ \/ buffer' = IF "root" \notin tree THEN buffer
                    ELSE IF whole THEN "whole" ELSE "partial"
       \/ undefined /\ buffer' = "garbage"
    /\ tree' = {}
    /\ whole' = FALSE
    /\ UNCHANGED <<part, sent, lost>>

(* AzureManagerSendTelemetry: the link may be gone by now; the result is not
   looked at. *)
SendHeartbeat ==
    /\ MainAt("send")
    /\ main' = "loop"
    /\ \/ azureConnected /\ sent' = buffer
       \/ UNCHANGED sent
    /\ UNCHANGED <<part, mainHeld, tree, whole, buffer, lost>>

-----------------------------------------------------------------------------
(* The rest of the firmware. *)
OthersAllocate(cells) ==
    /\ ~halted
    /\ cells - others <= Free
    /\ others' = cells
    /\ crowded' = IF cells + Peak > HeapSize THEN TRUE ELSE crowded
    /\ UNCHANGED <<reportVars, heartbeatVars, sent, lost, azureConnected, undefined, halted>>

Fault ==
    /\ undefined
    /\ ~halted
    /\ halted' = TRUE
    /\ UNCHANGED <<reportVars, heartbeatVars, sent, others, lost, azureConnected,
                   undefined, crowded>>

TwinReport ==
    \/ DeleteTwin \/ CreateObject \/ AttachObject \/ PrintReport \/ ReportSent \/ ReportFails

Heartbeat ==
    \/ BeginHeartbeat \/ CreatePart \/ AttachPart \/ PrintHeartbeat \/ SendHeartbeat

Next ==
    \/ AzureStatus \/ ParseTwin \/ TwinReport
    \/ Heartbeat
    \/ \E cells \in OthersUse : OthersAllocate(cells)
    \/ Fault

(* Threads that can run do.  That the heartbeat is due again and again is
   DeviceTwin!HeartbeatKeepsComing. *)
Spec == Init /\ [][Next]_vars /\ WF_vars(TwinReport) /\ WF_vars(Heartbeat)

-----------------------------------------------------------------------------
(* Properties *)

\* Memory is lost only if there was once too little of it: with room for both
\* messages no interleaving of the two threads leaks, and neither starves the
\* other.
NothingLost == lost > 0 => crowded \/ undefined

\* Under the same condition the hub never gets an incomplete heartbeat, nor the
\* one before again, although no allocation and no print is looked at.
HeartbeatIsWhole == sent \in {"empty", "old", "partial", "garbage"} => crowded \/ undefined

\* Shortage passes: once memory lost leaves room again and the link stays up,
\* whole heartbeats go to the hub again.
HeartbeatsRecover ==
    <>[](~halted /\ ~undefined /\ azureConnected /\ others + lost + Peak <= HeapSize)
        => []<>(main = "send" /\ buffer = "whole")
=============================================================================
