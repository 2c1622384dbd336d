--------------------------- MODULE TelemetryProofs --------------------------
(***************************************************************************)
(* What Telemetry promises for every heap and every use of it by the rest  *)
(* of the firmware: nothing is lost without a shortage, nor after one, and *)
(* whole heartbeats come back.                                             *)
(***************************************************************************)
EXTENDS Telemetry, TLAPS

(* What the report can have taken so far. *)
ReportBound ==
    /\ mqtt \in {"idle", "send"} => mqttHeld = 0
    /\ mqtt = "parsed" => mqttHeld <= 1
    /\ mqtt = "create" => mqttHeld = next - 1
    /\ mqtt = "attach" => next >= 2 /\ mqttHeld \in (10 - next)..(next + 6)
    /\ mqtt = "print" => mqttHeld <= 15

(* What the heartbeat can have taken so far. *)
HeartbeatBound ==
    /\ main \in {"loop", "send"} => mainHeld = 0
    /\ main = "create" => mainHeld <= IF part = 1 THEN 0 ELSE 2 * part - 3
    /\ main = "attach" =>
         /\ part >= 2
         /\ mainHeld \in 1..(2 * part - 2)
    /\ main = "print" => mainHeld <= 7

(* As long as the others have left room for both messages nothing is lost. *)
Roomy == ~crowded => others + Peak <= HeapSize /\ lost = 0

(* ... the heartbeat under construction has all the parts it should ... *)
Growing ==
    ~crowded =>
        /\ main \in {"create", "attach"} /\ part > 1 => "root" \in tree
        /\ main \in {"create", "attach"} /\ part > 3 => "alarms" \in tree
        /\ main = "print" => "root" \in tree
        /\ main \in {"create", "attach", "print"} => whole

(* ... and is what is sent, as long as no tree was deleted twice. *)
Fresh ==
    ~crowded /\ ~undefined =>
        /\ main = "send" => buffer = "whole"
        /\ sent \in {"none", "whole"}

IInv == TypeOK /\ ReportBound /\ HeartbeatBound /\ Roomy /\ Growing /\ Fresh

\* The parts of a heartbeat and their parents (CreateHeartbeatTelemetry).
LEMMA PartsAre ==
    /\ Parts[1] = "root" /\ Parts[2] = "connectionData"
    /\ Parts[3] = "alarms" /\ Parts[4] = "alarm"
    /\ Parent["connectionData"] = "root"
    /\ Parent["alarms"] = "root"
    /\ Parent["alarm"] = "alarms"
  BY DEF Parts, Parent

\* No error path deletes more than was made before the object that is missing.
LEMMA FreedIsMade ==
    ASSUME NEW n \in 1..ReportObjects
    PROVE  FreedOnFailure[n] \in 0..(n - 1)
<1>1. n \in {1, 2, 3, 4, 5, 6, 7, 8}
  BY DEF ReportObjects
<1>2. QED
  BY <1>1 DEF FreedOnFailure

\* Both messages at their largest.
LEMMA PeakIs == Peak = 22 /\ ReportObjects = 8
  BY DEF Peak, ReportObjects

\* What is free is a number of cells.
LEMMA FreeIsNat == ASSUME TypeOK PROVE Free \in Nat
  BY HeapHoldsBoth DEF TypeOK, Free

\* The heap starts empty.
LEMMA InitIInv == Init => IInv
<1> SUFFICES ASSUME Init PROVE IInv
  OBVIOUS
<1>1. Free = HeapSize
  BY HeapHoldsBoth DEF Init, Free
<1>2. TypeOK
  <2>1. next \in 1..ReportObjects /\ part \in 1..4
    BY PeakIs DEF Init
  <2>2. Free >= 0
    BY <1>1, HeapHoldsBoth
  <2>3. tree \subseteq {"root", "connectionData", "alarms", "alarm"}
    BY DEF Init
  <2>4. buffer \in Texts /\ sent \in Texts \union {"none"}
    BY DEF Init, Texts
  <2>5. QED
    BY <2>1, <2>2, <2>3, <2>4 DEF Init, TypeOK
<1>3. ReportBound /\ HeartbeatBound /\ Growing /\ Fresh
  BY DEF Init, ReportBound, HeartbeatBound, Growing, Fresh
<1>4. Roomy
  BY HeapHoldsBoth, PeakIs DEF Init, Roomy
<1>5. QED
  BY <1>2, <1>3, <1>4 DEF IInv

\* The MQTT thread leaves the heartbeat alone, and only takes what is free.
LEMMA ReportIInv ==
    ASSUME IInv, AzureStatus \/ ParseTwin \/ TwinReport
    PROVE  IInv'
<1> USE HeapHoldsBoth, PeakIs DEF IInv, MqttAt, Kept, heartbeatVars, reportVars
<1>1. /\ UNCHANGED <<heartbeatVars, sent, others, crowded>>
      /\ undefined => undefined'
  BY DEF AzureStatus, ParseTwin, TwinReport, DeleteTwin, CreateObject, AttachObject,
         PrintReport, ReportSent, ReportFails, TypeOK
<1>2. HeartbeatBound' /\ Growing' /\ Fresh'
  BY <1>1 DEF HeartbeatBound, Growing, Fresh
<1>3. TypeOK' /\ ReportBound' /\ Roomy'
  <2>1. CASE AzureStatus
    BY <2>1 DEF AzureStatus, TypeOK, ReportBound, Roomy, Free
  <2>2. CASE ParseTwin
    BY <2>2 DEF ParseTwin, TypeOK, ReportBound, Roomy, Free
  <2>3. CASE DeleteTwin
    BY <2>3 DEF DeleteTwin, TypeOK, ReportBound, Roomy, Free
  <2>4. CASE CreateObject
    <3>1. CASE Free > 0
      BY <2>4, <3>1 DEF CreateObject, TypeOK, ReportBound, Roomy, Free
    <3>2. CASE Free = 0
      <4>1. FreedOnFailure[next] \in 0..(next - 1)
        BY FreedIsMade DEF TypeOK
      <4>2. crowded
        BY <2>4, <3>2 DEF CreateObject, TypeOK, ReportBound, HeartbeatBound, Roomy, Free
      <4>3. QED
        BY <2>4, <3>2, <4>1, <4>2 DEF CreateObject, TypeOK, ReportBound, Roomy, Free
    <3>3. QED
      BY <2>4, <3>1, <3>2 DEF CreateObject
  <2>5. CASE AttachObject
    <3>1. crowded \/ Free > 0
      BY <2>5 DEF AttachObject, TypeOK, ReportBound, HeartbeatBound, Roomy, Free
    <3>2. QED
      BY <2>5, <3>1 DEF AttachObject, TypeOK, ReportBound, Roomy, Free
  <2>6. CASE PrintReport
    BY <2>6 DEF PrintReport, TypeOK, ReportBound, Roomy, Free
  <2>7. CASE ReportSent
    BY <2>7 DEF ReportSent, TypeOK, ReportBound, Roomy, Free
  <2>8. CASE ReportFails
    BY <2>8 DEF ReportFails, TypeOK, ReportBound, Roomy, Free
  <2>9. QED
    BY <2>1, <2>2, <2>3, <2>4, <2>5, <2>6, <2>7, <2>8 DEF TwinReport
<1>4. QED
  BY <1>2, <1>3

\* While main builds a part there is room for it unless the others took it.
LEMMA RoomForPart ==
    ASSUME IInv, main \in {"create", "attach"}, ~crowded
    PROVE  Free > 0
  BY HeapHoldsBoth, PeakIs DEF IInv, TypeOK, ReportBound, HeartbeatBound, Roomy, Free

\* Main leaves the report alone, and only takes what is free.
LEMMA HeartbeatIInv ==
    ASSUME IInv, Heartbeat
    PROVE  IInv'
<1> USE HeapHoldsBoth, PeakIs DEF IInv, MainAt, reportVars
<1>1. UNCHANGED <<reportVars, others, azureConnected, undefined, halted, crowded>>
  BY DEF Heartbeat, BeginHeartbeat, CreatePart, AttachPart, PrintHeartbeat, SendHeartbeat
<1>2. ReportBound' /\ (crowded' <=> crowded) /\ (undefined' <=> undefined)
  BY <1>1 DEF ReportBound
<1>3. CASE BeginHeartbeat
  BY <1>1, <1>2, <1>3
  DEF BeginHeartbeat, TypeOK, HeartbeatBound, Roomy, Growing, Fresh, Free, Texts
<1>4. CASE CreatePart
  <2>1. main = "create" /\ part \in 1..4 /\ UNCHANGED <<buffer, sent, lost>> /\ main' # "send"
    BY <1>4 DEF CreatePart, Onward, TypeOK
  <2>2. Roomy' /\ Fresh'
    BY <1>1, <1>2, <2>1 DEF Roomy, Fresh
  <2>3. CASE Free > 0 /\ Part = "root"
    <3>1. part = 1
      BY <2>1, <2>3, PartsAre DEF Part
    <3>2. QED
      BY <1>1, <1>2, <1>4, <2>1, <2>2, <2>3, <3>1
      DEF CreatePart, Onward, TypeOK, HeartbeatBound, Growing, Free
  <2>4. CASE Free > 0 /\ Part # "root"
    <3>1. part \in 2..4
      BY <2>1, <2>4, PartsAre DEF Part
    <3>2. /\ mainHeld' = mainHeld + 1 /\ main' = "attach"
          /\ UNCHANGED <<part, tree, whole>>
      BY <1>4, <2>4 DEF CreatePart
    <3>3. TypeOK' /\ HeartbeatBound'
      <4>1. Free' = Free - 1
        BY <1>1, <2>1, <3>2 DEF TypeOK, Free
      <4>2. Free' >= 0
        BY <2>4, <4>1, FreeIsNat
      <4>3. mainHeld' \in 1..(2 * part - 2)
        BY <2>1, <3>1, <3>2 DEF TypeOK, HeartbeatBound
      <4>4. QED
        BY <1>1, <2>1, <3>1, <3>2, <4>2, <4>3 DEF TypeOK, HeartbeatBound
    <3>4. Growing'
      BY <1>2, <2>1, <3>1, <3>2 DEF Growing
    <3>5. QED
      BY <1>2, <2>2, <3>3, <3>4
  <2>5. CASE Free = 0
    <3>1. crowded
      BY <2>1, <2>5, RoomForPart DEF TypeOK
    <3>2. /\ UNCHANGED <<mainHeld, tree>> /\ whole' = FALSE
          /\ IF part < 4 THEN part' = part + 1 /\ main' = "create"
                         ELSE part' = 1 /\ main' = "print"
      BY <1>4, <2>5 DEF CreatePart, Onward
    <3>3. TypeOK'
      <4>1. Free' = Free
        BY <1>1, <2>1, <3>2 DEF Free
      <4>2. part' \in 1..4 /\ main' \in {"create", "print"}
        BY <2>1, <3>2
      <4>3. QED
        BY <1>1, <2>1, <3>2, <4>1, <4>2 DEF TypeOK
    <3>4. HeartbeatBound'
      BY <2>1, <3>2 DEF TypeOK, HeartbeatBound
    <3>5. QED
      BY <1>2, <2>2, <3>1, <3>3, <3>4 DEF Growing
  <2>6. QED
    BY <1>4, <2>3, <2>4, <2>5 DEF CreatePart
<1>5. CASE AttachPart
  <2>1. /\ part \in 2..4 /\ main = "attach"
        /\ mainHeld \in 1..(2 * part - 2)
        /\ Contents \in {0, 1} /\ Contents <= Free /\ Free \in Nat
    BY <1>5 DEF AttachPart, TypeOK, HeartbeatBound, Contents, Free
  <2>2. ~crowded => Contents = 1
    BY <2>1, RoomForPart DEF Contents
  <2>3. /\ UNCHANGED <<buffer, sent>>
        /\ IF part < 4 THEN part' = part + 1 /\ main' = "create"
                       ELSE part' = 1 /\ main' = "print"
    BY <1>5 DEF AttachPart, Onward
  <2>4. Fresh'
    BY <1>2, <2>3 DEF Fresh
  <2>5. CASE AttachedPart
    <3>1. /\ mainHeld' = mainHeld + Contents
          /\ lost' = lost
          /\ tree' = tree \union {Part}
      BY <2>5 DEF AttachedPart
    <3>2. Free' = Free - Contents
      BY <1>1, <2>1, <3>1 DEF TypeOK, Free
    <3>3. whole' \in BOOLEAN /\ (~crowded => (whole' <=> whole))
      BY <2>1, <2>2, <2>5 DEF AttachedPart, TypeOK
    <3>4. Part \in {"connectionData", "alarms", "alarm"} /\ (part = 3 => Part = "alarms")
      BY <2>1, PartsAre DEF Part
    <3>5. TypeOK'
      <4>1. Free' >= 0 /\ mainHeld' \in Nat
        BY <2>1, <3>1, <3>2
      <4>2. part' \in 1..4 /\ main' \in {"create", "print"}
        BY <2>1, <2>3
      <4>3. QED
        BY <1>1, <2>3, <3>1, <3>3, <3>4, <4>1, <4>2 DEF TypeOK
    <3>6. HeartbeatBound' /\ Roomy'
      BY <1>1, <2>1, <2>3, <3>1 DEF HeartbeatBound, Roomy
    <3>7. Growing'
      BY <1>2, <2>1, <2>3, <3>1, <3>3, <3>4 DEF Growing
    <3>8. QED
      BY <1>2, <2>4, <3>5, <3>6, <3>7
  <2>6. CASE OrphanedPart
    <3>1. crowded
      BY <2>1, <2>2, <2>6, PartsAre DEF OrphanedPart, Growing, Part
    <3>2. /\ mainHeld' = mainHeld - 1
          /\ lost' = lost \/ lost' = lost + 1 + Contents
          /\ tree' = tree
          /\ whole' = FALSE
      BY <2>6 DEF OrphanedPart
    <3>3. lost' \in Nat /\ lost' <= lost + 1 + Contents /\ mainHeld' \in Nat
      BY <2>1, <3>2 DEF TypeOK
    <3>4. Free' >= 0
      <4>1. CASE lost' = lost
        <5>1. Free' = Free + 1
          BY <1>1, <3>2, <3>3, <4>1 DEF TypeOK, Free
        <5>2. QED
          BY <2>1, <5>1
      <4>2. CASE lost' = lost + 1 + Contents
        <5>1. Free' = Free - Contents
          BY <1>1, <2>1, <3>2, <3>3, <4>2 DEF TypeOK, Free
        <5>2. QED
          BY <2>1, <5>1
      <4>3. QED
        BY <3>2, <4>1, <4>2
    <3>5. TypeOK'
      <4>1. part' \in 1..4 /\ main' \in {"create", "print"}
        BY <2>1, <2>3
      <4>2. QED
        BY <1>1, <2>3, <3>2, <3>3, <3>4, <4>1 DEF TypeOK
    <3>6. HeartbeatBound'
      BY <2>1, <2>3, <3>2 DEF HeartbeatBound
    <3>7. QED
      BY <1>2, <2>4, <3>1, <3>5, <3>6 DEF Roomy, Growing
  <2>7. QED
    BY <1>5, <2>5, <2>6 DEF AttachPart
<1>6. CASE PrintHeartbeat
  <2>1. /\ main = "print" /\ main' = "send" /\ mainHeld' = 0
        /\ tree' = {} /\ whole' = FALSE
        /\ UNCHANGED <<part, sent, lost>>
    BY <1>6 DEF PrintHeartbeat
  <2>2. /\ buffer' \in Texts
        /\ ~crowded /\ ~undefined => buffer' = "whole"
    BY <1>6, <2>1 DEF PrintHeartbeat, TypeOK, Texts, Growing
  <2>3. TypeOK'
    <3>1. Free' = Free + mainHeld
      BY <1>1, <2>1 DEF TypeOK, Free
    <3>2. Free' >= 0
      BY <3>1, FreeIsNat DEF TypeOK
    <3>3. QED
      BY <1>1, <2>1, <2>2, <3>2 DEF TypeOK
  <2>4. HeartbeatBound' /\ Roomy' /\ Growing' /\ Fresh'
    BY <1>1, <1>2, <2>1, <2>2 DEF HeartbeatBound, Roomy, Growing, Fresh
  <2>5. QED
    BY <1>2, <2>3, <2>4
<1>7. CASE SendHeartbeat
  <2>1. TypeOK'
    BY <1>1, <1>7 DEF SendHeartbeat, TypeOK, HeartbeatBound, Free, Texts
  <2>2. HeartbeatBound' /\ Roomy' /\ Growing' /\ Fresh'
    BY <1>1, <1>2, <1>7 DEF SendHeartbeat, HeartbeatBound, Roomy, Growing, Fresh
  <2>3. QED
    BY <1>2, <2>1, <2>2
<1>8. QED
  BY <1>3, <1>4, <1>5, <1>6, <1>7 DEF Heartbeat

\* The others only take what is free, and are seen to crowd.
LEMMA OthersIInv ==
    ASSUME IInv, NEW cells \in OthersUse, OthersAllocate(cells)
    PROVE  IInv'
<1> USE DEF IInv, OthersAllocate, reportVars, heartbeatVars
<1>1. cells \in Nat
  BY OthersUseIsNat
<1>2. TypeOK'
  <2>1. Free' = Free + others - cells
    BY <1>1, HeapHoldsBoth DEF TypeOK, Free
  <2>2. Free' >= 0
    BY <1>1, <2>1, FreeIsNat DEF TypeOK
  <2>3. crowded' \in BOOLEAN
    BY DEF TypeOK
  <2>4. QED
    BY <1>1, <2>2, <2>3 DEF TypeOK
<1>3. ReportBound' /\ HeartbeatBound'
  BY DEF ReportBound, HeartbeatBound
<1>4. CASE cells + Peak > HeapSize
  BY <1>2, <1>3, <1>4 DEF Roomy, Growing, Fresh
<1>5. CASE ~(cells + Peak > HeapSize)
  <2>1. crowded' = crowded /\ cells + Peak <= HeapSize
    BY <1>1, <1>5, HeapHoldsBoth, PeakIs
  <2>2. QED
    BY <1>2, <1>3, <2>1 DEF Roomy, Growing, Fresh
<1>6. QED
  BY <1>4, <1>5

\* Every step of the two threads and of the rest preserves the invariant.
LEMMA NextIInv == IInv /\ [Next]_vars => IInv'
<1> SUFFICES ASSUME IInv, [Next]_vars PROVE IInv'
  OBVIOUS
<1>1. CASE AzureStatus \/ ParseTwin \/ TwinReport
  BY <1>1, ReportIInv
<1>2. CASE Heartbeat
  BY <1>2, HeartbeatIInv
<1>3. CASE \E cells \in OthersUse : OthersAllocate(cells)
  BY <1>3, OthersIInv
<1>4. CASE Fault \/ UNCHANGED vars
  <2>1. UNCHANGED <<reportVars, heartbeatVars, sent, others, lost, azureConnected,
                    undefined, crowded>> /\ halted' \in BOOLEAN
    BY <1>4 DEF Fault, vars, IInv, TypeOK
  <2>2. Free' = Free
    BY <2>1 DEF reportVars, heartbeatVars, Free
  <2>3. QED
    BY <2>1, <2>2 DEF reportVars, heartbeatVars, IInv, TypeOK, ReportBound,
       HeartbeatBound, Roomy, Growing, Fresh
<1>5. QED
  BY <1>1, <1>2, <1>3, <1>4 DEF Next

\* The invariant holds in every reachable state.
THEOREM Invariance == Spec => []IInv
<1>1. QED
  BY InitIInv, NextIInv, PTL DEF Spec

\* The heap is never overdrawn and no error path returns what it never had.
THEOREM TypeCorrect == Spec => []TypeOK
<1>1. IInv => TypeOK
  BY DEF IInv
<1>2. QED
  BY <1>1, Invariance, PTL

\* In every heap with room for both messages nothing is lost, however the two
\* threads interleave (NothingLost).
THEOREM NoLeak == Spec => []NothingLost
<1>1. IInv => NothingLost
  BY DEF IInv, Roomy, NothingLost, TypeOK
<1>2. QED
  BY <1>1, Invariance, PTL

\* ... and every heartbeat the hub gets is whole (HeartbeatIsWhole).
THEOREM OnlyWholeHeartbeats == Spec => []HeartbeatIsWhole
<1>1. IInv => HeartbeatIsWhole
  BY DEF IInv, Fresh, HeartbeatIsWhole, TypeOK
<1>2. QED
  BY <1>1, Invariance, PTL

(* Between the moment main finds no room for a part and the print, the parts
   that hang on it are lost even if there is room again. *)
Incomplete == main = "attach" /\ ~whole

\* The heartbeat that is not whole is known to be so.
MissingIsKnown ==
    /\ main \in {"create", "attach"} /\ part > 1 => (whole => "root" \in tree)
    /\ main \in {"create", "attach"} /\ part > 3 => (whole => "alarms" \in tree)
    /\ main = "print" => (whole => "root" \in tree)

\* No step forgets what is missing.
LEMMA NextMissing == IInv /\ MissingIsKnown /\ [Next]_vars => MissingIsKnown'
<1> SUFFICES ASSUME IInv, MissingIsKnown, [Next]_vars PROVE MissingIsKnown'
  OBVIOUS
<1> USE DEF MissingIsKnown, IInv, TypeOK, HeartbeatBound
<1>1. CASE BeginHeartbeat \/ PrintHeartbeat \/ SendHeartbeat
  BY <1>1 DEF BeginHeartbeat, PrintHeartbeat, SendHeartbeat, MainAt
<1>2. CASE CreatePart
  <2>1. (part = 1) <=> (Part = "root")
    BY PartsAre DEF Part
  <2>2. QED
    BY <1>2, <2>1 DEF CreatePart, Onward, MainAt
<1>3. CASE AttachPart
  <2>1. part \in 2..4 /\ (part = 3 => Part = "alarms")
    BY <1>3, PartsAre DEF AttachPart, MainAt, Part
  <2>2. CASE AttachedPart
    BY <1>3, <2>1, <2>2 DEF AttachPart, AttachedPart, Onward, MainAt
  <2>3. CASE OrphanedPart
    BY <1>3, <2>1, <2>3 DEF AttachPart, OrphanedPart, Onward, MainAt
  <2>4. QED
    BY <1>3, <2>2, <2>3 DEF AttachPart
<1>4. CASE UNCHANGED heartbeatVars
  BY <1>4 DEF heartbeatVars
<1>5. QED
  BY <1>1, <1>2, <1>3, <1>4
     DEF Next, Heartbeat, AzureStatus, ParseTwin, TwinReport, DeleteTwin, CreateObject,
         AttachObject, PrintReport, ReportSent, ReportFails, MqttAt, OthersAllocate,
         Fault, vars

\* Every heartbeat that lacks its root or its alarms is known not to be whole.
THEOREM MissingInvariance == Spec => [](IInv /\ MissingIsKnown)
<1>1. Init => MissingIsKnown
  BY DEF Init, MissingIsKnown
<1>2. QED
  BY <1>1, InitIInv, NextIInv, NextMissing, PTL DEF Spec

(* There is room for both messages now. *)
Room == others + lost + Peak <= HeapSize

\* With room for both messages nobody finds the heap full.
LEMMA RoomIsFree ==
    ASSUME IInv, Room, main \in {"create", "attach"} \/ mqtt \in {"create", "attach"}
    PROVE  Free > 0
  BY HeapHoldsBoth, PeakIs DEF IInv, TypeOK, ReportBound, HeartbeatBound, Room, Free

\* Memory is lost only in a step that finds too little of it, or that attaches a
\* part to one there was too little of it for: what was lost before is no reason
\* to lose more once there is room again.
THEOREM LossNeedsShortage == Spec => [][lost' # lost => ~Room \/ Incomplete]_vars
<1>1. IInv /\ MissingIsKnown /\ [Next]_vars => [lost' # lost => ~Room \/ Incomplete]_vars
  <2> SUFFICES ASSUME IInv, MissingIsKnown, Next, lost' # lost, Room, ~Incomplete PROVE FALSE
    OBVIOUS
  <2>1. CreateObject \/ AttachObject \/ AttachPart
    BY DEF Next, Heartbeat, BeginHeartbeat, CreatePart, PrintHeartbeat, SendHeartbeat,
       AzureStatus, ParseTwin, TwinReport, DeleteTwin, PrintReport, ReportSent, ReportFails,
       Kept, OthersAllocate, Fault
  <2>2. CASE CreateObject \/ AttachObject
    <3>1. Free > 0
      BY <2>2, RoomIsFree DEF CreateObject, AttachObject, MqttAt
    <3>2. QED
      BY <2>2, <3>1, FreeIsNat DEF CreateObject, AttachObject, IInv
  <2>3. CASE AttachPart
    <3>1. main = "attach" /\ part \in 2..4 /\ Free > 0 /\ whole
      BY <2>3, RoomIsFree DEF AttachPart, MainAt, Incomplete, IInv, TypeOK, HeartbeatBound
    <3>2. Contents = 1 /\ Parent[Part] \in tree
      BY <3>1, PartsAre DEF Contents, Part, MissingIsKnown
    <3>3. QED
      BY <2>3, <3>2 DEF AttachPart, AttachedPart, OrphanedPart
  <2>4. QED
    BY <2>1, <2>2, <2>3
<1>2. QED
  BY <1>1, MissingInvariance, PTL DEF Spec

-----------------------------------------------------------------------------
(* Recovery.  The premise is the fairness of Spec for main with the condition
   under which Heartbeat is enabled written out. *)
HeartbeatRuns ==
    []<>(halted \/ (main = "loop" /\ ~azureConnected)) \/ []<><<Heartbeat>>_vars

(* What HeartbeatsRecover asks for. *)
Healthy == ~halted /\ ~undefined /\ azureConnected /\ Room

At(step, n) == main = step /\ part = n

\* With room for both messages main makes and attaches one part after the other,
\* and a heartbeat that was whole so far stays so.
LEMMA PartsInOrder ==
    ASSUME IInv, MissingIsKnown, Healthy, Heartbeat
    PROVE  /\ main = "loop" => At("create", 1)' /\ whole'
           /\ At("create", 1) => At("create", 2)'
           /\ \A n \in 2..4 : At("create", n) => At("attach", n)'
           /\ \A n \in 2..3 : At("attach", n) => At("create", n + 1)'
           /\ At("attach", 4) => main' = "print"
           /\ main \in {"create", "attach"} => (whole => whole')
           /\ main = "print" => main' = "send" /\ (whole => buffer' = "whole")
           /\ main = "send" => main' = "loop"
<1> USE DEF At, Healthy
<1>1. main \in {"create", "attach"} => Free > 0 /\ Contents = 1
  BY RoomIsFree DEF Contents
<1>2. CASE BeginHeartbeat \/ SendHeartbeat
  BY <1>2 DEF BeginHeartbeat, SendHeartbeat, MainAt
<1>3. CASE CreatePart
  <2>1. main = "create" /\ part \in 1..4 /\ Free > 0 /\ ~(Free = 0) /\ UNCHANGED whole
    BY <1>1, <1>3 DEF CreatePart, MainAt, IInv, TypeOK
  <2>2. (part = 1) <=> (Part = "root")
    BY <2>1, PartsAre DEF Part
  <2>3. QED
    BY <1>3, <2>1, <2>2 DEF CreatePart, Onward
<1>4. CASE AttachPart
  <2>1. main = "attach" /\ part \in 2..4 /\ Contents = 1
    BY <1>1, <1>4 DEF AttachPart, MainAt, IInv, TypeOK, HeartbeatBound
  <2>2. whole => Parent[Part] \in tree
    BY <2>1, PartsAre DEF Part, MissingIsKnown
  <2>3. whole => whole'
    <3>1. CASE AttachedPart
      BY <2>1, <3>1, Zenon DEF AttachedPart
    <3>2. CASE OrphanedPart
      BY <2>1, <2>2, <3>2 DEF OrphanedPart
    <3>3. QED
      BY <1>4, <3>1, <3>2 DEF AttachPart
  <2>4. QED
    BY <1>4, <2>1, <2>3 DEF AttachPart, Onward
<1>5. CASE PrintHeartbeat
  <2>1. main = "print" /\ main' = "send" /\ (whole => "root" \in tree)
    BY <1>5 DEF PrintHeartbeat, MainAt, MissingIsKnown
  <2>2. QED
    BY <1>5, <2>1 DEF PrintHeartbeat
<1>6. QED
  BY <1>2, <1>3, <1>4, <1>5 DEF Heartbeat

\* Nobody but main touches the heartbeat.
LEMMA OnlyMainBuilds == [Next]_vars => Heartbeat \/ UNCHANGED heartbeatVars
  BY DEF Next, AzureStatus, ParseTwin, TwinReport, DeleteTwin, CreateObject, AttachObject,
     PrintReport, ReportSent, ReportFails, MqttAt, OthersAllocate, Fault, vars

\* Once there is room again and the link stays up, whole heartbeats go to the hub
\* again, whatever was lost or left half built before (HeartbeatsRecover).
THEOREM HeartbeatsComeBack == Spec /\ HeartbeatRuns => HeartbeatsRecover
<1> DEFINE Ok == Healthy
           L == main = "loop"
           C1 == At("create", 1)
           C2 == At("create", 2)
           C3 == At("create", 3)
           C4 == At("create", 4)
           A2 == At("attach", 2)
           A3 == At("attach", 3)
           A4 == At("attach", 4)
           P == main = "print"
           S == main = "send"
           W == whole
           B == buffer = "whole"
           Done == S /\ B
           Inv == IInv /\ MissingIsKnown
<1>1. Inv => L \/ C1 \/ C2 \/ A2 \/ C3 \/ A3 \/ C4 \/ A4 \/ P \/ S
  <2>1. 1..4 = {1, 2, 3, 4}
    OBVIOUS
  <2>2. QED
    BY <2>1 DEF At, IInv, TypeOK, HeartbeatBound
<1>2. Inv /\ Ok /\ <<Heartbeat>>_vars =>
        /\ L => C1' /\ W'
        /\ C1 => C2' /\ (W => W')
        /\ C2 => A2' /\ (W => W')
        /\ A2 => C3' /\ (W => W')
        /\ C3 => A3' /\ (W => W')
        /\ A3 => C4' /\ (W => W')
        /\ C4 => A4' /\ (W => W')
        /\ A4 => P' /\ (W => W')
        /\ P => S' /\ (W => B')
        /\ S => L'
  BY PartsInOrder DEF At
<1>3. Inv /\ Ok /\ [Next]_vars =>
        \/ <<Heartbeat>>_vars
        \/ /\ (L' <=> L) /\ (P' <=> P) /\ (S' <=> S) /\ (W' <=> W) /\ (B' <=> B)
           /\ (C1' <=> C1) /\ (C2' <=> C2) /\ (C3' <=> C3) /\ (C4' <=> C4)
           /\ (A2' <=> A2) /\ (A3' <=> A3) /\ (A4' <=> A4)
  <2>1. Heartbeat /\ UNCHANGED vars => UNCHANGED heartbeatVars
    BY DEF vars
  <2>2. QED
    BY <2>1, OnlyMainBuilds DEF At, heartbeatVars
<1>4. Spec /\ HeartbeatRuns => (<>[]Ok => <>[]Ok /\ []<><<Heartbeat>>_vars)
  <2>1. Ok => ~(halted \/ (main = "loop" /\ ~azureConnected))
    BY DEF Healthy
  <2> HIDE DEF Ok
  <2>2. QED
    BY <2>1, PTL DEF HeartbeatRuns
<1>5. Spec => []Inv
  BY MissingInvariance
<1> HIDE DEF Ok, L, C1, C2, C3, C4, A2, A3, A4, P, S, W, B, Inv
<1> DEFINE Runs == Spec /\ <>[]Ok /\ []<><<Heartbeat>>_vars
<1>6. Runs => []<>L
  <2>1. Runs => (<>[](~L) => []<>P)
    BY <1>1, <1>2, <1>3, <1>5, PTL DEF Spec
  <2>2. QED
    BY <1>2, <1>3, <1>5, <2>1, PTL DEF Spec
<1>7. Runs => []<>Done
  <2>1. Runs => []<>(C1 /\ W)
    BY <1>2, <1>3, <1>5, <1>6, PTL DEF Spec
  <2>2. Runs => []<>(C3 /\ W)
    <3>1. Runs => []<>(A2 /\ W)
      BY <1>2, <1>3, <1>5, <2>1, PTL DEF Spec
    <3>2. QED
      BY <1>2, <1>3, <1>5, <3>1, PTL DEF Spec
  <2>3. Runs => []<>(C4 /\ W)
    BY <1>2, <1>3, <1>5, <2>2, PTL DEF Spec
  <2>4. Runs => []<>(P /\ W)
    BY <1>2, <1>3, <1>5, <2>3, PTL DEF Spec
  <2>5. QED
    BY <1>2, <1>3, <1>5, <2>4, PTL DEF Spec
<1>8. Spec /\ HeartbeatRuns => (<>[]Ok => []<>Done)
  BY <1>4, <1>7, PTL
<1>9. QED
  BY <1>8 DEF Ok, S, B, Healthy, Room, HeartbeatsRecover
=============================================================================
