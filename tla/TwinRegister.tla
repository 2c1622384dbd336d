---------------------------- MODULE TwinRegister ----------------------------
(***************************************************************************)
(* What the device twin promises the cloud, without threads, documents and *)
(* failures: settings are received; now and then the last ones received    *)
(* are reported, truly though perhaps not all of them; and then each of    *)
(* them is applied, before anything else is received.  Settings for which  *)
(* no report goes out are never applied.                                   *)
(***************************************************************************)
CONSTANTS Parts, Values

VARIABLES wanted,      \* the settings received last
          told,        \* what the last report told of them
          applied,     \* what the device does
          todo         \* parts that were reported on and are not applied yet

vars == <<wanted, told, applied, todo>>

AllSettings == [Parts -> Values]

Init == /\ wanted \in AllSettings
        /\ DOMAIN told \subseteq Parts
        /\ told \in [DOMAIN told -> Values]
        /\ applied \in AllSettings
        /\ todo = {}

Receive == /\ todo = {}
           /\ wanted' \in AllSettings
           /\ UNCHANGED <<told, applied, todo>>

Report == /\ todo = {}
          /\ \E P \in SUBSET Parts : told' = [p \in P |-> wanted[p]]
          /\ todo' = Parts
          /\ UNCHANGED <<wanted, applied>>

Apply(p) ==
    /\ p \in todo
    /\ applied' = [applied EXCEPT ![p] = wanted[p]]
    /\ todo' = todo \ {p}
    /\ UNCHANGED <<wanted, told>>

Next == Receive \/ Report \/ (\E p \in Parts : Apply(p))

SafetySpec == Init /\ [][Next]_vars

\* Once a report was sent, what it was about is applied in the end, all of it.
Liveness == todo # {} ~> todo = {}

Spec == SafetySpec /\ Liveness
=============================================================================
