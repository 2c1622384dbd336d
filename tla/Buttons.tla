------------------------------- MODULE Buttons ------------------------------
(***************************************************************************)
(* The buttons (buttonModule.c): an edge latches an interrupt, and the     *)
(* callback reads the pin some time later.  A component of LocalIO.        *)
(***************************************************************************)
EXTENDS Naturals

CONSTANT ButtonCount      \* button0, button1

ASSUME ButtonCountIsNat == ButtonCount \in Nat

ButtonIds == 0..(ButtonCount - 1)

VARIABLES
    pressed,        \* the pins
    listening,      \* buttons with a callback and an enabled interrupt
    latched,        \* edges seen by the GPIO controller and not yet handled
    inCallback,     \* buttons whose callback runs
    heard,          \* what main() was told last of each button
    misread         \* buttons whose pin could not be read for that; only observed

buttonVars == <<pressed, listening, latched, inCallback, heard, misread>>

ButtonsTypeOK ==
    /\ pressed \subseteq ButtonIds
    /\ listening \subseteq ButtonIds
    /\ latched \subseteq ButtonIds
    /\ inCallback \subseteq ButtonIds
    /\ heard \in [ButtonIds -> {"nothing", "pressed", "released"}]
    /\ misread \subseteq ButtonIds

ButtonsInit ==
    /\ pressed \in SUBSET ButtonIds
    /\ listening = {}
    /\ latched = {}
    /\ inCallback = {}
    /\ heard = [b \in ButtonIds |-> "nothing"]
    /\ misread = {}

(* ButtonsHandlerInit and ButtonsHandlerStart stop at the first button they
   cannot configure; setup() does not look at the results. *)
ButtonsHandlerStart ==
    /\ \E configured \in 0..ButtonCount : listening' = {b \in ButtonIds : b < configured}
    /\ UNCHANGED <<pressed, latched, inCallback, heard, misread>>

EdgeToActiveOnly(b) ==
    /\ pressed' = (pressed \ {b}) \cup ({b} \ pressed)
    /\ latched' = latched \cup ((listening \cap {b}) \ pressed)
    /\ UNCHANGED <<listening, inCallback, heard, misread>>

(* GPIO_INT_EDGE_BOTH: a second edge before the callback is not counted. *)
Edge(b) ==
    /\ pressed' = (pressed \ {b}) \cup ({b} \ pressed)
    /\ latched' = latched \cup (listening \cap {b})
    /\ UNCHANGED <<listening, inCallback, heard, misread>>

(* The driver clears the latch and then calls. *)
Interrupt(b) ==
    /\ b \in latched
    /\ inCallback = {}
    /\ latched' = latched \ {b}
    /\ inCallback' = {b}
    /\ UNCHANGED <<pressed, listening, heard, misread>>

Level(b) == IF b \in pressed THEN "pressed" ELSE "released"

(* The status struct is shared by both buttons; callbacks do not overlap, and
   main() reads it before they return.  A pin that cannot be read counts as
   pressed: its error is not 0. *)
ButtonPressedCb(b) ==
    /\ b \in inCallback
    /\ inCallback' = {}
    /\ \/ heard' = [heard EXCEPT ![b] = Level(b)] /\ misread' = misread \ {b}
       \/ heard' = [heard EXCEPT ![b] = "pressed"] /\ misread' = misread \cup {b}
    /\ UNCHANGED <<pressed, listening, latched>>

ButtonsNext == \E b \in ButtonIds : Edge(b) \/ Interrupt(b) \/ ButtonPressedCb(b)

-----------------------------------------------------------------------------
(* Properties *)

\* Once no interrupt is outstanding the last event main() got about a button is
\* its level: bounces that share one interrupt, and edges during the callback,
\* leave no stale state behind.  (A button held since before the start has not
\* been heard of.)  A pin that could not be read is told as pressed, and is put
\* right by the next edge whose level can be read.
HeardIsLevel ==
    \A b \in ButtonIds \ (latched \cup inCallback) :
        heard[b] # "nothing" => heard[b] = IF b \in misread THEN "pressed" ELSE Level(b)
=============================================================================
