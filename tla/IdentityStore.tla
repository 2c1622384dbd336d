--------------------------- MODULE IdentityStore ----------------------------
(***************************************************************************)
(* What provisioning promises main(), without an operator, a queue or a    *)
(* menu: in each boot what can be read is read, once; then a key is handed *)
(* over as it was read, or changed, in which case it is handed over as     *)
(* changed and kept for the next boot unless flash fails.  No key takes    *)
(* the value of another, and the power may go at any time.                 *)
(*                                                                         *)
(* It promises less of long texts: a key keeps Cut of a text but gives the *)
(* whole of it, and if main() has no Room for that, the text spoils other  *)
(* keys or is spoilt with them.                                            *)
(***************************************************************************)
CONSTANTS Keys, Strings, Texts, Empty, Spoilt, Cut, Room

VARIABLES stored,    \* what the next boot will find
          cached,    \* what this boot has
          given      \* what main() was given

vars == <<stored, cached, given>>

AllEmpty == [k \in Keys |-> Empty]

Init == /\ stored \in [Keys -> Strings]
        /\ cached = AllEmpty
        /\ given = AllEmpty

Load == /\ cached = AllEmpty
        /\ given = AllEmpty
        /\ \E readable \in SUBSET Keys :
               cached' = [k \in Keys |-> IF k \in readable THEN stored[k] ELSE Empty]
        /\ UNCHANGED <<stored, given>>

Give(k, text) ==
    /\ given' \in [Keys -> Texts \union {Spoilt}]
    /\ given'[k] = text
    /\ \A j \in Keys \ {k} :
           \/ given'[j] = given[j]
           \/ given'[j] = Spoilt /\ (text \notin Room[k] \/ given[j] \notin Room[j])

HandOver(k) == Give(k, cached[k]) /\ UNCHANGED <<stored, cached>>

Change(k, text) ==
    /\ Give(k, text)
    /\ cached' = [cached EXCEPT ![k] = Cut[k][text]]
    /\ stored' \in {stored, [stored EXCEPT ![k] = Cut[k][text]]}

PowerOff == /\ cached' = AllEmpty
            /\ given' = AllEmpty
            /\ UNCHANGED stored

Next == \/ Load
        \/ \E k \in Keys : HandOver(k) \/ \E text \in Texts : Change(k, text)
        \/ PowerOff

Spec == Init /\ [][Next]_vars
=============================================================================
