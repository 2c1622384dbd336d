------------------------------ MODULE MCLocalIO -----------------------------
(* LocalIO with both inputs and the reference, and one button.  Closed contacts
   read a little below zero; the contact of input 0 also opens; the reference
   is the pull-up voltage, above the threshold. *)
EXTENDS LocalIO

MCLevels == [c \in 0..2 |-> CASE c = 0 -> {-10, 101} [] c = 1 -> {-10} [] c = 2 -> {101}]
=============================================================================
