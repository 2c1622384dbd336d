--------------------------- MODULE MCProvisioning ---------------------------
(* Provisioning on a small instance: one line of every kind the code tells
   apart, a queue of two, and as many lines per boot as replacing a setting
   (C, text, Y) with one slip in between takes. *)
EXTENDS Provisioning

MCEmpty == "empty"
MCSpoilt == "spoilt"
\* A setting, a longer text, and the 12 characters a save keeps of that in the
\* scope id; of the others it keeps more, which there is room for.
MCStrings == {MCEmpty, "new", "full"}
MCOverlong == {"line"}
MCRoom == [k \in Keys |-> {MCEmpty, "new"}]
MCCut == [k \in Keys |-> [text \in MCStrings \union MCOverlong |->
                            IF text \in MCRoom[k] THEN text
                            ELSE IF k = "scopeId" THEN "full" ELSE "new"]]
MCPems == {"pem"}
Typed(first, size, text) == [first |-> first, size |-> size, text |-> text]
MCLines == {Typed(letter, "one", "new") : letter \in {"N", "Y", "E", "D"}}
           \union {Typed("C", "short", "line"), Typed("other", "long", "pem")}
MCQueueSize == 2
MCMaxTyped == 3
MCMaxTypedLonger == 4
MCMaxPowerCuts == 1
=============================================================================
