--------------------------- MODULE MCEndpointSender ---------------------------
(* Two loads, each wired back to an input of the device; the driver relays *)
(* the first input to both loads and shows the second one only.            *)
EXTENDS EndpointSender, TLC

CONSTANTS in1, in2, out1, out2

MCBindings == {[from |-> out1, to |-> in1], [from |-> out2, to |-> in2]}

MCRelay == [k \in {in1, in2, out1, out2} |-> IF k = in1 THEN {out1, out2} ELSE {}]

(* Two classes, and a set without the second load.                         *)
MCDeclarations == {[k \in {in1, out1, out2} |->
                       CASE k = in1 -> "" [] k = out1 -> "TOGGLE" [] k = out2 -> "RELATIVE"],
                   [k \in {out1} |-> "RELATIVE"]}

(* The declarers are alike, and the properties are invariants.             *)
Symmetry == Permutations(Declarers)
=============================================================================
