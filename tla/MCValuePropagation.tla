------------------------- MODULE MCValuePropagation -------------------------
EXTENDS ValuePropagation

CONSTANT fan

Out(device, enabled, both) ==
    [source |-> Us, endpoint |-> "dim", target |-> device, enabled |-> enabled,
     bidirectional |-> both]

(* One binding one way, one both ways.                                     *)
MCRows == {Out(fan, TRUE, FALSE), Out(fan, TRUE, TRUE)}
=============================================================================
