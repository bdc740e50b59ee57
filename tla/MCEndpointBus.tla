---- MODULE MCEndpointBus ----
(* The instances of EndpointBus that TLC checks.                           *)
EXTENDS EndpointBus

(* Core's clock may stall within a millisecond, or be set back.            *)
AnyClock    == {-1, 0, 1}
StrictClock == {1}

AllKinds   == {"endpoint", "nack", "legacy"}
FewKinds   == {"endpoint", "legacy"}
====
