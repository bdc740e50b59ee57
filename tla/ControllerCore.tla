--------------------------- MODULE ControllerCore ---------------------------
(***************************************************************************)
(* The part of controller-core that a driver's EndpointBus talks to.  It   *)
(* is not in this repository: it is modelled from what endpoint_bus.go and *)
(* controls_notice.go ask of it, and every definition here is external.    *)
(*                                                                         *)
(* Core keeps one queue of messages per device and the device row.  A      *)
(* message's id is its position in the queue, so "after_id = a, limit = n" *)
(* asks for the messages a+1 .. a+n that exist.  A write of the Control    *)
(* tab changes the row and queues a "controls" notice.  Core counts a      *)
(* message as received when it answers a poll with it, unless the poll     *)
(* says peek=1, and calls a row's controls pending while its newest notice *)
(* has not been received.                                                  *)
(***************************************************************************)
EXTENDS Naturals, Integers, Sequences

CONSTANTS
    MaxQueue,     \* bound: messages ever queued
    MaxWrites,    \* bound: writes of the Control tab
    OtherKinds,   \* kinds queued besides "controls"
    ClockSteps,   \* how core's millisecond clock may move between two writes
    NoticeBodies  \* whether a notice may carry the values (TRUE) or nothing (FALSE)

ASSUME BoundsAssumption == MaxQueue \in Nat /\ MaxWrites \in Nat
ASSUME KindsAssumption ==
    OtherKinds \subseteq {"endpoint", "child_controls", "nack", "legacy"}
ASSUME ClockAssumption == ClockSteps \subseteq Int
ASSUME BodiesAssumption == NoticeBodies \subseteq BOOLEAN

VARIABLES
    queue,     \* the device's messages, oldest first
    row,       \* the device row: which write it holds, and that write's stamp
    received   \* the messages core has answered a poll (not a peek) with

coreVars == <<queue, row, received>>

(* A stamp of 0 is a row or a notice without one (numberToMs).             *)
Writes  == [write : Nat, ts : Nat]
Message == [kind : {"controls"} \cup OtherKinds, write : Nat, ts : Nat, body : BOOLEAN]

CoreTypeOK ==
    /\ queue \in Seq(Message)
    /\ row \in Writes
    /\ received \subseteq Nat

CoreInit ==
    /\ queue = <<>>
    /\ row = [write |-> 0, ts |-> 0]
    /\ received = {}

(* A person, a scene or a routine writes the whole set of controls.        *)
WriteControls ==
    /\ row.write < MaxWrites /\ Len(queue) < MaxQueue
    /\ \E step \in ClockSteps, body \in NoticeBodies :
          /\ row.ts + step >= 0
          /\ row' = [write |-> row.write + 1, ts |-> row.ts + step]
          /\ queue' = Append(queue, [kind |-> "controls", write |-> row.write + 1,
                                     ts |-> row.ts + step, body |-> body])
    /\ UNCHANGED received

(* Any other message addressed to the device.                              *)
QueueMessage ==
    /\ Len(queue) < MaxQueue
    /\ \E kind \in OtherKinds :
          queue' = Append(queue, [kind |-> kind, write |-> 0, ts |-> 0, body |-> TRUE])
    /\ UNCHANGED <<row, received>>

(* What a poll is answered with, and what the answer makes core count.     *)
Answer(after, limit) == {id \in DOMAIN queue : after < id /\ id <= after + limit}

CountReceived(ids) == received' = received \cup ids

(* Core says so of the device row while the notice of the write the row    *)
(* holds has not been received.                                            *)
ControlsPending ==
    \E id \in DOMAIN queue :
        queue[id].kind = "controls" /\ queue[id].write = row.write /\ id \notin received
=============================================================================
