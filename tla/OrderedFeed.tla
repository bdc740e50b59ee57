----------------------------- MODULE OrderedFeed -----------------------------
(***************************************************************************)
(* What the endpoint bus promises a driver's handlers: an instance of the  *)
(* driver begins at the start of its queue, may pass over once what is     *)
(* queued there, and from then on is handed the messages that are its own, *)
(* one after the other and each once, until it ends.  Nothing else moves   *)
(* it along the queue or back: no poll that fails, no answer that is lost, *)
(* no message of somebody else's.  EndpointBus is shown to implement this. *)
(***************************************************************************)
EXTENDS Naturals, Sequences

VARIABLES
    ours,      \* per message queued, oldest first: it is for the handlers
    reader,    \* the instance of the driver: none, catching up, or reading
    position,  \* the last message it passed over or was handed
    handed     \* the messages it was handed

Init ==
    /\ ours = <<>>
    /\ reader = "none" /\ position = 0 /\ handed = <<>>

Queue ==
    /\ \E b \in BOOLEAN : ours' = Append(ours, b)
    /\ UNCHANGED <<reader, position, handed>>

Begin ==
    /\ reader = "none" /\ reader' = "catching up"
    /\ position' = 0 /\ handed' = <<>>
    /\ UNCHANGED ours

PassOver ==
    /\ reader = "catching up" /\ reader' = "reading"
    /\ position' \in {0} \cup {id \in DOMAIN ours : ours[id]}
    /\ UNCHANGED <<ours, handed>>

(* The next message of its own: what lies between is somebody else's.      *)
NextOfOurs(id) ==
    /\ id \in DOMAIN ours /\ ours[id] /\ position < id
    /\ \A m \in DOMAIN ours : position < m /\ m < id => ~ours[m]

HandOver ==
    /\ reader = "reading"
    /\ \E id \in DOMAIN ours :
        /\ NextOfOurs(id)
        /\ position' = id /\ handed' = Append(handed, id)
    /\ UNCHANGED <<ours, reader>>

End ==
    /\ reader # "none" /\ reader' = "none"
    /\ UNCHANGED <<ours, position, handed>>

Next == Queue \/ Begin \/ PassOver \/ HandOver \/ End

Spec == Init /\ [][Next]_<<ours, reader, position, handed>>
=============================================================================
