------------------------------ MODULE BoundedLog ------------------------------
(***************************************************************************)
(* What the structured event log promises: of the events offered to it     *)
(* those it has room for enter, the others are counted as dropped; what    *)
(* entered leaves in that order, oldest first and each once, towards core  *)
(* or, when core cannot be reached, counted as dropped; and when it ends   *)
(* after it was closed, everything that entered has left, unless core      *)
(* could not be reached for the last of it.  EventLog is shown to          *)
(* implement this.                                                         *)
(***************************************************************************)
EXTENDS Naturals, Sequences

CONSTANTS
    Full,      \* so many events inside may be too many
    Room,      \* so many are
    BatchMax   \* events that leave together

VARIABLES
    open,      \* it may still be offered events
    offering,  \* events offered, neither entered nor dropped yet
    entered,   \* events that entered
    gone,      \* the oldest of them that have left
    sent,      \* those of these that core has, in its order
    dropped,   \* what the log says it dropped
    ended

logVars == <<open, offering, entered, gone, sent, dropped, ended>>

Init ==
    /\ open = TRUE /\ ended = FALSE
    /\ offering = 0 /\ entered = 0 /\ gone = 0 /\ dropped = 0
    /\ sent = <<>>

Offer ==
    /\ open /\ offering' = offering + 1
    /\ UNCHANGED <<open, entered, gone, sent, dropped, ended>>

Enter ==
    /\ offering > 0 /\ offering' = offering - 1
    /\ entered < gone + Room /\ entered' = entered + 1
    /\ UNCHANGED <<open, gone, sent, dropped, ended>>

Overflow ==
    /\ offering > 0 /\ offering' = offering - 1
    /\ entered >= gone + Full /\ dropped' = dropped + 1
    /\ UNCHANGED <<open, entered, gone, sent, ended>>

(* The n oldest leave.                                                     *)
Leave(n) ==
    /\ ~ended /\ gone + n <= entered
    /\ gone' = gone + n
    /\ UNCHANGED <<open, offering, entered>>

Deliver(n) ==
    /\ Leave(n)
    /\ sent' = sent \o [i \in 1..n |-> gone + i]
    /\ UNCHANGED <<dropped, ended>>

Lose(n) ==
    /\ Leave(n)
    /\ dropped' = dropped + n
    /\ ended' \in {FALSE, ~open}
    /\ UNCHANGED sent

Close ==
    /\ open /\ open' = FALSE
    /\ UNCHANGED <<offering, entered, gone, sent, dropped, ended>>

End ==
    /\ ~open /\ ~ended /\ gone = entered
    /\ ended' = TRUE
    /\ UNCHANGED <<open, offering, entered, gone, sent, dropped>>

Next ==
    \/ Offer \/ Enter \/ Overflow \/ Close \/ End
    \/ \E n \in 1..BatchMax : Deliver(n) \/ Lose(n)

Spec == Init /\ [][Next]_logVars
=============================================================================
