---------------------------- MODULE AnsweredCalls ----------------------------
(***************************************************************************)
(* What acknowledgments promise the callers of SendWithAck: a call is made *)
(* once and ends once, without an answer or with one, and an answer is     *)
(* what some recipient's handlers did with a message of the same driver    *)
(* under the same correlation id: with its own, when no other has that id. *)
(* What the handlers did is known to nobody else and never taken back.     *)
(* MessageBus is shown to implement this.                                  *)
(***************************************************************************)
CONSTANTS
    Calls,
    Threads,   \* a driver and a correlation id
    NoThread

VARIABLES
    thread,    \* per call: what it was made under
    status,    \* per call: not made, open, answered, or over without an answer
    outcomes   \* per call: how its handlers ended, each time they ran

callsVars == <<thread, status, outcomes>>

Answered == {"acked", "nacked"}

Init ==
    /\ thread = [c \in Calls |-> NoThread]
    /\ status = [c \in Calls |-> "idle"]
    /\ outcomes = [c \in Calls |-> {}]

Make(c) ==
    /\ status[c] = "idle"
    /\ \E t \in Threads : thread' = [thread EXCEPT ![c] = t]
    /\ \E s \in {"open", "over"} : status' = [status EXCEPT ![c] = s]
    /\ UNCHANGED outcomes

Handle(c) ==
    /\ status[c] # "idle"
    /\ \E r \in Answered : outcomes' = [outcomes EXCEPT ![c] = @ \cup {r}]
    /\ UNCHANGED <<thread, status>>

Answer(c) ==
    /\ status[c] = "open"
    /\ \E x \in Calls : thread[x] = thread[c]
          /\ \E r \in outcomes[x] : status' = [status EXCEPT ![c] = r]
    /\ UNCHANGED <<thread, outcomes>>

(* A call ends without an answer, or a driver's process with all it has.   *)
Abandon ==
    /\ \E C \in SUBSET {c \in Calls : status[c] = "open"} :
          status' = [c \in Calls |-> IF c \in C THEN "over" ELSE status[c]]
    /\ UNCHANGED <<thread, outcomes>>

Next == Abandon \/ \E c \in Calls : Make(c) \/ Handle(c) \/ Answer(c)

Spec == Init /\ [][Next]_callsVars
=============================================================================
