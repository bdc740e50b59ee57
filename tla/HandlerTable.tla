---------------------------- MODULE HandlerTable ----------------------------
(***************************************************************************)
(* The handlers of one message type of the message bus, and the wildcard   *)
(* handlers appended to them at every dispatch (message_bus.go).           *)
(*                                                                         *)
(* A Go slice is an array and a length.  append writes past the length     *)
(* when the array has room and moves to a larger array otherwise;          *)
(* registering does it under handlersMu, dispatching without it.           *)
(***************************************************************************)
EXTENDS Naturals, Sequences, FiniteSets

CONSTANTS
    Handlers,    \* handlers registered for the type, by the driver's goroutines
    Wildcards,   \* the handlers registered for "*", in order, before Start
    Nothing,     \* an array cell never written
    MaxMessages  \* bound: messages dispatched


VARIABLES
    cells,      \* the array mb.handlers[type] points into
    length,     \* the length of mb.handlers[type]
    shared,     \* the dispatch under way appends to the array of mb.handlers[type]
    poller,     \* where the poll goroutine is: "poll", "append" or "call"
    handlers,   \* the slice it dispatches to: cells (when not shared) and length
    dispatched, \* messages dispatched so far
    registered  \* observed: handlers registered, in order

vars == <<cells, length, shared, poller, handlers, dispatched, registered>>

Capacity == Len(cells)
Size(n)  == IF n = 0 THEN 1 ELSE 2 * n

Init ==
    /\ cells = <<>> /\ length = 0 /\ shared = FALSE
    /\ poller = "poll" /\ handlers = <<>> /\ dispatched = 0
    /\ registered = <<>>

Overwrite(array, from, seq) ==
    [i \in DOMAIN array |-> IF i - from \in DOMAIN seq THEN seq[i - from] ELSE array[i]]

(* RegisterHandler: append under the lock.  A full array is left to the    *)
(* dispatch under way and the handlers move to a larger one.               *)
RegisterHandler(h) ==
    /\ \A i \in DOMAIN registered : registered[i] # h
    /\ registered' = Append(registered, h)
    /\ length' = length + 1
    /\ IF length < Capacity
       THEN cells' = Overwrite(cells, length, <<h>>) /\ UNCHANGED <<shared, handlers>>
       ELSE /\ cells' = [i \in 1..Size(Capacity) |->
                            IF i <= length THEN cells[i] ELSE IF i = length + 1 THEN h ELSE Nothing]
            /\ shared' = FALSE
            /\ handlers' = IF shared THEN [handlers EXCEPT !.array = cells] ELSE handlers
    /\ UNCHANGED <<poller, dispatched>>

(* dispatchMessage reads the slice under the lock and gives the lock back. *)
ReadHandlers ==
    /\ poller = "poll" /\ dispatched < MaxMessages
    /\ handlers' = [array |-> cells, length |-> length] /\ shared' = TRUE
    /\ dispatched' = dispatched + 1
    /\ poller' = "append"
    /\ UNCHANGED <<cells, length, registered>>

(* append(handlers, wildcardHandlers...): in place when they fit.          *)
AppendWildcards ==
    /\ poller = "append" /\ poller' = "call"
    /\ LET total == handlers.length + Len(Wildcards)
           array == IF shared THEN cells ELSE handlers.array
       IN  IF total <= Len(array)
           THEN IF shared
                THEN /\ cells' = Overwrite(cells, handlers.length, Wildcards)
                     /\ handlers' = [handlers EXCEPT !.length = total]
                     /\ UNCHANGED shared
                ELSE /\ handlers' = [array |-> Overwrite(array, handlers.length, Wildcards),
                                     length |-> total]
                     /\ UNCHANGED <<cells, shared>>
           ELSE /\ handlers' = [array |-> SubSeq(array, 1, handlers.length) \o Wildcards,
                                length |-> total]
                /\ shared' = FALSE /\ UNCHANGED cells
    /\ UNCHANGED <<length, dispatched, registered>>

(* The handlers are called; the next message may be dispatched.            *)
CallHandlers ==
    /\ poller = "call" /\ poller' = "poll"
    /\ handlers' = <<>> /\ shared' = FALSE
    /\ UNCHANGED <<cells, length, dispatched, registered>>

Next == (\E h \in Handlers : RegisterHandler(h)) \/ ReadHandlers \/ AppendWildcards \/ CallHandlers
Spec == Init /\ [][Next]_vars
-----------------------------------------------------------------------------
(* "RegisterHandler registers a message handler for a specific message     *)
(* type" (message_bus.go:192): what was registered is what the bus holds.  *)
RegisteredIsKept == SubSeq(cells, 1, length) = registered
=============================================================================
