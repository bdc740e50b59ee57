----------------------------- MODULE RecentReads -----------------------------
(***************************************************************************)
(* What a cache in front of a table promises those who ask it: a question  *)
(* is answered once, at one moment, from the table as it was at some       *)
(* moment not longer ago than a bound; or, when its own attempt to look    *)
(* failed, from the table as it was at some earlier time, or from an empty *)
(* one.  Nobody is answered from a table there never was.  The binding     *)
(* manager is shown to implement this.                                     *)
(***************************************************************************)
EXTENDS Integers, Sequences

CONSTANTS
    Callers,
    Tables,
    Empty,         \* the table of one who never saw any
    Questions,
    NoQuestion,
    Answer(_, _),  \* what a table says to a question
    NoAnswer,
    Bound          \* how long ago it may have said so

VARIABLES
    history,   \* the tables there have been: a sequence of [at, rows]
    now,
    at,        \* per caller: idle, open, missed or told
    question,
    answer

readVars == <<history, now, at, question, answer>>

(* The tables there have been, and those there were from a to b.           *)
Ever == {history[i].rows : i \in 1..Len(history)}

During(a, b) ==
    {history[i].rows : i \in {j \in 1..Len(history) :
        /\ history[j].at <= b
        /\ j < Len(history) => history[j + 1].at >= a}}

Init ==
    /\ \E t \in Tables : history = <<[at |-> 0, rows |-> t]>>
    /\ now = 0
    /\ at = [c \in Callers |-> "idle"]
    /\ question = [c \in Callers |-> NoQuestion]
    /\ answer = [c \in Callers |-> NoAnswer]

Edit ==
    /\ \E t \in Tables : history' = Append(history, [at |-> now, rows |-> t])
    /\ UNCHANGED <<now, at, question, answer>>

Tick == now' = now + 1 /\ UNCHANGED <<history, at, question, answer>>

Goto(c, place) == at' = [at EXCEPT ![c] = place]

Ask(c) ==
    /\ at[c] = "idle" /\ Goto(c, "open")
    /\ \E q \in Questions : question' = [question EXCEPT ![c] = q]
    /\ UNCHANGED <<history, now, answer>>

Miss(c) ==
    /\ at[c] = "open" /\ Goto(c, "missed")
    /\ UNCHANGED <<history, now, question, answer>>

Tell(c, t) ==
    /\ Goto(c, "told")
    /\ answer' = [answer EXCEPT ![c] = Answer(t, question[c])]
    /\ UNCHANGED <<history, now, question>>

TellRecent(c) == at[c] = "open" /\ \E t \in During(now - Bound, now) : Tell(c, t)

TellOld(c) == at[c] = "missed" /\ \E t \in Ever \cup {Empty} : Tell(c, t)

Return(c) ==
    /\ at[c] = "told" /\ Goto(c, "idle")
    /\ question' = [question EXCEPT ![c] = NoQuestion]
    /\ answer' = [answer EXCEPT ![c] = NoAnswer]
    /\ UNCHANGED <<history, now>>

Next ==
    \/ Edit \/ Tick
    \/ \E c \in Callers : Ask(c) \/ Miss(c) \/ TellRecent(c) \/ TellOld(c) \/ Return(c)

Spec == Init /\ [][Next]_readVars
=============================================================================
