------------------------------ MODULE PlainCall ------------------------------
(* A call of an uninstrumented library function, as its caller sees it: the   *)
(* library is invoked once, and the caller receives what it answered, or the  *)
(* items its stream yielded, in full, until the stream stops or the caller    *)
(* leaves it.  A stream that raises may be read on.                           *)
EXTENDS Naturals

VARIABLES
    calls,    \* how often the library function was invoked
    answer,   \* what the library did last
    sent,     \* items the library's stream has yielded
    seen,     \* items the caller has received
    outcome   \* what the caller has

vars == <<calls, answer, sent, seen, outcome>>

Answers == {"value", "error", "cancelled"}

Init ==
    /\ calls = 0 /\ sent = 0 /\ seen = 0
    /\ answer = "none" /\ outcome = "waiting"

\* The function is invoked; a lazily started stream is handed over before.
Invoke ==
    /\ calls = 0
    /\ calls' = 1
    /\ UNCHANGED <<answer, sent, seen, outcome>>

\* The library answers, or raises, or the awaiting task is cancelled.
Respond ==
    /\ calls = 1 /\ answer = "none"
    /\ answer' \in Answers
    /\ UNCHANGED <<calls, sent, seen, outcome>>

\* The caller receives exactly that.
Receive ==
    /\ outcome = "waiting" /\ answer \in Answers
    /\ outcome' = answer
    /\ UNCHANGED <<calls, answer, sent, seen>>

\* The answer and its receipt in one step.
RespondAndReceive ==
    /\ calls = 1 /\ answer = "none" /\ outcome = "waiting"
    /\ answer' \in Answers
    /\ outcome' = answer'
    /\ UNCHANGED <<calls, sent, seen>>

\* The caller holds a stream.
HandOver ==
    /\ outcome = "waiting" /\ answer = "none"
    /\ outcome' = "stream"
    /\ UNCHANGED <<calls, answer, sent, seen>>

\* The stream yields an item and the caller receives that item.
Item ==
    /\ outcome = "stream" /\ calls = 1
    /\ sent' = sent + 1 /\ seen' = seen + 1
    /\ UNCHANGED <<calls, answer, outcome>>

\* The stream raises, and the caller is told; it has received every item that
\* the stream yielded.
Break ==
    /\ outcome = "stream" /\ calls = 1 /\ answer = "none" /\ sent = seen
    /\ answer' = "error"
    /\ UNCHANGED <<calls, sent, seen, outcome>>

Told ==
    /\ outcome = "stream" /\ answer = "error"
    /\ outcome' = "raised"
    /\ UNCHANGED <<calls, answer, sent, seen>>

\* The caller goes on with a stream that raised.
GoOn ==
    /\ outcome = "raised"
    /\ outcome' = "stream" /\ answer' = "none"
    /\ UNCHANGED <<calls, sent, seen>>

\* The stream stops, or the caller leaves it, with every item it yielded.
Finish ==
    /\ outcome = "stream" /\ sent = seen /\ answer = "none"
    /\ outcome' \in {"stopped", "left"}
    /\ UNCHANGED <<calls, answer, sent, seen>>

Next ==
    \/ Invoke \/ Respond \/ Receive \/ RespondAndReceive
    \/ HandOver \/ Item \/ Break \/ Told \/ GoOn \/ Finish

Spec == Init /\ [][Next]_vars
=============================================================================
