------------------------------ MODULE Response ------------------------------
(***************************************************************************)
(* What the application may rely on when it answers a request through       *)
(* ServiceIo: whatever it hands over, to the output or the error stream of  *)
(* the request, reaches the web server once and in order, and all of it     *)
(* does before the web server is told that the request is complete.  It     *)
(* names the units of a stream by their number, 1, 2, 3, ...                *)
(***************************************************************************)
EXTENDS Integers

CONSTANT Streams

VARIABLES
    handed,   \* how many units of each stream the application has handed over
    shown,    \* how many of them the web server has got
    answer    \* the answer as a whole: "none", "open", "complete" or "lost"

vars == <<handed, shown, answer>>

Nothing == [s \in Streams |-> 0]

Init == handed = Nothing /\ shown = Nothing /\ answer = "none"

Open == handed' = Nothing /\ shown' = Nothing /\ answer' = "open"

Hand(s) ==
    /\ answer \in {"open", "lost"}
    /\ handed'[s] > handed[s] /\ handed' = [handed EXCEPT ![s] = handed'[s]]
    /\ UNCHANGED <<shown, answer>>

\* More arrives; the last of it may come together with the end.
Deliver ==
    /\ answer = "open"
    /\ \A s \in Streams : shown[s] <= shown'[s] /\ shown'[s] <= handed[s]
    /\ answer' = "open" \/ (answer' = "complete" /\ shown' = handed)
    /\ UNCHANGED handed

\* The connection is lost, and nothing more arrives.
Lose == answer = "open" /\ answer' = "lost" /\ UNCHANGED <<handed, shown>>

Next == Open \/ (\E s \in Streams : Hand(s)) \/ Deliver \/ Lose

Spec == Init /\ [][Next]_vars
=============================================================================
