--------------------------- MODULE LogicalAttempts ---------------------------
(***************************************************************************)
(* What callers of the background-job registry rely on: an idempotency key *)
(* names one logical attempt at one input.  It runs at most once at a      *)
(* time, its input cannot be swapped while it is remembered, and an answer *)
(* stands until it is forgotten or, when it answers nothing, run again.    *)
(***************************************************************************)
CONSTANTS Key, Input, Run, None

VARIABLE attempt  \* per key: None, or its input, the run that works on it
                  \* or answered it, and whether it is answered

Init == attempt = [k \in Key |-> None]

Started(i, n) == [input |-> i, run |-> n, answered |-> FALSE]

Answered(k) == attempt[k] # None /\ attempt[k].answered

Answer(k) ==
    /\ attempt[k] # None
    /\ ~attempt[k].answered
    /\ attempt' = [attempt EXCEPT ![k].answered = TRUE]

(* One call may forget several old answers ...                             *)
Forget(K) == attempt' = [k \in Key |-> IF k \in K THEN None ELSE attempt[k]]

(* ... and begin an attempt, or run one of those again.                    *)
ForgetAndRun(K, k, i, n) ==
    /\ attempt[k] = None \/ k \in K
    /\ attempt' = [h \in Key |-> IF h = k THEN Started(i, n)
                                 ELSE IF h \in K THEN None ELSE attempt[h]]

(* The server process dies; nothing is running any more.                   *)
Crash == attempt' = [k \in Key |-> None]

Next ==
    \/ \E k \in Key : Answer(k)
    \/ \E K \in SUBSET {k \in Key : Answered(k)} :
         \/ Forget(K)
         \/ \E k \in Key, i \in Input, n \in Run : ForgetAndRun(K, k, i, n)
    \/ Crash

Spec == Init /\ [][Next]_attempt
=============================================================================
