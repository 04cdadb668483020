---------------------------- MODULE CapacityPool ----------------------------
(***************************************************************************)
(* What the host-wide dispatcher promises, without queue, leases or file:  *)
(* a budget of CPUs from which grants are issued and to which they return  *)
(* (ADR-096).  A holder's work is attended while its supervisor lives and  *)
(* orphaned when only the command or a descendant is left.  Work starts    *)
(* only on a grant, and a grant is never taken from attended work.         *)
(***************************************************************************)
EXTENDS Integers, FiniteSets

CONSTANTS Holder, Budget

VARIABLES grant, work

poolVars == <<grant, work>>

Issued(g) == {c \in Holder \X (1..Budget) : c[2] <= g[c[1]]}

Init ==
    /\ grant = [h \in Holder |-> 0]
    /\ work = [h \in Holder |-> "none"]

(* Grants of W come back, in the same step as at most one new grant.       *)
Withdrawn(W) == [h \in Holder |-> IF h \in W THEN 0 ELSE grant[h]]

Withdraw(W) ==
    /\ \A h \in W : work[h] # "attended"
    /\ grant' = Withdrawn(W)
    /\ UNCHANGED work

Issue(W, h, n) ==
    /\ \A w \in W : work[w] # "attended"
    /\ h \notin W /\ grant[h] = 0 /\ work[h] = "none"
    /\ grant' = [Withdrawn(W) EXCEPT ![h] = n]
    /\ Cardinality(Issued(grant')) <= Budget
    /\ UNCHANGED work

StartWork(h) ==
    /\ grant[h] > 0 /\ work[h] = "none"
    /\ work' = [work EXCEPT ![h] = "attended"]
    /\ UNCHANGED grant

EndWork(h) ==
    /\ work[h] # "none"
    /\ work' = [work EXCEPT ![h] = "none"]
    /\ UNCHANGED grant

LoseSupervisor(h) ==
    /\ work[h] = "attended"
    /\ work' = [work EXCEPT ![h] = "orphaned"]
    /\ UNCHANGED grant

Next ==
    \/ \E W \in SUBSET Holder :
         Withdraw(W) \/ \E h \in Holder, n \in 1..Budget : Issue(W, h, n)
    \/ \E h \in Holder : StartWork(h) \/ EndWork(h) \/ LoseSupervisor(h)

Spec == Init /\ [][Next]_poolVars
=============================================================================
