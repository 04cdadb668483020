-------------------------- MODULE MCDispatchLedger --------------------------
(* Small hosts for TLC, on which every process reads the same capacity.    *)
EXTENDS DispatchLedger, TLC

CONSTANTS t1, t2, t3

D(r, m) == [requested |-> r, minimum |-> m]
MCDemands == {D(1, 1), D(2, 1), D(3, 3)}
MCSameCapacity == [t \in Ticket |-> HostCapacity]
MCFewDemands == {D(2, 1), D(4, 4)}

MCSymmetry == Permutations(Ticket)
=============================================================================
