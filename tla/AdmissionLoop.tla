--------------------------- MODULE AdmissionLoop ---------------------------
(***************************************************************************)
(* plan_admission as the code writes it: a walk over the queue, oldest     *)
(* first, that carries the remaining capacity along, stops at the first    *)
(* entry that does not fit and ends at the ticket it was asked about.      *)
(*                                                                         *)
(* The walk is a recursive function of the entries it has not visited, and *)
(* for each of them a function of the capacity that remains.               *)
(***************************************************************************)
EXTENDS Admission

QueuedTickets(snapshot) == {u \in Ticket : snapshot[u].state = "queued"}

(* The next entry in queue order.                                          *)
Oldest(snapshot, rest) ==
    CHOOSE u \in rest : \A v \in rest : snapshot[u].seq <= snapshot[v].seq

(* Mutant: an entry has to fit whole, although its minimum would do.       *)
BlockedByRequest(capacity, snapshot, u, remaining) ==
    remaining < Effective(snapshot[u].requested, capacity)

Blocked(capacity, snapshot, u, remaining) ==
    remaining < Effective(snapshot[u].minimum, capacity)

(* One turn of the loop, walk being the turns that follow: the break at an *)
(* entry that does not fit, the grant at the ticket's own entry, or the    *)
(* grant of another entry subtracted from what remains.                    *)
Turn(capacity, snapshot, ticket, walk, rest) ==
    LET u == Oldest(snapshot, rest)
        Grant(remaining) == Min(Effective(snapshot[u].requested, capacity), remaining)
    IN [remaining \in 0..capacity |->
          IF rest = {} \/ Blocked(capacity, snapshot, u, remaining) THEN 0
          ELSE IF u = ticket THEN Grant(remaining)
          ELSE walk[rest \ {u}][remaining - Grant(remaining)]]

PlanLoop(capacity, snapshot, ticket) ==
    LET walk[rest \in SUBSET Ticket] == Turn(capacity, snapshot, ticket, walk, rest)
    IN walk[QueuedTickets(snapshot)][RemainingCapacity(capacity, snapshot)]
=============================================================================
