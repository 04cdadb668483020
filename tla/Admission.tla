----------------------------- MODULE Admission -----------------------------
(***************************************************************************)
(* The CPU admission policy of the host-wide verification dispatcher       *)
(* (tools/gc_dispatch/admission.py): a pure function of a capacity, a      *)
(* snapshot of the shared ledger and the ticket that asks to run.          *)
(*                                                                         *)
(* CPUs are counted as sets of units <<ticket, k>>, k one of the CPUs the  *)
(* ticket holds or is about to be handed, so that a sum of grants is the   *)
(* cardinality of a set.  The code walks the queue and carries the         *)
(* remaining capacity along; here the capacity left when the walk reaches  *)
(* a ticket is written in closed form.  AdmissionLoop holds the walk as    *)
(* the code writes it, and DispatchLedgerProofs that the two agree.        *)
(***************************************************************************)
EXTENDS Integers, FiniteSets

CONSTANTS Ticket,     \* every dispatch ever made; its ticket names it
          MaxDemand   \* the largest --cpu value (records.MAX_DEMAND)

ASSUME TicketAssumption == IsFiniteSet(Ticket)
ASSUME MaxDemandAssumption == MaxDemand \in Nat \ {0}

Min(a, b) == IF a < b THEN a ELSE b
Max(a, b) == IF a > b THEN a ELSE b

Demand == 1..MaxDemand
Unit == Ticket \X Demand

(* A ledger record.  granted = 0 stands for the code's None, supervised    *)
(* tells whether the record still names its supervisor, and age is the     *)
(* time since the latest of enqueued_at, started_at and orphaned_at,       *)
(* saturating at the stale bound.  state "absent" is a ticket with no      *)
(* record.                                                                 *)
Entry(MaxAge) ==
    [state: {"absent", "queued", "running"}, seq: Nat, requested: Demand,
     minimum: Demand, granted: 0..MaxDemand, supervised: BOOLEAN, age: 0..MaxAge]

Absent == [state |-> "absent", seq |-> 0, requested |-> 1, minimum |-> 1,
           granted |-> 0, supervised |-> FALSE, age |-> 0]

(* Mutant: a demand above the host's capacity is not clamped.              *)
EffectiveUnclamped(value, capacity) == Max(1, value)

Effective(value, capacity) == Max(1, Min(value, capacity))

(* The units the running entries hold: sum(granted) is its cardinality.    *)
GrantedUnits(entries) ==
    {c \in Unit : entries[c[1]].state = "running" /\ c[2] <= entries[c[1]].granted}

RemainingCapacity(capacity, entries) ==
    Max(0, capacity - Cardinality(GrantedUnits(entries)))

(* The queued tickets the walk visits before t.  Sequence numbers are      *)
(* unique, so the tie-break on the ticket never decides.                   *)
Ahead(entries, t) ==
    {u \in Ticket : entries[u].state = "queued" /\ entries[u].seq < entries[t].seq}

(* Mutant: the walk does not subtract what it hands out.                   *)
ReservedNothing(capacity, entries, t) == {}

(* What the walk has handed to the tickets ahead of t if all of them fit.  *)
ReservedUnits(capacity, entries, t) ==
    LET ahead == Ahead(entries, t)
    IN {c \in Unit : /\ c[1] \in ahead
                     /\ c[2] <= Effective(entries[c[1]].requested, capacity)}

LeftFor(capacity, entries, t) ==
    Max(0, RemainingCapacity(capacity, entries)
             - Cardinality(ReservedUnits(capacity, entries, t)))

Fits(capacity, entries, t) ==
    LeftFor(capacity, entries, t) >= Effective(entries[t].minimum, capacity)

Admissible(capacity, entries, t) ==
    /\ entries[t].state = "queued"
    /\ \A u \in Ahead(entries, t) \cup {t} : Fits(capacity, entries, u)

(* Mutant: first fit, whoever is ahead.                                    *)
PlanFirstFit(capacity, entries, t) ==
    IF entries[t].state = "queued"
       /\ RemainingCapacity(capacity, entries) >= Effective(entries[t].minimum, capacity)
    THEN Min(Effective(entries[t].requested, capacity), RemainingCapacity(capacity, entries))
    ELSE 0

(* The grant for t, 0 while it must keep waiting.                          *)
PlanAdmission(capacity, entries, t) ==
    IF Admissible(capacity, entries, t)
    THEN Min(Effective(entries[t].requested, capacity), LeftFor(capacity, entries, t))
    ELSE 0
=============================================================================
