------------------------ MODULE DispatchLedgerProofs ------------------------
(***************************************************************************)
(* Proofs about the dispatcher's ledger, for every set of dispatches, every *)
(* assignment of capacities and every stale bound.                         *)
(***************************************************************************)
EXTENDS DispatchLedger, FiniteSetTheorems, TLAPS

(* A snapshot of the ledger: what a sweep leaves is one too.               *)
Snapshots == [Ticket -> Entry(StaleAfter)]

-----------------------------------------------------------------------------
(* Counting units.                                                         *)

(* There are finitely many units, so every set of them has a size.         *)
LEMMA UnitFinite == IsFiniteSet(Unit)
<1>1. IsFiniteSet(Demand)
  BY FS_Interval, MaxDemandAssumption DEF Demand
<1>2. QED
  BY <1>1, FS_Product, TicketAssumption DEF Unit

LEMMA UnitsCount ==
  ASSUME NEW U \in SUBSET Unit
  PROVE  IsFiniteSet(U) /\ Cardinality(U) \in Nat
BY UnitFinite, FS_Subset, FS_CardinalityType

(* Fewer units, smaller sum.                                               *)
LEMMA FewerUnits ==
  ASSUME NEW U \in SUBSET Unit, NEW V \in SUBSET U
  PROVE  Cardinality(V) <= Cardinality(U)
BY UnitsCount, FS_Subset

(* One ticket's n units.                                                   *)
LEMMA TicketUnits ==
  ASSUME NEW t \in Ticket, NEW n \in Demand
  PROVE  /\ {t} \X (1..n) \in SUBSET Unit
         /\ IsFiniteSet({t} \X (1..n)) /\ Cardinality({t} \X (1..n)) = n
<1>1. n \in Nat /\ n >= 1 /\ n <= MaxDemand
  BY MaxDemandAssumption DEF Demand
<1>2. IsFiniteSet({t}) /\ Cardinality({t}) = 1
  BY FS_Singleton
<1>3. IsFiniteSet(1..n) /\ Cardinality(1..n) = n
  BY <1>1, FS_Interval
<1>4. IsFiniteSet({t} \X (1..n)) /\ Cardinality({t} \X (1..n)) = 1 * n
  BY <1>2, <1>3, FS_Product, ZenonT(60)
<1>5. {t} \X (1..n) \in SUBSET Unit
  BY <1>1, MaxDemandAssumption DEF Unit, Demand
<1> QED BY <1>1, <1>4, <1>5

(* One ticket's n units added to a set make it at most n larger.           *)
LEMMA AddUnits ==
  ASSUME NEW U \in SUBSET Unit, NEW t \in Ticket, NEW n \in Demand
  PROVE  Cardinality(U \cup ({t} \X (1..n))) <= Cardinality(U) + n
<1> DEFINE V == {t} \X (1..n)
<1>1. n \in Nat
  BY MaxDemandAssumption DEF Demand
<1>4. IsFiniteSet(V) /\ Cardinality(V) = n
  BY TicketUnits
<1>5. IsFiniteSet(U) /\ Cardinality(U) \in Nat
  BY UnitsCount
<1>6. IsFiniteSet(U \cap V) /\ Cardinality(U \cap V) \in Nat
  BY <1>5, FS_Intersection, FS_CardinalityType
<1>7. Cardinality(U \cup V) = Cardinality(U) + Cardinality(V) - Cardinality(U \cap V)
  BY <1>4, <1>5, FS_Union
<1>8. QED
  BY <1>1, <1>4, <1>5, <1>6, <1>7

-----------------------------------------------------------------------------
(* The admission policy.                                                   *)

(* A grant is a number of CPUs between one and the largest demand, and     *)
(* together with the grants already running it fits in the capacity it was *)
(* planned with (plan_admission).                                          *)
LEMMA GrantFits ==
  ASSUME NEW c \in Nat \ {0}, NEW e \in Snapshots, NEW t \in Ticket
  PROVE  /\ PlanAdmission(c, e, t) \in 0..MaxDemand
         /\ PlanAdmission(c, e, t) > 0
              => /\ e[t].state = "queued"
                 /\ Cardinality(GrantedUnits(e)) + PlanAdmission(c, e, t) <= c
<1> DEFINE used == Cardinality(GrantedUnits(e))
           reserved == Cardinality(ReservedUnits(c, e, t))
           left == LeftFor(c, e, t)
<1>1. used \in Nat
  <2>1. GrantedUnits(e) \in SUBSET Unit
    BY DEF GrantedUnits
  <2>2. QED
    BY <2>1, UnitsCount
<1>2. reserved \in Nat
  <2>1. ReservedUnits(c, e, t) \in SUBSET Unit
    BY DEF ReservedUnits
  <2>2. QED
    BY <2>1, UnitsCount
<1>3. left \in Nat /\ (left > 0 => used + left <= c)
  <2> HIDE DEF used, reserved
  <2>1. left = Max(0, Max(0, c - used) - reserved)
    BY DEF left, LeftFor, RemainingCapacity, used, reserved
  <2>2. QED
    BY <1>1, <1>2, <2>1 DEF Max
<1>4. Effective(e[t].requested, c) \in 1..MaxDemand
  BY MaxDemandAssumption DEF Snapshots, Entry, Demand, Effective, Min, Max
<1>5. Effective(e[t].minimum, c) >= 1
  BY MaxDemandAssumption DEF Snapshots, Entry, Demand, Effective, Min, Max
<1>6. CASE Admissible(c, e, t)
  <2>1. e[t].state = "queued" /\ left >= Effective(e[t].minimum, c)
    BY <1>6 DEF Admissible, Fits
  <2>2. PlanAdmission(c, e, t) = Min(Effective(e[t].requested, c), left)
    BY <1>6 DEF PlanAdmission
  <2> HIDE DEF used, left
  <2>3. Effective(e[t].minimum, c) \in Nat
    BY MaxDemandAssumption DEF Snapshots, Entry, Demand, Effective, Min, Max
  <2>4. PlanAdmission(c, e, t) \in 1..MaxDemand /\ PlanAdmission(c, e, t) <= left
    BY <1>3, <1>4, <1>5, <2>1, <2>2, <2>3, MaxDemandAssumption DEF Min
  <2>5. QED
    BY <1>1, <1>3, <2>1, <2>4, MaxDemandAssumption DEF used
<1>7. CASE ~Admissible(c, e, t)
  BY <1>7, MaxDemandAssumption DEF PlanAdmission
<1>8. QED
  BY <1>6, <1>7

-----------------------------------------------------------------------------
(* Sweeping.                                                               *)

(* A sweep leaves a snapshot, and never adds units.                        *)
LEMMA SweepTyped ==
  ASSUME TypeOK, NEW D \in SUBSET Ticket
  PROVE  /\ Swept(D) \in Snapshots
         /\ \A t \in Ticket : ValidRecord(Swept(D)[t])
         /\ GrantedUnits(Swept(D)) \in SUBSET GrantedUnits(entries)
<1>1. Absent \in Entry(StaleAfter) /\ ValidRecord(Absent)
  BY MaxDemandAssumption, StaleAssumption DEF Absent, Entry, Demand, ValidRecord
<1>2. Swept(D) \in Snapshots /\ \A t \in Ticket : ValidRecord(Swept(D)[t])
  BY <1>1 DEF TypeOK, Swept, Snapshots
<1>3. ASSUME NEW u \in GrantedUnits(Swept(D))
      PROVE  u \in GrantedUnits(entries)
  <2>1. u \in Unit /\ u[1] \in Ticket
    BY <1>3 DEF GrantedUnits, Unit
  <2>2. Swept(D)[u[1]].state = "running" /\ u[2] <= Swept(D)[u[1]].granted
    BY <1>3 DEF GrantedUnits
  <2>3. u[1] \notin D
    BY <2>1, <2>2 DEF Swept, Absent
  <2>4. QED
    BY <2>1, <2>2, <2>3 DEF Swept, GrantedUnits
<1>4. QED
  BY <1>2, <1>3

(* A record that names its living supervisor and whose lease is held is    *)
(* never taken by a sweep, whatever its age (_is_reclaimable).             *)
LEMMA BackedIsKept ==
  ASSUME RecordBacked, NEW t \in Ticket, phase[t] = "queued" \/ Attended(t), NEW P
  PROVE  t \notin Reclaimed(P)
<1>1. phase[t] \in Alive
  BY DEF Attended, Alive, Phase
<1>2. QED
  BY <1>1 DEF RecordBacked, Reclaimed, IsReclaimable, LeaseIsUnheld, SupervisorAlive

-----------------------------------------------------------------------------
(* The inductive invariant.                                                *)

(* The ledger file that does not exist yet satisfies every part of it.     *)
LEMMA InitInvariant == Init => DispatchInvariant
<1> SUFFICES ASSUME Init PROVE DispatchInvariant
  OBVIOUS
<1>1. Absent \in Entry(StaleAfter) /\ ValidRecord(Absent)
  BY MaxDemandAssumption, StaleAssumption DEF Absent, Entry, Demand, ValidRecord
<1>2. TypeOK
  BY <1>1, MaxDemandAssumption DEF Init, TypeOK, Phase
<1>3. GrantedUnits(entries) = {}
  BY DEF Init, GrantedUnits, Absent, Unit
<1>4. GrantsWithinCapacity
  BY <1>3, FS_EmptySet, CapacityAssumption DEF GrantsWithinCapacity
<1>5. QED
  BY <1>2, <1>4 DEF Init, DispatchInvariant, SupervisorHolds, NothingWorksEarly, NotYetRegistered,
     RecordBacked, PollerKeepsRecord, GrantKept, Attended, Alive, Working, Absent

(* The records the steps write are well-formed.                            *)
LEMMA GrantedRecord ==
  ASSUME NEW e \in Entry(StaleAfter), NEW n \in Demand, ValidRecord(e)
  PROVE  /\ Granted(e, n) \in Entry(StaleAfter)
         /\ Granted(e, n).state = "running"
         /\ Granted(e, n).granted = n
         /\ Granted(e, n).supervised = e.supervised
         /\ ValidRecord(Granted(e, n))
BY MaxDemandAssumption, StaleAssumption DEF Entry, Granted, Demand, ValidRecord

LEMMA OrphanedRecord ==
  ASSUME NEW e \in Entry(StaleAfter), ValidRecord(e)
  PROVE  /\ Orphaned(e) \in Entry(StaleAfter)
         /\ Orphaned(e).state = e.state
         /\ Orphaned(e).granted = e.granted
         /\ ValidRecord(Orphaned(e))
BY StaleAssumption DEF Entry, Orphaned, ValidRecord

LEMMA AgedRecord ==
  ASSUME NEW e \in Entry(StaleAfter), ValidRecord(e)
  PROVE  /\ Aged(e) \in Entry(StaleAfter)
         /\ Aged(e).state = e.state
         /\ Aged(e).granted = e.granted
         /\ Aged(e).supervised = e.supervised
         /\ ValidRecord(Aged(e))
BY StaleAssumption DEF Entry, Aged, Min, ValidRecord

(* A poll that grants records a grant of the right size, and keeps the     *)
(* sum of grants within the capacity the poller read (try_admit).          *)
LEMMA TryAdmitGrant ==
  ASSUME DispatchInvariant, NEW t \in Ticket, phase[t] = "queued",
         NEW swept, swept = Swept(Reclaimed({t})),
         NEW grant, grant = PlanAdmission(Capacity[t], swept, t)
  PROVE  /\ swept \in Snapshots /\ \A u \in Ticket : ValidRecord(swept[u])
         /\ grant \in 0..MaxDemand
         /\ LET granted == [swept EXCEPT ![t] = Granted(@, grant)]
            IN grant > 0 => /\ granted \in Snapshots
                            /\ \A u \in Ticket : ValidRecord(granted[u])
                            /\ Cardinality(GrantedUnits(granted)) <= HostCapacity
<1> DEFINE granted == [swept EXCEPT ![t] = Granted(@, grant)]
<1>1. /\ swept \in Snapshots /\ \A u \in Ticket : ValidRecord(swept[u])
      /\ GrantedUnits(swept) \in SUBSET Unit
  BY SweepTyped DEF DispatchInvariant, Reclaimed, GrantedUnits
<1>2. Capacity[t] \in Nat \ {0} /\ Capacity[t] <= HostCapacity
  BY CapacityAssumption
<1>3. /\ grant \in 0..MaxDemand
      /\ grant > 0 => /\ swept[t].state = "queued"
                      /\ Cardinality(GrantedUnits(swept)) + grant <= Capacity[t]
  BY <1>1, <1>2, GrantFits
<1>4. ASSUME grant > 0
      PROVE  /\ granted \in Snapshots
             /\ \A u \in Ticket : ValidRecord(granted[u])
             /\ Cardinality(GrantedUnits(granted)) <= HostCapacity
  <2>1. grant \in Demand
    BY <1>3, <1>4, MaxDemandAssumption DEF Demand
  <2>2. swept[t] \in Entry(StaleAfter) /\ ValidRecord(swept[t])
    BY <1>1 DEF Snapshots
  <2>3. /\ Granted(swept[t], grant) \in Entry(StaleAfter)
        /\ Granted(swept[t], grant).state = "running"
        /\ Granted(swept[t], grant).granted = grant
        /\ ValidRecord(Granted(swept[t], grant))
    BY <2>2, <2>1, GrantedRecord
  <2>4. /\ granted[t] = Granted(swept[t], grant)
        /\ \A u \in Ticket \ {t} : granted[u] = swept[u]
    BY <1>1 DEF Snapshots
  <2>5. granted \in Snapshots
    BY <1>1, <2>3 DEF Snapshots
  <2>6. \A u \in Ticket : ValidRecord(granted[u])
    BY <1>1, <2>3, <2>4
  <2> HIDE DEF granted
  <2>7. ASSUME NEW c \in GrantedUnits(granted)
        PROVE  c \in GrantedUnits(swept) \cup ({t} \X (1..grant))
    <3>1. c \in Unit /\ granted[c[1]].state = "running" /\ c[2] <= granted[c[1]].granted
      BY <2>7 DEF GrantedUnits
    <3>2. CASE c[1] = t
      BY <2>3, <2>4, <3>1, <3>2, <2>1, MaxDemandAssumption DEF Unit, Demand
    <3>3. CASE c[1] # t
      BY <2>4, <3>1, <3>3 DEF GrantedUnits, Unit
    <3>4. QED
      BY <3>2, <3>3
  <2>8. GrantedUnits(swept) \cup ({t} \X (1..grant)) \in SUBSET Unit
    BY <1>1, <2>1, MaxDemandAssumption DEF Unit, Demand
  <2>9. Cardinality(GrantedUnits(granted))
          <= Cardinality(GrantedUnits(swept) \cup ({t} \X (1..grant)))
    BY <2>7, <2>8, FewerUnits
  <2>10. Cardinality(GrantedUnits(swept) \cup ({t} \X (1..grant)))
          <= Cardinality(GrantedUnits(swept)) + grant
    BY <1>1, <2>1, AddUnits
  <2>11. /\ Cardinality(GrantedUnits(swept)) \in Nat
        /\ Cardinality(GrantedUnits(swept) \cup ({t} \X (1..grant))) \in Nat
        /\ Cardinality(GrantedUnits(granted)) \in Nat
    BY <1>1, <2>7, <2>8, UnitsCount
  <2>12. Cardinality(GrantedUnits(granted)) <= HostCapacity
    BY <1>2, <1>3, <1>4, <2>9, <2>10, <2>11, CapacityAssumption
  <2>13. QED
    BY <2>5, <2>6, <2>12
<1>5. QED
  BY <1>1, <1>3, <1>4

(* Every other step leaves the running grants alone or takes some away.    *)
LEMMA FewerGrants ==
  ASSUME GrantsWithinCapacity, GrantedUnits(entries)' \in SUBSET GrantedUnits(entries)
  PROVE  GrantsWithinCapacity'
<1>1. GrantedUnits(entries) \in SUBSET Unit
  BY DEF GrantedUnits
<1>2. Cardinality(GrantedUnits(entries)') <= Cardinality(GrantedUnits(entries))
  BY <1>1, FewerUnits
<1>3. /\ Cardinality(GrantedUnits(entries)) \in Nat
      /\ Cardinality(GrantedUnits(entries)') \in Nat
  BY <1>1, UnitsCount
<1>4. QED
  BY <1>2, <1>3, CapacityAssumption DEF GrantsWithinCapacity

(* The parts of the invariant that relate a dispatch's process, lease and  *)
(* record.                                                                 *)
Bookkeeping ==
    /\ SupervisorHolds
    /\ NothingWorksEarly
    /\ NotYetRegistered
    /\ RecordBacked
    /\ PollerKeepsRecord
    /\ GrantKept

(* A step that moves only the process t, its holders or its lease file     *)
(* keeps the ledger's type and sum.                                        *)
LEMMA LedgerUntouched ==
  ASSUME DispatchInvariant, UNCHANGED <<entries, next_seq>>,
         phase' \in [Ticket -> Phase], holders' \in [Ticket -> SUBSET Holder],
         leaseFiles' \subseteq Ticket, workers' \in [Ticket -> 0..MaxDemand]
  PROVE  TypeOK' /\ GrantsWithinCapacity'
BY DEF DispatchInvariant, TypeOK, GrantsWithinCapacity, GrantedUnits

(* The steps of a process that leave the ledger's records alone.           *)
LEMMA ProcessSteps ==
  ASSUME DispatchInvariant, NEW t \in Ticket,
         \/ OpenLease(t) \/ EnqueueFails(t) \/ TryAdmitFails(t) \/ GiveUp(t) \/ Spawn(t)
         \/ ForwardSignals(t) \/ WaitReturns(t) \/ CloseLease(t) \/ SettleFails(t)
         \/ Kill(t) \/ CommandForks(t) \/ CommandExits(t) \/ DescendantExits(t)
  PROVE  DispatchInvariant'
<1> USE DEF DispatchInvariant
<1>1. TypeOK' /\ GrantsWithinCapacity'
  <2>1. /\ UNCHANGED <<entries, next_seq, workers>>
        /\ phase' \in [Ticket -> Phase]
        /\ holders' \in [Ticket -> SUBSET Holder]
        /\ leaseFiles' \subseteq Ticket
    BY DEF OpenLease, EnqueueFails, TryAdmitFails, GiveUp, Spawn, ForwardSignals,
       WaitReturns, CloseLease, SettleFails, Kill, CommandForks, CommandExits,
       DescendantExits, LedgerFails, Goto, ledger, TypeOK, Phase, Holder, Alive
  <2>2. QED
    BY <2>1, LedgerUntouched DEF TypeOK
<1>2. Bookkeeping'
  <2> USE DEF Bookkeeping, TypeOK, SupervisorHolds, NothingWorksEarly, NotYetRegistered,
     RecordBacked, PollerKeepsRecord, GrantKept, Attended, Working, Queued, Running, Goto, ledger,
          Phase, Alive, Holder
  <2>1. CASE OpenLease(t)
    BY <2>1 DEF OpenLease
  <2>2. CASE EnqueueFails(t)
    <3>1. \A u \in Ticket : phase[u] = "queued" \/ Attended(u) => u \notin Reclaimed({})
      BY BackedIsKept
    <3>2. \A u \in Ticket : phase[u] = "leased" => u \notin Reclaimed({})
      BY DEF Reclaimed, IsReclaimable
    <3>3. QED
      BY <2>2, <3>1, <3>2 DEF EnqueueFails
  <2>3. CASE TryAdmitFails(t)
    <3>1. \A u \in Ticket : phase[u] = "queued" \/ Attended(u) => u \notin Reclaimed({t})
      BY BackedIsKept
    <3>2. \A u \in Ticket : phase[u] = "leased" => u \notin Reclaimed({t})
      BY DEF Reclaimed, IsReclaimable
    <3>3. leaseFiles' \in {leaseFiles, leaseFiles \ Reclaimed({t})}
      BY <2>3 DEF TryAdmitFails, LedgerFails
    <3>4. /\ phase[t] = "queued" /\ UNCHANGED <<entries, next_seq, holders, workers>>
          /\ phase' = [phase EXCEPT ![t] = "closing"]
      BY <2>3 DEF TryAdmitFails, LedgerFails
    <3>5. SupervisorHolds' /\ NothingWorksEarly' /\ PollerKeepsRecord' /\ GrantKept'
      BY <3>4
    <3>6. NotYetRegistered'
      BY <3>2, <3>3, <3>4
    <3>7. RecordBacked'
      <4> SUFFICES ASSUME NEW u \in Ticket, phase'[u] = "queued" \/ Attended(u)'
                   PROVE  u \in leaseFiles' /\ holders'[u] # {} /\ entries'[u].supervised
        OBVIOUS
      <4>1. phase[u] = "queued" \/ Attended(u)
        BY <3>4
      <4>2. u \in leaseFiles /\ holders[u] # {} /\ entries[u].supervised
        BY <4>1
      <4>3. u \in leaseFiles'
        BY <4>1, <4>2, <3>1, <3>3
      <4> QED BY <4>2, <4>3, <3>4
    <3>8. QED
      BY <3>5, <3>6, <3>7
  <2>4. CASE GiveUp(t)
    BY <2>4 DEF GiveUp
  <2>5. CASE Spawn(t)
    BY <2>5 DEF Spawn
  <2>6. CASE ForwardSignals(t)
    BY <2>6 DEF ForwardSignals
  <2>7. CASE WaitReturns(t)
    BY <2>7 DEF WaitReturns
  <2>8. CASE CloseLease(t)
    BY <2>8 DEF CloseLease
  <2>9. CASE SettleFails(t)
    BY <2>9 DEF SettleFails, LeaseIsUnheld
  <2>10. CASE Kill(t)
    BY <2>10 DEF Kill
  <2>11. CASE CommandForks(t)
    BY <2>11 DEF CommandForks
  <2>12. CASE CommandExits(t)
    BY <2>12 DEF CommandExits
  <2>13. CASE DescendantExits(t)
    BY <2>13 DEF DescendantExits
  <2>14. QED
    BY <2>1, <2>2, <2>3, <2>4, <2>5, <2>6, <2>7, <2>8, <2>9, <2>10, <2>11, <2>12, <2>13
<1>3. QED
  BY <1>1, <1>2 DEF Bookkeeping

(* A step that sweeps and leaves every record the sweep keeps as it was.   *)
LEMMA SnapshotStep ==
  ASSUME DispatchInvariant, Snapshot
  PROVE  DispatchInvariant'
<1> USE DEF DispatchInvariant
<1> DEFINE D == Reclaimed({})
<1>1. D \in SUBSET Ticket
  BY DEF Reclaimed
<1>2. /\ Swept(D) \in Snapshots /\ \A u \in Ticket : ValidRecord(Swept(D)[u])
      /\ GrantedUnits(Swept(D)) \in SUBSET GrantedUnits(entries)
  BY <1>1, SweepTyped
<1>3. TypeOK'
  BY <1>1, <1>2 DEF Snapshot, TypeOK, Snapshots
<1>4. GrantsWithinCapacity'
  <2>1. GrantedUnits(entries)' = GrantedUnits(Swept(D))
    BY DEF Snapshot, GrantedUnits
  <2>2. QED
    BY <1>2, <2>1, FewerGrants
<1>5. \A u \in Ticket : phase[u] = "queued" \/ Attended(u) => u \notin D
  BY BackedIsKept
<1>6. \A u \in Ticket : phase[u] = "leased" => u \notin D
  BY DEF NotYetRegistered, Reclaimed, IsReclaimable
<1>7. \A u \in Ticket : entries'[u] = IF u \in D THEN Absent ELSE entries[u]
  BY DEF Snapshot, Swept
<1>8. leaseFiles' = leaseFiles \ D /\ UNCHANGED <<holders, phase, workers>>
  BY DEF Snapshot
<1> HIDE DEF D
<1>9. SupervisorHolds' /\ NothingWorksEarly' /\ NotYetRegistered'
  BY <1>6, <1>7, <1>8 DEF SupervisorHolds, NothingWorksEarly, NotYetRegistered, Working, Absent
<1>10. RecordBacked' /\ PollerKeepsRecord' /\ GrantKept'
  BY <1>5, <1>7, <1>8 DEF RecordBacked, PollerKeepsRecord, GrantKept, Attended, Working,
     Queued, Running
<1>11. QED
  BY <1>3, <1>4, <1>9, <1>10

LEMMA EnqueueStep ==
  ASSUME DispatchInvariant, NEW t \in Ticket, Enqueue(t)
  PROVE  DispatchInvariant'
<1> USE DEF DispatchInvariant
<1> DEFINE D == Reclaimed({})
<1>1. D \in SUBSET Ticket
  BY DEF Reclaimed
<1>2. /\ Swept(D) \in Snapshots /\ \A u \in Ticket : ValidRecord(Swept(D)[u])
      /\ GrantedUnits(Swept(D)) \in SUBSET GrantedUnits(entries)
  BY <1>1, SweepTyped
<1>3. PICK d \in Demands :
        entries' = [Swept(D) EXCEPT ![t] =
                      [state |-> "queued", seq |-> next_seq, requested |-> d.requested,
                       minimum |-> d.minimum, granted |-> 0, supervised |-> TRUE, age |-> 0]]
  BY DEF Enqueue
<1> DEFINE new == [state |-> "queued", seq |-> next_seq, requested |-> d.requested,
                   minimum |-> d.minimum, granted |-> 0, supervised |-> TRUE, age |-> 0]
<1>4. new \in Entry(StaleAfter) /\ ValidRecord(new)
  BY DemandsAssumption, MaxDemandAssumption, StaleAssumption
     DEF TypeOK, Entry, ValidRecord, Demand
<1>5. new.state = "queued" /\ new.supervised
  OBVIOUS
<1> HIDE DEF new, D
<1>6. /\ entries' \in Snapshots
      /\ entries'[t] = new
      /\ \A u \in Ticket \ {t} : entries'[u] = Swept(D)[u]
  BY <1>2, <1>3, <1>4 DEF Snapshots, new, D
<1>7. TypeOK'
  <2>1. \A u \in Ticket : ValidRecord(entries'[u])
    BY <1>2, <1>4, <1>6
  <2>2. next_seq' \in Nat \ {0} /\ leaseFiles' \subseteq Ticket
        /\ UNCHANGED <<holders, workers>>
    BY DEF Enqueue, TypeOK
  <2>3. phase' \in [Ticket -> Phase]
    BY DEF Enqueue, Goto, TypeOK, Phase
  <2>4. QED
    BY <1>6, <2>1, <2>2, <2>3 DEF TypeOK, Snapshots
<1>8. GrantsWithinCapacity'
  <2>1. GrantedUnits(entries)' = GrantedUnits(entries')
    BY DEF GrantedUnits
  <2>2. ASSUME NEW c \in GrantedUnits(entries')
        PROVE  c \in GrantedUnits(Swept(D))
    <3>1. c \in Unit /\ c[1] \in Ticket
      BY <2>2 DEF GrantedUnits, Unit
    <3>2. entries'[c[1]].state = "running" /\ c[2] <= entries'[c[1]].granted
      BY <2>2 DEF GrantedUnits
    <3>3. c[1] # t
      BY <1>5, <1>6, <3>2
    <3>4. QED
      BY <1>6, <3>1, <3>2, <3>3 DEF GrantedUnits
  <2>3. QED
    BY <1>2, <2>1, <2>2, FewerGrants
<1>9. \A u \in Ticket : phase[u] = "queued" \/ Attended(u) => u \notin D
  BY BackedIsKept DEF D
<1>10. /\ phase' = [phase EXCEPT ![t] = "queued"] /\ phase[t] = "leased"
       /\ UNCHANGED <<holders, workers>> /\ leaseFiles' = leaseFiles \ D
  BY DEF Enqueue, Goto, D
<1>11. \A u \in Ticket \ {t} : u \notin D => entries'[u] = entries[u]
  BY <1>6 DEF Swept
<1>12. "supervisor" \in holders[t] /\ ~Working(t)
  BY <1>10 DEF SupervisorHolds, NothingWorksEarly
<1>13. t \in leaseFiles /\ t \notin D
  BY <1>10 DEF NotYetRegistered, Reclaimed, IsReclaimable, D
<1>14. SupervisorHolds' /\ NothingWorksEarly' /\ NotYetRegistered'
  <2>1. \A u \in Ticket : phase[u] \in {"start", "leased"} => u \notin D
    BY DEF NotYetRegistered, Reclaimed, IsReclaimable, D
  <2>2. QED
    BY <1>10, <1>11, <1>12, <2>1
       DEF SupervisorHolds, NothingWorksEarly, NotYetRegistered, TypeOK, Working
<1>15. RecordBacked' /\ PollerKeepsRecord' /\ GrantKept'
  BY <1>5, <1>6, <1>9, <1>10, <1>11, <1>12, <1>13
     DEF RecordBacked, PollerKeepsRecord, GrantKept, Attended, Working, Queued, Running,
         TypeOK, Alive, Phase
<1>16. QED
  BY <1>7, <1>8, <1>14, <1>15

LEMMA TryAdmitStep ==
  ASSUME DispatchInvariant, NEW t \in Ticket, TryAdmit(t)
  PROVE  DispatchInvariant'
<1> USE DEF DispatchInvariant
<1> DEFINE D == Reclaimed({t})
           swept == Swept(D)
           grant == PlanAdmission(Capacity[t], swept, t)
<1>1. D \in SUBSET Ticket /\ t \notin D
  BY DEF Reclaimed
<1>2. /\ swept \in Snapshots /\ \A u \in Ticket : ValidRecord(swept[u])
      /\ GrantedUnits(swept) \in SUBSET GrantedUnits(entries)
  BY <1>1, SweepTyped
<1>3. /\ phase[t] = "queued" /\ leaseFiles' = leaseFiles \ D
      /\ UNCHANGED <<next_seq, holders>>
  BY DEF TryAdmit
<1>4. /\ grant \in 0..MaxDemand
      /\ grant > 0 => /\ [swept EXCEPT ![t] = Granted(@, grant)] \in Snapshots
                      /\ \A u \in Ticket :
                           ValidRecord([swept EXCEPT ![t] = Granted(@, grant)][u])
                      /\ Cardinality(GrantedUnits([swept EXCEPT ![t] = Granted(@, grant)]))
                           <= HostCapacity
  BY <1>3, TryAdmitGrant
<1>5. \A u \in Ticket : phase[u] = "queued" \/ Attended(u) => u \notin D
  BY BackedIsKept
<1>6. \A u \in Ticket : phase[u] = "leased" => u \notin D
  BY DEF NotYetRegistered, Reclaimed, IsReclaimable
<1>7. \A u \in Ticket : swept[u] = IF u \in D THEN Absent ELSE entries[u]
  BY DEF Swept
<1>8. /\ "supervisor" \in holders[t] /\ ~Working(t) /\ t \in leaseFiles
      /\ entries[t].state = "queued" /\ entries[t].supervised
  BY <1>3 DEF SupervisorHolds, NothingWorksEarly, RecordBacked, PollerKeepsRecord, Queued
<1>9. CASE grant = 0
  <2>1. entries' = swept /\ UNCHANGED <<phase, workers>>
    BY <1>9 DEF TryAdmit
  <2> HIDE DEF D, swept, grant
  <2>2. TypeOK'
    BY <1>1, <1>2, <1>3, <2>1 DEF TypeOK, Snapshots
  <2>3. GrantsWithinCapacity'
    <3>1. GrantedUnits(entries)' = GrantedUnits(swept)
      BY <2>1 DEF GrantedUnits
    <3>2. QED
      BY <1>2, <3>1, FewerGrants
  <2>4. SupervisorHolds' /\ NothingWorksEarly' /\ NotYetRegistered'
    BY <1>3, <1>6, <1>7, <2>1
       DEF SupervisorHolds, NothingWorksEarly, NotYetRegistered, Working, Absent
  <2>5. RecordBacked' /\ PollerKeepsRecord' /\ GrantKept'
    BY <1>3, <1>5, <1>7, <2>1 DEF RecordBacked, PollerKeepsRecord, GrantKept, Attended,
       Working, Queued, Running
  <2>6. QED
    BY <2>2, <2>3, <2>4, <2>5
<1>10. CASE grant > 0
  <2> DEFINE granted == [swept EXCEPT ![t] = Granted(@, grant)]
  <2>1. /\ entries' = granted
        /\ phase' = [phase EXCEPT ![t] = "admitted"]
        /\ workers' = [workers EXCEPT ![t] = grant]
    BY <1>10 DEF TryAdmit, Goto
  <2>2. granted \in Snapshots /\ \A u \in Ticket : ValidRecord(granted[u])
    BY <1>4, <1>10
  <2>3. grant \in Demand
    BY <1>4, <1>10, MaxDemandAssumption DEF Demand
  <2>4. /\ granted[t] = Granted(swept[t], grant)
        /\ \A u \in Ticket \ {t} : granted[u] = swept[u]
    BY <1>2 DEF Snapshots
  <2>5. /\ granted[t].state = "running" /\ granted[t].granted = grant
        /\ granted[t].supervised
    <3>1. swept[t] = entries[t] /\ swept[t] \in Entry(StaleAfter) /\ ValidRecord(swept[t])
      BY <1>1, <1>2, <1>7 DEF Snapshots
    <3>2. QED
      BY <1>8, <2>3, <2>4, <3>1, GrantedRecord
  <2>6. TypeOK'
    BY <1>1, <1>3, <1>4, <2>1, <2>2 DEF TypeOK, Snapshots, Phase
  <2>7. GrantsWithinCapacity'
    <3>1. GrantedUnits(entries)' = GrantedUnits(granted)
      BY <2>1 DEF GrantedUnits
    <3>2. QED
      BY <1>4, <1>10, <3>1 DEF GrantsWithinCapacity
  <2> HIDE DEF D, swept, grant, granted
  <2>8. SupervisorHolds' /\ NothingWorksEarly' /\ NotYetRegistered'
    BY <1>3, <1>6, <1>7, <1>8, <2>1, <2>4
       DEF SupervisorHolds, NothingWorksEarly, NotYetRegistered, Working, Absent, TypeOK
  <2>9. RecordBacked' /\ PollerKeepsRecord' /\ GrantKept'
    BY <1>1, <1>3, <1>5, <1>7, <1>8, <2>1, <2>4, <2>5
       DEF RecordBacked, PollerKeepsRecord, GrantKept, Attended, Working, Queued, Running,
           TypeOK
  <2>10. QED
    BY <2>6, <2>7, <2>8, <2>9
<1>11. QED
  <2>1. grant = 0 \/ grant > 0
    BY <1>4
  <2>2. QED
    BY <1>9, <1>10, <2>1

LEMMA SettleStep ==
  ASSUME DispatchInvariant, NEW t \in Ticket, Settle(t)
  PROVE  DispatchInvariant'
<1> USE DEF DispatchInvariant
<1>1. /\ phase[t] = "closed" /\ phase' = [phase EXCEPT ![t] = "exited"]
      /\ UNCHANGED <<next_seq, holders, workers>>
  BY DEF Settle, Goto
<1>2. entries[t] \in Entry(StaleAfter) /\ ValidRecord(entries[t])
  BY DEF TypeOK
<1>3. /\ entries' \in {entries, [entries EXCEPT ![t] = Absent],
                       [entries EXCEPT ![t] = Orphaned(@)]}
      /\ leaseFiles' \in {leaseFiles, leaseFiles \ {t}}
  BY DEF Settle
<1>4. /\ Absent \in Entry(StaleAfter) /\ ValidRecord(Absent)
      /\ Orphaned(entries[t]) \in Entry(StaleAfter) /\ ValidRecord(Orphaned(entries[t]))
      /\ Orphaned(entries[t]).state = entries[t].state
      /\ Orphaned(entries[t]).granted = entries[t].granted
  <2>1. Absent \in Entry(StaleAfter) /\ ValidRecord(Absent)
    BY MaxDemandAssumption, StaleAssumption DEF Absent, Entry, Demand, ValidRecord
  <2>2. QED
    BY <1>2, <2>1, OrphanedRecord
<1>5. /\ entries' \in [Ticket -> Entry(StaleAfter)]
      /\ \A u \in Ticket : ValidRecord(entries'[u])
      /\ \A u \in Ticket \ {t} : entries'[u] = entries[u]
      /\ entries'[t].state = "running" =>
           entries[t].state = "running" /\ entries'[t].granted = entries[t].granted
  <2>1. entries \in [Ticket -> Entry(StaleAfter)] /\ \A u \in Ticket : ValidRecord(entries[u])
    BY DEF TypeOK
  <2>2. CASE entries' = entries
    BY <2>1, <2>2
  <2>3. CASE entries' = [entries EXCEPT ![t] = Absent]
    <3>1. entries'[t] = Absent /\ Absent.state = "absent"
      BY <2>1, <2>3 DEF Absent
    <3>2. QED
      BY <1>4, <2>1, <2>3, <3>1
  <2>4. CASE entries' = [entries EXCEPT ![t] = Orphaned(@)]
    BY <1>4, <2>1, <2>4
  <2>5. QED
    BY <1>3, <2>2, <2>3, <2>4
<1>6. TypeOK'
  BY <1>1, <1>3, <1>5 DEF TypeOK, Phase
<1>7. GrantsWithinCapacity'
  <2>1. GrantedUnits(entries)' = GrantedUnits(entries')
    BY DEF GrantedUnits
  <2>2. ASSUME NEW c \in GrantedUnits(entries')
        PROVE  c \in GrantedUnits(entries)
    <3>1. c \in Unit /\ c[1] \in Ticket
      BY <2>2 DEF GrantedUnits, Unit
    <3>2. entries'[c[1]].state = "running" /\ c[2] <= entries'[c[1]].granted
      BY <2>2 DEF GrantedUnits
    <3>3. QED
      BY <1>5, <3>1, <3>2 DEF GrantedUnits
  <2>3. QED
    BY <2>1, <2>2, FewerGrants
<1>8. SupervisorHolds' /\ NothingWorksEarly' /\ NotYetRegistered'
  BY <1>1, <1>3, <1>5
     DEF SupervisorHolds, NothingWorksEarly, NotYetRegistered, Working, TypeOK
<1>9. RecordBacked' /\ PollerKeepsRecord' /\ GrantKept'
  BY <1>1, <1>3, <1>5 DEF RecordBacked, PollerKeepsRecord, GrantKept, Attended, Working,
     Queued, Running, Alive, Phase, TypeOK
<1>10. QED
  BY <1>6, <1>7, <1>8, <1>9

LEMMA TickStep ==
  ASSUME DispatchInvariant, Tick
  PROVE  DispatchInvariant'
<1> USE DEF DispatchInvariant
<1>1. /\ entries' = [u \in Ticket |-> IF entries[u].state = "absent" THEN entries[u]
                                      ELSE Aged(entries[u])]
      /\ UNCHANGED <<next_seq, leaseFiles, holders, phase, workers>>
  BY DEF Tick
<1>2. ASSUME NEW u \in Ticket
      PROVE  /\ entries'[u] \in Entry(StaleAfter) /\ ValidRecord(entries'[u])
             /\ entries'[u].state = entries[u].state
             /\ entries'[u].granted = entries[u].granted
             /\ entries'[u].supervised = entries[u].supervised
  <2>1. entries[u] \in Entry(StaleAfter) /\ ValidRecord(entries[u])
    BY DEF TypeOK
  <2>2. QED
    BY <1>1, <2>1, AgedRecord
<1>3. TypeOK'
  BY <1>1, <1>2 DEF TypeOK
<1>4. GrantsWithinCapacity'
  <2>1. GrantedUnits(entries)' = GrantedUnits(entries')
    BY DEF GrantedUnits
  <2>2. GrantedUnits(entries') = GrantedUnits(entries)
    BY <1>2 DEF GrantedUnits, Unit
  <2>3. QED
    BY <2>1, <2>2 DEF GrantsWithinCapacity
<1>5. QED
  BY <1>1, <1>2, <1>3, <1>4 DEF SupervisorHolds, NothingWorksEarly, NotYetRegistered,
     RecordBacked, PollerKeepsRecord, GrantKept, Attended, Working, Queued, Running

(* The invariant is inductive: every step of every process, of the         *)
(* commands and of time preserves it.                                      *)
LEMMA NextInvariant == DispatchInvariant /\ [Next]_vars => DispatchInvariant'
<1> SUFFICES ASSUME DispatchInvariant, [Next]_vars PROVE DispatchInvariant'
  OBVIOUS
<1>1. ASSUME NEW t \in Ticket, Supervise(t) \/ Work(t) \/ Kill(t)
      PROVE  DispatchInvariant'
  BY <1>1, ProcessSteps, EnqueueStep, TryAdmitStep, SettleStep DEF Supervise, Work
<1>2. CASE Snapshot
  BY <1>2, SnapshotStep
<1>3. CASE Tick
  BY <1>3, TickStep
<1>4. CASE UNCHANGED vars
  BY <1>4 DEF vars, DispatchInvariant, TypeOK, SupervisorHolds, NothingWorksEarly,
     NotYetRegistered, RecordBacked, PollerKeepsRecord, GrantKept, GrantsWithinCapacity,
     GrantedUnits, Attended, Working, Queued, Running
<1>5. QED
  BY <1>1, <1>2, <1>3, <1>4 DEF Next

(* Every reachable state satisfies the invariant: well-formed records      *)
(* (validate_ledger accepts every ledger the code writes), the poller's    *)
(* own record is there, running grants fit in the host.                    *)
THEOREM DispatchInvariantHolds == Spec => []DispatchInvariant
BY InitInvariant, NextInvariant, PTL DEF Spec

(* The ledger is always one the dispatcher itself would accept.            *)
THEOREM TypeCorrect == Spec => []TypeOK
<1>1. DispatchInvariant => TypeOK
  BY DEF DispatchInvariant
<1>2. QED
  BY <1>1, DispatchInvariantHolds, PTL

(* The running grants never exceed the host's capacity, for any number of  *)
(* dispatchers, any demands, kills, faults and per-process capacities.     *)
THEOREM CapacityRespected == Spec => []GrantsWithinCapacity
<1>1. DispatchInvariant => GrantsWithinCapacity
  BY DEF DispatchInvariant
<1>2. QED
  BY <1>1, DispatchInvariantHolds, PTL

(* A polling process always finds its own record (try_admit never raises   *)
(* "no longer registered").                                                *)
THEOREM PollerNeverLost == Spec => []PollerKeepsRecord
<1>1. DispatchInvariant => PollerKeepsRecord
  BY DEF DispatchInvariant
<1>2. QED
  BY <1>1, DispatchInvariantHolds, PTL

(* Commands under a live supervisor never use more CPUs than the host has: *)
(* each of their units is one the ledger still accounts for.               *)
THEOREM AttendedWorkFits == Spec => []AttendedWorkWithinCapacity
<1>1. DispatchInvariant => AttendedWorkWithinCapacity
  <2> SUFFICES ASSUME DispatchInvariant PROVE AttendedWorkWithinCapacity
    OBVIOUS
  <2>1. AttendedUnits \in SUBSET GrantedUnits(entries)
    BY DEF DispatchInvariant, GrantKept, AttendedUnits, GrantedUnits, Running, Unit
  <2>2. GrantedUnits(entries) \in SUBSET Unit
    BY DEF GrantedUnits
  <2>3. Cardinality(AttendedUnits) <= Cardinality(GrantedUnits(entries))
    BY <2>1, <2>2, FewerUnits
  <2>4. /\ Cardinality(AttendedUnits) \in Nat
        /\ Cardinality(GrantedUnits(entries)) \in Nat
    BY <2>1, <2>2, UnitsCount
  <2>5. QED
    BY <2>3, <2>4, CapacityAssumption
       DEF DispatchInvariant, GrantsWithinCapacity, AttendedWorkWithinCapacity
<1>2. QED
  BY <1>1, DispatchInvariantHolds, PTL

-----------------------------------------------------------------------------
(* Evictions.  A failed ledger operation may unlink the lease file of work *)
(* whose record stays; such work had already outlived the stale bound.     *)

UnlinkedWorkIsStale ==
    \A t \in Ticket : Running(t) /\ Working(t) /\ t \notin leaseFiles => entries[t].age = StaleAfter

(* What a sweep takes from running work (_is_reclaimable).                 *)
LEMMA ReclaimedWork ==
  ASSUME DispatchInvariant, UnlinkedWorkIsStale, NEW P, NEW t \in Reclaimed(P),
         Running(t), Working(t)
  PROVE  phase[t] \notin Alive /\ entries[t].age = StaleAfter
<1>1. t \in Ticket /\ IsReclaimable(t) /\ holders[t] # {}
  BY DEF Reclaimed, Working
<1>2. phase[t] \notin Alive
  <2>1. SUFFICES ASSUME phase[t] \in Alive PROVE FALSE
    OBVIOUS
  <2>2. Attended(t)
    BY <2>1 DEF Attended
  <2>3. QED
    BY <1>1, <2>2, BackedIsKept DEF DispatchInvariant
<1>3. CASE t \notin leaseFiles
  BY <1>1, <1>2, <1>3 DEF UnlinkedWorkIsStale
<1>4. CASE t \in leaseFiles
  <2>1. entries[t].age >= StaleAfter /\ entries[t].age \in 0..StaleAfter
    BY <1>1, <1>4 DEF IsReclaimable, LeaseIsUnheld, DispatchInvariant, TypeOK, Entry
  <2>2. QED
    BY <1>2, <2>1, StaleAssumption
<1>5. QED
  BY <1>3, <1>4

LEMMA InitUnlinked == Init => UnlinkedWorkIsStale
BY DEF Init, UnlinkedWorkIsStale, Running, Absent

LEMMA NextUnlinked ==
  DispatchInvariant /\ DispatchInvariant' /\ UnlinkedWorkIsStale /\ [Next]_vars
    => UnlinkedWorkIsStale'
<1> SUFFICES ASSUME DispatchInvariant, DispatchInvariant', UnlinkedWorkIsStale, [Next]_vars,
                    NEW u \in Ticket, Running(u)', Working(u)', u \notin leaseFiles'
             PROVE  entries'[u].age = StaleAfter
  BY DEF UnlinkedWorkIsStale
<1> USE DEF Running, Working
<1>1. phase'[u] \in {"exited", "killed"}
  <2>1. ~Attended(u)' /\ phase'[u] \in Phase
    BY DEF DispatchInvariant, RecordBacked, TypeOK
  <2>2. phase'[u] \notin Alive
    BY <2>1 DEF Attended
  <2>3. phase'[u] # "start"
    BY DEF DispatchInvariant, NotYetRegistered
  <2>4. QED
    BY <2>1, <2>2, <2>3 DEF Alive, Phase
<1>2. /\ entries \in [Ticket -> Entry(StaleAfter)] /\ phase \in [Ticket -> Phase]
      /\ holders \in [Ticket -> SUBSET Holder]
  BY DEF DispatchInvariant, TypeOK
(* A work that was running and stays as it was, or ages.                   *)
<1>3. ASSUME Working(u), Running(u), entries'[u].age = Aged(entries[u]).age \/ entries'[u] = entries[u],
             \/ u \notin leaseFiles
             \/ \E P : u \in Reclaimed(P)
      PROVE  entries'[u].age = StaleAfter
  <2>1. entries[u].age = StaleAfter
    BY <1>3, ReclaimedWork DEF UnlinkedWorkIsStale
  <2>2. Aged(entries[u]).age = StaleAfter
    BY <1>2, <2>1, StaleAssumption DEF Aged, Min, Entry
  <2>3. QED
    BY <1>3, <2>1, <2>2
(* The last step of its own process.                                       *)
<1>4. ASSUME Working(u), phase[u] \in Alive PROVE u \in leaseFiles /\ holders[u] # {}
  BY <1>4 DEF Attended, DispatchInvariant, RecordBacked
<1>5. ASSUME NEW t \in Ticket, OpenLease(t) \/ GiveUp(t) \/ Spawn(t) \/ ForwardSignals(t)
                               \/ WaitReturns(t) \/ CloseLease(t) \/ TryAdmitFails(t)
      PROVE  entries'[u].age = StaleAfter
  <2>1. u # t /\ UNCHANGED entries
    BY <1>1, <1>2, <1>5 DEF OpenLease, GiveUp, Spawn, ForwardSignals, WaitReturns, CloseLease,
       TryAdmitFails, LedgerFails, Goto, ledger
  <2>2. holders'[u] = holders[u]
    BY <1>2, <1>5, <2>1 DEF OpenLease, GiveUp, Spawn, ForwardSignals, WaitReturns, CloseLease,
       TryAdmitFails, Goto
  <2>3. u \notin leaseFiles \/ \E P : u \in Reclaimed(P)
    BY <1>5, <2>1 DEF OpenLease, GiveUp, Spawn, ForwardSignals, WaitReturns, CloseLease,
       TryAdmitFails, LedgerFails, ledger
  <2>4. QED
    BY <1>3, <2>1, <2>2, <2>3
<1>6. ASSUME NEW t \in Ticket, Enqueue(t) \/ EnqueueFails(t) \/ TryAdmit(t)
      PROVE  entries'[u].age = StaleAfter
  <2>1. u # t
    BY <1>1, <1>2, <1>6 DEF Enqueue, EnqueueFails, TryAdmit, Goto
  <2>2. holders'[u] = holders[u]
    BY <1>2, <1>6, <2>1 DEF Enqueue, EnqueueFails, TryAdmit
  <2>3. entries'[u] = entries[u]
    <3>1. entries'[u] \in {entries[u], Absent}
      BY <1>2, <1>6, <2>1 DEF Enqueue, EnqueueFails, TryAdmit, Swept
    <3>2. QED
      BY <3>1 DEF Absent
  <2>4. u \notin leaseFiles \/ \E P : u \in Reclaimed(P)
    BY <1>6, <2>1 DEF Enqueue, EnqueueFails, TryAdmit
  <2>5. QED
    BY <1>3, <2>2, <2>3, <2>4
<1>7. ASSUME NEW t \in Ticket, Settle(t) \/ SettleFails(t) \/ Kill(t)
      PROVE  entries'[u].age = StaleAfter
  <2>1. Working(u)
    BY <1>2, <1>7 DEF Settle, SettleFails, Kill
  <2>2. CASE u = t
    <3>1. u \in leaseFiles /\ holders[u] # {}
      BY <1>4, <1>7, <2>1, <2>2 DEF Settle, SettleFails, Kill, Alive, Phase
    <3>2. u \in leaseFiles'
      BY <1>2, <1>7, <2>2, <3>1 DEF Settle, SettleFails, Kill, LeaseIsUnheld, ledger, Absent
    <3>3. QED
      BY <3>2
  <2>3. CASE u # t
    <3>1. entries'[u] = entries[u] /\ u \notin leaseFiles
      BY <1>2, <1>7, <2>3 DEF Settle, SettleFails, Kill, ledger
    <3>2. QED
      BY <1>3, <2>1, <3>1
  <2>4. QED
    BY <2>2, <2>3
<1>8. ASSUME NEW t \in Ticket, Work(t) PROVE entries'[u].age = StaleAfter
  <2>1. Working(u) /\ UNCHANGED <<entries, leaseFiles>>
    BY <1>2, <1>8 DEF Work, CommandForks, CommandExits, DescendantExits, ledger
  <2>2. QED
    BY <1>3, <2>1
<1>9. CASE Snapshot
  <2>1. entries'[u] \in {entries[u], Absent} /\ holders' = holders
        /\ leaseFiles' = leaseFiles \ Reclaimed({})
    BY <1>9 DEF Snapshot, Swept
  <2>2. entries'[u] = entries[u]
    BY <2>1 DEF Absent
  <2>3. QED
    BY <1>3, <2>1, <2>2
<1>10. CASE Tick
  <2>1. entries'[u] \in {entries[u], Aged(entries[u])} /\ UNCHANGED <<holders, leaseFiles>>
    BY <1>10 DEF Tick
  <2>2. entries[u].state = "running"
    BY <1>2, <2>1, AgedRecord DEF DispatchInvariant, TypeOK
  <2>3. QED
    BY <1>3, <2>1, <2>2
<1>11. CASE UNCHANGED vars
  BY <1>3, <1>11 DEF vars
<1>12. QED
  BY <1>5, <1>6, <1>7, <1>8, <1>9, <1>10, <1>11 DEF Next, Supervise

(* Capacity is taken from running work only when no supervisor watches it  *)
(* and a whole stale bound has passed (_is_reclaimable).                   *)
THEOREM EvictedOnlyWhenAbandonedHolds == Spec => EvictedOnlyWhenAbandoned
<1> DEFINE Evicted ==
      \A t \in Ticket :
         (Running(t) /\ entries'[t].state = "absent" /\ Working(t))
           => phase[t] \notin Alive /\ entries[t].age = StaleAfter
<1>1. DispatchInvariant /\ UnlinkedWorkIsStale /\ [Next]_vars => [Evicted]_entries
  <2> SUFFICES ASSUME DispatchInvariant, UnlinkedWorkIsStale, [Next]_vars,
                      NEW u \in Ticket, Running(u), entries'[u].state = "absent", Working(u)
               PROVE  phase[u] \notin Alive /\ entries[u].age = StaleAfter
    OBVIOUS
  <2>1. entries \in [Ticket -> Entry(StaleAfter)] /\ entries'[u] # entries[u]
    BY DEF DispatchInvariant, TypeOK, Running
  <2>2. ASSUME \E P : u \in Reclaimed(P)
        PROVE  phase[u] \notin Alive /\ entries[u].age = StaleAfter
    BY <2>2, ReclaimedWork
  <2>3. ASSUME NEW t \in Ticket, Enqueue(t)
        PROVE  \E P : u \in Reclaimed(P)
    <3>1. phase[t] = "leased" /\ u # t
      BY <2>3 DEF Enqueue, DispatchInvariant, NotYetRegistered, Running
    <3>2. QED
      BY <2>1, <2>3, <3>1 DEF Enqueue, Swept
  <2>4. ASSUME NEW t \in Ticket, TryAdmit(t)
        PROVE  \E P : u \in Reclaimed(P)
    <3>1. phase[t] = "queued" /\ u # t
      BY <2>4 DEF TryAdmit, DispatchInvariant, PollerKeepsRecord, Running, Queued
    <3>2. QED
      BY <2>1, <2>4, <3>1 DEF TryAdmit, Swept
  <2>5. ASSUME NEW t \in Ticket, Settle(t)
        PROVE  FALSE
    <3>1. CASE u # t
      BY <2>1, <2>5, <3>1 DEF Settle
    <3>2. CASE u = t
      <4>1. Attended(t)
        BY <2>5, <3>2 DEF Settle, Attended, Alive, Phase
      <4>2. ~LeaseIsUnheld(t) /\ entries[t].state = "running"
        BY <3>2, <4>1 DEF LeaseIsUnheld, DispatchInvariant, RecordBacked, Running
      <4>3. entries'[t] = Orphaned(entries[t])
        BY <2>1, <2>5, <4>2 DEF Settle
      <4>4. QED
        BY <2>1, <3>2, <4>2, <4>3, OrphanedRecord DEF DispatchInvariant, TypeOK
    <3>3. QED
      BY <3>1, <3>2
  <2>6. CASE Snapshot
    BY <2>1, <2>2, <2>6 DEF Snapshot, Swept
  <2>7. Tick => FALSE
    <3>1. SUFFICES ASSUME Tick PROVE FALSE
      OBVIOUS
    <3>2. entries'[u] = Aged(entries[u]) \/ entries'[u] = entries[u]
      BY <3>1 DEF Tick
    <3>3. QED
      BY <2>1, <3>2, AgedRecord DEF DispatchInvariant, TypeOK, Running
  <2>8. ASSUME NEW t \in Ticket,
               \/ OpenLease(t) \/ EnqueueFails(t) \/ TryAdmitFails(t) \/ GiveUp(t) \/ Spawn(t)
               \/ ForwardSignals(t) \/ WaitReturns(t) \/ CloseLease(t) \/ SettleFails(t)
               \/ Kill(t) \/ Work(t)
        PROVE  FALSE
    BY <2>1, <2>8 DEF OpenLease, EnqueueFails, TryAdmitFails, GiveUp, Spawn, ForwardSignals,
       WaitReturns, CloseLease, SettleFails, Kill, Work, CommandForks, CommandExits,
       DescendantExits, LedgerFails, ledger
  <2>9. QED
    BY <2>1, <2>2, <2>3, <2>4, <2>5, <2>6, <2>7, <2>8 DEF Next, Supervise, vars
<1>2. Spec => []UnlinkedWorkIsStale
  BY InitUnlinked, NextUnlinked, DispatchInvariantHolds, PTL DEF Spec
<1>3. QED
  BY <1>1, <1>2, DispatchInvariantHolds, PTL DEF Spec, EvictedOnlyWhenAbandoned

-----------------------------------------------------------------------------
(* The ledger implements a pool of capacity.                               *)

PoolGrant == [t \in Ticket |-> IF Running(t) THEN entries[t].granted ELSE 0]
PoolWork == [t \in Ticket |-> IF ~Working(t) THEN "none"
                              ELSE IF phase[t] \in Alive THEN "attended" ELSE "orphaned"]

(* A grant stays while its record does.                                    *)
LEMMA SameGrant ==
  ASSUME NEW t \in Ticket, entries'[t].state = entries[t].state,
         entries'[t].granted = entries[t].granted
  PROVE  PoolGrant'[t] = PoolGrant[t]
BY DEF PoolGrant, Running

LEMMA SameWork ==
  ASSUME NEW t \in Ticket, Working(t)' <=> Working(t),
         Working(t) => (phase'[t] \in Alive <=> phase[t] \in Alive)
  PROVE  PoolWork'[t] = PoolWork[t]
<1>1. CASE Working(t)
  <2>1. Working(t)'
    BY <1>1
  <2>2. PoolWork[t] = IF phase[t] \in Alive THEN "attended" ELSE "orphaned"
    BY <1>1 DEF PoolWork
  <2>3. PoolWork'[t] = IF phase'[t] \in Alive THEN "attended" ELSE "orphaned"
    BY <2>1 DEF PoolWork, Alive, Phase
  <2>4. QED
    BY <1>1, <2>2, <2>3
<1>2. CASE ~Working(t)
  <2>1. ~Working(t)'
    BY <1>2
  <2>2. QED
    BY <1>2, <2>1 DEF PoolWork
<1>3. QED
  BY <1>1, <1>2

LEMMA PoolDomains ==
  /\ PoolGrant = [t \in Ticket |-> PoolGrant[t]] /\ PoolGrant' = [t \in Ticket |-> PoolGrant'[t]]
  /\ PoolWork = [t \in Ticket |-> PoolWork[t]] /\ PoolWork' = [t \in Ticket |-> PoolWork'[t]]
BY DEF PoolGrant, PoolWork

(* The steps of the pool, of PoolGrant and PoolWork.                       *)
LEMMA WithdrawMaps ==
  ASSUME NEW W \in SUBSET Ticket, \A t \in W : PoolWork[t] # "attended",
         \A t \in Ticket : PoolGrant'[t] = IF t \in W THEN 0 ELSE PoolGrant[t],
         \A t \in Ticket : PoolWork'[t] = PoolWork[t]
  PROVE  Pool!Next
<1>1. /\ PoolGrant' = [t \in Ticket |-> IF t \in W THEN 0 ELSE PoolGrant[t]]
      /\ PoolWork' = PoolWork
  BY PoolDomains
<1>2. Pool!Withdraw(W)
  BY <1>1 DEF Pool!Withdraw, Pool!Withdrawn, PoolGrant, PoolWork
<1>3. QED
  BY <1>2 DEF Pool!Next

(* A step the pool does not see withdraws nothing.                         *)
LEMMA NothingMaps ==
  ASSUME \A t \in Ticket : PoolGrant'[t] = PoolGrant[t],
         \A t \in Ticket : PoolWork'[t] = PoolWork[t]
  PROVE  Pool!Next
<1>1. PICK W \in SUBSET Ticket : W = {}
  OBVIOUS
<1>2. QED
  BY <1>1, WithdrawMaps

LEMMA IssueMaps ==
  ASSUME NEW W \in SUBSET Ticket, \A t \in W : PoolWork[t] # "attended",
         NEW h \in Ticket \ W, NEW n \in 1..HostCapacity,
         PoolGrant[h] = 0, PoolWork[h] = "none",
         \A t \in Ticket : PoolGrant'[t] = IF t = h THEN n
                                           ELSE IF t \in W THEN 0 ELSE PoolGrant[t],
         \A t \in Ticket : PoolWork'[t] = PoolWork[t],
         Cardinality({c \in Ticket \X (1..HostCapacity) : c[2] <= PoolGrant'[c[1]]})
           <= HostCapacity
  PROVE  Pool!Next
<1>1. /\ PoolGrant' = [[t \in Ticket |-> IF t \in W THEN 0 ELSE PoolGrant[t]] EXCEPT ![h] = n]
      /\ PoolWork' = PoolWork
  BY PoolDomains
<1>2. Pool!Issue(W, h, n)
  BY <1>1 DEF Pool!Issue, Pool!Withdrawn, Pool!Issued, Pool!Cardinality, Cardinality,
     PoolGrant, PoolWork
<1>3. QED
  BY <1>2 DEF Pool!Next

LEMMA WorkMaps ==
  ASSUME NEW h \in Ticket,
         \/ PoolGrant[h] > 0 /\ PoolWork[h] = "none" /\ PoolWork'[h] = "attended"
         \/ PoolWork[h] # "none" /\ PoolWork'[h] = "none"
         \/ PoolWork[h] = "attended" /\ PoolWork'[h] = "orphaned",
         \A t \in Ticket : PoolGrant'[t] = PoolGrant[t],
         \A t \in Ticket \ {h} : PoolWork'[t] = PoolWork[t]
  PROVE  Pool!Next
<1>1. PoolGrant' = PoolGrant /\ PoolWork' = [PoolWork EXCEPT ![h] = PoolWork'[h]]
  BY PoolDomains
<1>2. Pool!StartWork(h) \/ Pool!EndWork(h) \/ Pool!LoseSupervisor(h)
  BY <1>1 DEF Pool!StartWork, Pool!EndWork, Pool!LoseSupervisor, PoolGrant, PoolWork
<1>3. QED
  BY <1>2 DEF Pool!Next

(* A sweep returns only capacity of work that nobody attends.              *)
LEMMA SweptUnattended ==
  ASSUME DispatchInvariant, NEW P, NEW t \in Reclaimed(P)
  PROVE  PoolWork[t] # "attended" /\ PoolWork[t] \in {"none", "orphaned"}
<1>1. t \in Ticket
  BY DEF Reclaimed
<1>2. ~Working(t) \/ phase[t] \notin Alive
  <2>1. SUFFICES ASSUME Working(t), phase[t] \in Alive PROVE FALSE
    OBVIOUS
  <2>2. Attended(t)
    BY <2>1 DEF Attended
  <2>3. QED
    BY <1>1, <2>2, BackedIsKept DEF DispatchInvariant
<1>3. QED
  BY <1>1, <1>2 DEF PoolWork

(* The steps that leave the records alone.                                 *)
LEMMA ProcessMaps ==
  ASSUME DispatchInvariant, NEW t \in Ticket,
         \/ OpenLease(t) \/ EnqueueFails(t) \/ TryAdmitFails(t) \/ GiveUp(t) \/ Spawn(t)
         \/ ForwardSignals(t) \/ WaitReturns(t) \/ CloseLease(t) \/ SettleFails(t)
         \/ Kill(t) \/ CommandForks(t) \/ CommandExits(t) \/ DescendantExits(t)
  PROVE  Pool!Next
<1> USE DEF DispatchInvariant
<1>1. UNCHANGED entries
  BY DEF OpenLease, EnqueueFails, TryAdmitFails, GiveUp, Spawn, ForwardSignals, WaitReturns,
     CloseLease, SettleFails, Kill, CommandForks, CommandExits, DescendantExits, LedgerFails,
     ledger
<1>2. \A u \in Ticket : PoolGrant'[u] = PoolGrant[u]
  BY <1>1, SameGrant
<1>3. phase \in [Ticket -> Phase] /\ holders \in [Ticket -> SUBSET Holder]
  BY DEF TypeOK
<1>4. \A u \in Ticket \ {t} : phase'[u] = phase[u] /\ holders'[u] = holders[u]
  BY <1>3 DEF OpenLease, EnqueueFails, TryAdmitFails, GiveUp, Spawn, ForwardSignals, WaitReturns,
     CloseLease, SettleFails, Kill, CommandForks, CommandExits, DescendantExits, Goto
<1>5. \A u \in Ticket \ {t} : PoolWork'[u] = PoolWork[u]
  BY <1>4, SameWork DEF Working
<1>6. CASE PoolWork'[t] = PoolWork[t]
  <2>1. \A u \in Ticket : PoolWork'[u] = PoolWork[u]
    BY <1>5, <1>6
  <2>2. QED
    BY <1>2, <2>1, NothingMaps
<1>7. /\ PoolWork[t] = IF ~Working(t) THEN "none"
                       ELSE IF phase[t] \in Alive THEN "attended" ELSE "orphaned"
      /\ PoolWork'[t] = IF ~Working(t)' THEN "none"
                        ELSE IF phase'[t] \in Alive THEN "attended" ELSE "orphaned"
  BY DEF PoolWork, Alive, Phase
(* Work begins on a grant.                                                 *)
<1>8. CASE Spawn(t)
  <2>1. phase[t] = "admitted" /\ phase'[t] = "spawned" /\ "command" \in holders'[t]
    BY <1>3, <1>8 DEF Spawn, Goto
  <2>2. ~Working(t) /\ Working(t)' /\ Attended(t)
    BY <2>1 DEF NothingWorksEarly, Working, Attended, Alive, Phase
  <2>3. PoolWork[t] = "none" /\ PoolWork'[t] = "attended"
    BY <1>7, <2>1, <2>2 DEF Alive, Phase
  <2>4. Running(t) /\ entries[t].granted > 0
    BY <2>2 DEF GrantKept, TypeOK, ValidRecord, Running
  <2>5. PoolGrant[t] > 0
    BY <2>4 DEF PoolGrant
  <2>6. QED
    BY <1>2, <1>5, <2>3, <2>5, WorkMaps
(* Work loses its supervisor.                                              *)
<1>9. CASE SettleFails(t) \/ Kill(t)
  <2>1. /\ phase[t] \in Alive /\ phase'[t] \notin Alive
        /\ Working(t)' <=> Working(t)
    BY <1>3, <1>9 DEF SettleFails, Kill, Goto, Alive, Phase, Working
  <2>2. CASE Working(t)
    <3>1. PoolWork[t] = "attended" /\ PoolWork'[t] = "orphaned"
      BY <1>7, <2>1, <2>2
    <3>2. QED
      BY <1>2, <1>5, <3>1, WorkMaps
  <2>3. CASE ~Working(t)
    BY <1>6, <1>7, <2>1, <2>3
  <2>4. QED
    BY <2>2, <2>3
(* Work ends.                                                              *)
<1>10. CASE CommandForks(t) \/ CommandExits(t) \/ DescendantExits(t)
  <2>1. Working(t) /\ phase' = phase
    BY <1>10 DEF CommandForks, CommandExits, DescendantExits, Working
  <2>2. CASE Working(t)'
    <3>1. PoolWork'[t] = PoolWork[t]
      BY <1>7, <2>1, <2>2
    <3>2. QED
      BY <1>6, <3>1
  <2>3. CASE ~Working(t)'
    <3>1. PoolWork[t] # "none" /\ PoolWork'[t] = "none"
      BY <1>7, <2>1, <2>3
    <3>2. QED
      BY <1>2, <1>5, <3>1, WorkMaps
  <2>4. QED
    BY <2>2, <2>3
(* Nothing was working yet, or the process goes on.                        *)
<1>11. CASE OpenLease(t) \/ EnqueueFails(t) \/ TryAdmitFails(t)
  <2>1. ~Working(t) /\ ~Working(t)'
    BY <1>3, <1>11 DEF OpenLease, EnqueueFails, TryAdmitFails, NothingWorksEarly, Working
  <2>2. QED
    BY <1>6, <1>7, <2>1
<1>12. CASE GiveUp(t) \/ ForwardSignals(t) \/ WaitReturns(t) \/ CloseLease(t)
  <2>1. phase[t] \in Alive /\ phase'[t] \in Alive
    BY <1>3, <1>12 DEF GiveUp, ForwardSignals, WaitReturns, CloseLease, Goto, Alive, Phase
  <2>2. Working(t)' <=> Working(t)
    BY <1>3, <1>12 DEF GiveUp, ForwardSignals, WaitReturns, CloseLease, Working
  <2>3. QED
    BY <1>6, <2>1, <2>2, SameWork
<1>13. QED
  BY <1>8, <1>9, <1>10, <1>11, <1>12

(* The steps that only sweep, or settle.                                   *)
LEMMA SnapshotMaps ==
  ASSUME DispatchInvariant, Snapshot PROVE Pool!Next
<1>1. Reclaimed({}) \in SUBSET Ticket
  BY DEF Reclaimed
<1>2. \A t \in Ticket : PoolWork'[t] = PoolWork[t]
  BY SameWork DEF Snapshot, Working
<1>3. \A t \in Ticket : PoolGrant'[t] = IF t \in Reclaimed({}) THEN 0 ELSE PoolGrant[t]
  BY DEF Snapshot, Swept, Absent, PoolGrant, Running
<1>4. QED
  BY <1>1, <1>2, <1>3, SweptUnattended, WithdrawMaps

LEMMA EnqueueMaps ==
  ASSUME DispatchInvariant, NEW t \in Ticket, Enqueue(t) PROVE Pool!Next
<1>0. /\ entries \in [Ticket -> Entry(StaleAfter)] /\ phase \in [Ticket -> Phase]
      /\ phase[t] = "leased" /\ entries[t].state = "absent" /\ ~Working(t)
      /\ phase' = [phase EXCEPT ![t] = "queued"] /\ holders' = holders
  BY DEF DispatchInvariant, TypeOK, Enqueue, NotYetRegistered, NothingWorksEarly, Goto
<1>1. Reclaimed({}) \in SUBSET Ticket
  BY DEF Reclaimed
<1>2. \A u \in Ticket : PoolWork'[u] = PoolWork[u]
  BY <1>0, SameWork DEF Working
<1>3. /\ \A u \in Ticket \ {t} : entries'[u] = Swept(Reclaimed({}))[u]
      /\ entries'[t].state = "queued"
  BY DEF Enqueue, Swept
<1>4. \A u \in Ticket : PoolGrant'[u] = IF u \in Reclaimed({}) THEN 0 ELSE PoolGrant[u]
  BY <1>0, <1>3 DEF Swept, Absent, PoolGrant, Running
<1>5. QED
  BY <1>1, <1>2, <1>4, SweptUnattended, WithdrawMaps

LEMMA TickMaps ==
  ASSUME DispatchInvariant, Tick PROVE Pool!Next
<1>1. \A t \in Ticket : PoolWork'[t] = PoolWork[t]
  BY SameWork DEF Tick, Working
<1>2. \A t \in Ticket : /\ entries'[t].state = entries[t].state
                        /\ entries'[t].granted = entries[t].granted
  BY AgedRecord DEF Tick, DispatchInvariant, TypeOK
<1>3. QED
  BY <1>1, <1>2, SameGrant, NothingMaps

LEMMA SettleMaps ==
  ASSUME DispatchInvariant, NEW t \in Ticket, Settle(t) PROVE Pool!Next
<1>0. /\ entries \in [Ticket -> Entry(StaleAfter)] /\ phase \in [Ticket -> Phase]
      /\ phase[t] = "closed" /\ phase' = [phase EXCEPT ![t] = "exited"] /\ holders' = holders
      /\ \A u \in Ticket \ {t} : entries'[u] = entries[u]
  BY DEF DispatchInvariant, TypeOK, Settle, Goto
<1>1. \A u \in Ticket \ {t} : PoolWork'[u] = PoolWork[u] /\ PoolGrant'[u] = PoolGrant[u]
  BY <1>0, SameWork, SameGrant DEF Working
(* Work goes on without its supervisor, and its record stays.              *)
<1>2. CASE Working(t)
  <2>1. Attended(t)
    BY <1>0, <1>2 DEF Attended, Alive, Phase
  <2>2. entries[t].state = "running" /\ ~LeaseIsUnheld(t)
    BY <2>1 DEF DispatchInvariant, GrantKept, RecordBacked, Running, LeaseIsUnheld
  <2>3. entries'[t] = Orphaned(entries[t])
    BY <1>0, <2>2 DEF Settle
  <2>4. PoolGrant'[t] = PoolGrant[t]
    BY <1>0, <2>3, SameGrant, OrphanedRecord DEF DispatchInvariant, TypeOK
  <2>5. Working(t)'
    BY <1>0, <1>2 DEF Working
  <2>6. PoolWork[t] = "attended"
    BY <1>0, <1>2 DEF PoolWork, Alive, Phase
  <2>7. PoolWork'[t] = "orphaned"
    BY <1>0, <2>5 DEF PoolWork, Alive, Phase
  <2>8. QED
    BY <1>1, <2>4, <2>6, <2>7, WorkMaps
(* Otherwise its capacity comes back, or stays.                            *)
<1>3. CASE ~Working(t)
  <2>1. PoolWork[t] = "none" /\ PoolWork'[t] = PoolWork[t]
    BY <1>0, <1>3 DEF PoolWork, Working
  <2>2. CASE entries'[t].state = entries[t].state /\ entries'[t].granted = entries[t].granted
    <3>1. PoolGrant'[t] = PoolGrant[t]
      BY <2>2, SameGrant
    <3>2. QED
      BY <1>1, <2>1, <3>1, NothingMaps
  <2>3. CASE entries'[t] = Absent
    <3>1. PoolGrant'[t] = 0
      BY <2>3 DEF PoolGrant, Running, Absent
    <3>2. {t} \in SUBSET Ticket
      OBVIOUS
    <3>3. \A u \in Ticket : PoolGrant'[u] = IF u \in {t} THEN 0 ELSE PoolGrant[u]
      BY <1>1, <3>1
    <3>4. \A u \in {t} : PoolWork[u] # "attended"
      BY <2>1
    <3>5. QED
      BY <1>1, <2>1, <3>2, <3>3, <3>4, WithdrawMaps
  <2>4. entries'[t] \in {entries[t], Absent, Orphaned(entries[t])}
    BY <1>0 DEF Settle
  <2>5. QED
    BY <1>0, <2>2, <2>3, <2>4, OrphanedRecord DEF DispatchInvariant, TypeOK
<1>4. QED
  BY <1>2, <1>3

LEMMA TryAdmitMaps ==
  ASSUME DispatchInvariant, DispatchInvariant', NEW t \in Ticket, TryAdmit(t) PROVE Pool!Next
<1>1. PICK D : D = Reclaimed({t})
  OBVIOUS
<1>2. PICK n : n = PlanAdmission(Capacity[t], Swept(D), t)
  OBVIOUS
<1>3. D \in SUBSET Ticket /\ t \notin D
  BY <1>1 DEF Reclaimed
<1>4. /\ entries \in [Ticket -> Entry(StaleAfter)] /\ phase \in [Ticket -> Phase]
      /\ phase[t] = "queued" /\ entries[t].state = "queued" /\ ~Working(t)
      /\ holders' = holders
  BY DEF DispatchInvariant, TypeOK, TryAdmit, PollerKeepsRecord, Queued, NothingWorksEarly
<1>5. \A u \in D : PoolWork[u] # "attended"
  BY <1>1, SweptUnattended
<1>6. \A u \in Ticket : PoolWork'[u] = PoolWork[u]
  <2>1. phase' \in {phase, [phase EXCEPT ![t] = "admitted"]}
    BY DEF TryAdmit, Goto
  <2>2. QED
    BY <1>4, <2>1, SameWork DEF Working, Alive, Phase
<1>7. \A u \in Ticket \ {t} : PoolGrant'[u] = IF u \in D THEN 0 ELSE PoolGrant[u]
  <2>1. \A u \in Ticket \ {t} : entries'[u] = Swept(D)[u]
    BY <1>1 DEF TryAdmit, Swept
  <2>2. QED
    BY <2>1 DEF Swept, Absent, PoolGrant, Running
<1>8. PoolGrant[t] = 0 /\ PoolWork[t] = "none"
  BY <1>4 DEF PoolGrant, PoolWork, Running
<1>9. CASE entries' = Swept(D)
  <2>1. PoolGrant'[t] = 0
    BY <1>3, <1>4, <1>9 DEF PoolGrant, Running, Swept
  <2>2. \A u \in Ticket : PoolGrant'[u] = IF u \in D THEN 0 ELSE PoolGrant[u]
    BY <1>3, <1>7, <1>8, <2>1
  <2>3. QED
    BY <1>3, <1>5, <1>6, <2>2, WithdrawMaps
<1>10. CASE n > 0 /\ entries' = [Swept(D) EXCEPT ![t] = Granted(@, n)]
  <2>1. Swept(D) \in Snapshots /\ \A u \in Ticket : ValidRecord(Swept(D)[u])
    BY <1>3, SweepTyped DEF DispatchInvariant
  <2>2. Capacity[t] \in Nat \ {0} /\ Capacity[t] <= HostCapacity /\ HostCapacity \in Nat
    BY CapacityAssumption
  <2>3. Cardinality(GrantedUnits(Swept(D))) \in Nat
    BY <2>1, UnitsCount DEF GrantedUnits
  <2>4. n \in 0..MaxDemand /\ Cardinality(GrantedUnits(Swept(D))) + n <= Capacity[t]
    BY <1>2, <1>10, <2>1, <2>2, GrantFits
  <2>5. n \in 1..HostCapacity /\ n \in Demand
    BY <1>10, <2>2, <2>3, <2>4, MaxDemandAssumption DEF Demand
  <2>6. PoolGrant'[t] = n
    <3>1. entries'[t] = Granted(Swept(D)[t], n)
      BY <1>10, <2>1 DEF Snapshots
    <3>2. entries'[t].state = "running" /\ entries'[t].granted = n
      BY <2>1, <2>5, <3>1, GrantedRecord DEF Snapshots
    <3>3. QED
      BY <3>2 DEF PoolGrant, Running
  <2>7. \A u \in Ticket : PoolGrant'[u] = IF u = t THEN n ELSE IF u \in D THEN 0 ELSE PoolGrant[u]
    BY <1>7, <2>6
  <2>8. PICK U : U = {c \in Ticket \X (1..HostCapacity) : c[2] <= PoolGrant'[c[1]]}
    OBVIOUS
  <2>9. U \in SUBSET GrantedUnits(entries')
    <3>1. SUFFICES ASSUME NEW c \in U PROVE c \in GrantedUnits(entries')
      OBVIOUS
    <3>2. /\ c \in Ticket \X (1..HostCapacity) /\ c[1] \in Ticket /\ c[2] \in 1..HostCapacity
          /\ c[2] <= PoolGrant'[c[1]]
      BY <2>8, <3>1
    <3>3. PoolGrant'[c[1]] = IF entries'[c[1]].state = "running" THEN entries'[c[1]].granted ELSE 0
      BY <3>2 DEF PoolGrant, Running
    <3>4. entries'[c[1]].granted \in 0..MaxDemand
      BY <3>2 DEF DispatchInvariant, TypeOK, Entry
    <3>5. entries'[c[1]].state = "running" /\ c[2] <= entries'[c[1]].granted /\ c[2] \in Demand
      BY <2>2, <3>2, <3>3, <3>4, MaxDemandAssumption DEF Demand
    <3>6. c \in Unit
      BY <3>2, <3>5 DEF Unit
    <3>7. QED
      BY <3>5, <3>6 DEF GrantedUnits
  <2>10. Cardinality(U) <= HostCapacity
    <3>1. GrantedUnits(entries') \in SUBSET Unit /\ GrantedUnits(entries)' = GrantedUnits(entries')
      BY DEF GrantedUnits
    <3>2. Cardinality(U) <= Cardinality(GrantedUnits(entries'))
      BY <2>9, <3>1, FewerUnits
    <3>3. Cardinality(GrantedUnits(entries')) <= HostCapacity
      BY <3>1 DEF DispatchInvariant, GrantsWithinCapacity
    <3>4. Cardinality(U) \in Nat /\ Cardinality(GrantedUnits(entries')) \in Nat
      BY <2>9, <3>1, UnitsCount
    <3>5. QED
      BY <2>2, <3>2, <3>3, <3>4
  <2>11. QED
    BY <1>3, <1>5, <1>6, <1>8, <2>5, <2>7, <2>8, <2>10, IssueMaps
<1>11. QED
  BY <1>1, <1>2, <1>9, <1>10 DEF TryAdmit

(* The dispatcher implements CapacityPool: grants are issued within the    *)
(* budget, work starts only on a grant, and no grant is taken from work    *)
(* whose supervisor lives (ADR-096, _sweep, try_admit, release).           *)
THEOREM ImplementsPoolHolds == Spec => ImplementsPool
<1>1. Init => Pool!Init
  <2>1. SUFFICES ASSUME Init PROVE Pool!Init
    OBVIOUS
  <2>2. \A t \in Ticket : PoolGrant[t] = 0 /\ PoolWork[t] = "none"
    BY <2>1 DEF Init, PoolGrant, PoolWork, Running, Working, Absent
  <2>3. PoolGrant = [t \in Ticket |-> 0] /\ PoolWork = [t \in Ticket |-> "none"]
    BY <2>2, PoolDomains
  <2>4. QED
    BY <2>3 DEF Pool!Init, PoolGrant, PoolWork
<1>2. DispatchInvariant /\ DispatchInvariant' /\ [Next]_vars => Pool!Next
  <2>1. SUFFICES ASSUME DispatchInvariant, DispatchInvariant', [Next]_vars PROVE Pool!Next
    OBVIOUS
  <2>2. ASSUME NEW t \in Ticket, Supervise(t) \/ Work(t) \/ Kill(t) PROVE Pool!Next
    BY <2>1, <2>2, ProcessMaps, EnqueueMaps, TryAdmitMaps, SettleMaps DEF Supervise, Work
  <2>3. CASE Snapshot \/ Tick
    BY <2>1, <2>3, SnapshotMaps, TickMaps
  <2>4. CASE UNCHANGED vars
    <3>1. \A t \in Ticket : PoolGrant'[t] = PoolGrant[t] /\ PoolWork'[t] = PoolWork[t]
      BY <2>4, SameGrant, SameWork DEF vars, Working
    <3>2. QED
      BY <3>1, NothingMaps
  <2>5. QED
    BY <2>1, <2>2, <2>3, <2>4 DEF Next
<1>3. QED
  BY <1>1, <1>2, DispatchInvariantHolds, PTL DEF Spec, ImplementsPool, Pool!Spec

-----------------------------------------------------------------------------
(* The queue.  Processes on a host that read one capacity plan alike, and  *)
(* then the walk keeps for whoever waits all that it had.                  *)
SameCapacity == \A t, u \in Ticket : Capacity[t] = Capacity[u]

(* What running work holds and the walk hands out before it reaches t.     *)
TakenUnits(c, e, t) == GrantedUnits(e) \cup ReservedUnits(c, e, t)

LEMMA DemandBounds ==
  ASSUME NEW c \in Nat \ {0}, NEW d \in Demand
  PROVE  Effective(d, c) \in Demand
BY MaxDemandAssumption DEF Effective, Max, Min, Demand

LEMMA DemandsOrdered ==
  ASSUME NEW c \in Nat \ {0}, NEW d \in Demand, NEW m \in Demand, m <= d
  PROVE  Effective(m, c) <= Effective(d, c)
BY MaxDemandAssumption DEF Effective, Max, Min, Demand

(* The capacity left for t is what is not taken: running and queued        *)
(* tickets are different ones.                                             *)
LEMMA LeftIsUntaken ==
  ASSUME NEW c \in Nat \ {0}, NEW e \in Snapshots, NEW t \in Ticket
  PROVE  /\ TakenUnits(c, e, t) \in SUBSET Unit
         /\ LeftFor(c, e, t) = Max(0, c - Cardinality(TakenUnits(c, e, t)))
         /\ LeftFor(c, e, t) \in Nat
<1> DEFINE G == GrantedUnits(e)
           R == ReservedUnits(c, e, t)
<1>1. G \in SUBSET Unit /\ R \in SUBSET Unit
  BY DEF GrantedUnits, ReservedUnits
<1>2. G \cap R = {}
  BY DEF GrantedUnits, ReservedUnits, Ahead
<1>3. /\ IsFiniteSet(G) /\ Cardinality(G) \in Nat
      /\ IsFiniteSet(R) /\ Cardinality(R) \in Nat
  BY <1>1, UnitsCount
<1>4. Cardinality(G \cup R) = Cardinality(G) + Cardinality(R)
  <2>1. Cardinality(G \cup R) = Cardinality(G) + Cardinality(R) - Cardinality(G \cap R)
    BY <1>3, FS_Union
  <2>2. Cardinality(G \cap R) = 0
    BY <1>2, FS_EmptySet
  <2> QED BY <1>3, <2>1, <2>2
<1>5. LeftFor(c, e, t) = Max(0, Max(0, c - Cardinality(G)) - Cardinality(R))
  BY DEF LeftFor, RemainingCapacity
<1>6. TakenUnits(c, e, t) = G \cup R
  BY DEF TakenUnits
<1> HIDE DEF G, R
<1> QED BY <1>1, <1>3, <1>4, <1>5, <1>6 DEF Max

(* What t would be granted if everybody ahead of it is served first.       *)
Share(c, e, t) == Min(Effective(e[t].requested, c), LeftFor(c, e, t))

SameDemand(e, f, t) ==
    /\ f[t].state = e[t].state /\ f[t].seq = e[t].seq
    /\ f[t].requested = e[t].requested /\ f[t].minimum = e[t].minimum

(* A plan only grows when whoever is still ahead was ahead before and no   *)
(* share of theirs shrinks.                                                *)
LEMMA PlanGrows ==
  ASSUME NEW c \in Nat \ {0}, NEW e \in Snapshots, NEW f \in Snapshots, NEW t \in Ticket,
         \A u \in Ticket : ValidRecord(e[u]),
         e[t].state = "queued", f[t].state = "queued",
         \A u \in Ahead(f, t) \cup {t} :
            /\ u \in Ahead(e, t) \cup {t}
            /\ SameDemand(e, f, u)
            /\ Share(c, f, u) >= Share(c, e, u)
  PROVE  PlanAdmission(c, f, t) >= PlanAdmission(c, e, t)
<1>1. ASSUME NEW u \in Ahead(f, t) \cup {t}, Fits(c, e, u)
      PROVE  Fits(c, f, u)
  <2>1. u \in Ticket /\ e[u].requested \in Demand /\ e[u].minimum \in Demand
        /\ e[u].minimum <= e[u].requested
    BY DEF Ahead, Snapshots, Entry, ValidRecord
  <2>2. /\ Effective(e[u].requested, c) \in Demand /\ Effective(e[u].minimum, c) \in Demand
        /\ Effective(e[u].minimum, c) <= Effective(e[u].requested, c)
    BY <2>1, DemandBounds, DemandsOrdered
  <2>3. LeftFor(c, e, u) \in Nat /\ LeftFor(c, f, u) \in Nat
    BY <2>1, LeftIsUntaken
  <2>4. f[u].requested = e[u].requested /\ f[u].minimum = e[u].minimum
        /\ Share(c, f, u) >= Share(c, e, u)
    BY DEF SameDemand
  <2>5. LeftFor(c, e, u) >= Effective(e[u].minimum, c)
    BY <1>1 DEF Fits
  <2>6. LeftFor(c, f, u) >= Effective(e[u].minimum, c)
    BY <2>2, <2>3, <2>4, <2>5, MaxDemandAssumption DEF Share, Min, Demand
  <2> QED BY <2>4, <2>6 DEF Fits
<1>2. Share(c, f, t) >= Share(c, e, t) /\ Share(c, f, t) \in Nat
  <2>1. Effective(f[t].requested, c) \in Demand /\ LeftFor(c, f, t) \in Nat
    BY DemandBounds, LeftIsUntaken DEF Snapshots, Entry
  <2> QED BY <2>1, MaxDemandAssumption DEF Share, Min, Demand
<1>3. Admissible(c, e, t) => Admissible(c, f, t)
  BY <1>1 DEF Admissible
<1>4. /\ PlanAdmission(c, e, t) = IF Admissible(c, e, t) THEN Share(c, e, t) ELSE 0
      /\ PlanAdmission(c, f, t) = IF Admissible(c, f, t) THEN Share(c, f, t) ELSE 0
  BY DEF PlanAdmission, Share
<1> QED BY <1>2, <1>3, <1>4

(* Fewer units taken, larger share.                                        *)
LEMMA ShareGrows ==
  ASSUME NEW c \in Nat \ {0}, NEW e \in Snapshots, NEW f \in Snapshots, NEW t \in Ticket,
         f[t].requested = e[t].requested,
         TakenUnits(c, f, t) \subseteq TakenUnits(c, e, t)
  PROVE  Share(c, f, t) >= Share(c, e, t)
<1>1. /\ LeftFor(c, e, t) = Max(0, c - Cardinality(TakenUnits(c, e, t)))
      /\ LeftFor(c, f, t) = Max(0, c - Cardinality(TakenUnits(c, f, t)))
      /\ TakenUnits(c, e, t) \in SUBSET Unit
  BY LeftIsUntaken
<1>2. /\ Cardinality(TakenUnits(c, e, t)) \in Nat /\ Cardinality(TakenUnits(c, f, t)) \in Nat
      /\ Cardinality(TakenUnits(c, f, t)) <= Cardinality(TakenUnits(c, e, t))
  BY <1>1, UnitsCount, FewerUnits
<1>3. Effective(e[t].requested, c) \in Nat
  BY DemandBounds, MaxDemandAssumption DEF Snapshots, Entry, Demand
<1> QED BY <1>1, <1>2, <1>3 DEF Share, Min, Max

-----------------------------------------------------------------------------
(* Records that go, and arrivals behind t.                                 *)
Kept(e, f, t) == SameDemand(e, f, t) /\ f[t].granted = e[t].granted

LEMMA NobodyComesAhead ==
  ASSUME NEW c \in Nat \ {0}, NEW e \in Snapshots, NEW f \in Snapshots, NEW t \in Ticket,
         f[t].state = "queued", Kept(e, f, t),
         \A u \in Ticket : ValidRecord(e[u]),
         \A u \in Ticket : \/ f[u].state = "absent" \/ Kept(e, f, u)
                           \/ f[u].state = "queued" /\ f[u].seq >= f[t].seq
  PROVE  PlanAdmission(c, f, t) >= PlanAdmission(c, e, t)
<1>1. ASSUME NEW u \in Ahead(f, t) \cup {t}
      PROVE  u \in Ticket /\ f[u].state = "queued" /\ Kept(e, f, u)
             /\ f[u].seq <= f[t].seq
             /\ u \in Ahead(e, t) \cup {t}
  <2>1. t \in Ticket /\ f[t].seq \in Nat
    BY DEF Snapshots, Entry
  <2>2. CASE u = t
    BY <2>1, <2>2
  <2>3. CASE u \in Ahead(f, t)
    <3>1. u \in Ticket /\ f[u].state = "queued" /\ f[u].seq < f[t].seq /\ f[u].seq \in Nat
      BY <2>3 DEF Ahead, Snapshots, Entry
    <3>2. Kept(e, f, u)
      BY <2>1, <3>1
    <3> QED BY <2>1, <3>1, <3>2 DEF Kept, SameDemand, Ahead
  <2> QED BY <2>2, <2>3
<1>2. ASSUME NEW u \in Ahead(f, t) \cup {t}
      PROVE  TakenUnits(c, f, u) \subseteq TakenUnits(c, e, u)
  <2>1. u \in Ticket /\ Kept(e, f, u) /\ f[u].seq <= f[t].seq
    BY <1>1, <1>2
  <2>2. ASSUME NEW x \in GrantedUnits(f) PROVE x \in GrantedUnits(e)
    <3>1. x \in Unit /\ x[1] \in Ticket /\ f[x[1]].state = "running" /\ x[2] <= f[x[1]].granted
      BY <2>2 DEF GrantedUnits, Unit
    <3>2. Kept(e, f, x[1])
      BY <3>1
    <3> QED BY <3>1, <3>2 DEF GrantedUnits, Kept, SameDemand
  <2>3. ASSUME NEW x \in ReservedUnits(c, f, u) PROVE x \in ReservedUnits(c, e, u)
    <3>1. /\ x \in Unit /\ x[1] \in Ticket /\ f[x[1]].state = "queued" /\ f[x[1]].seq < f[u].seq
          /\ x[2] <= Effective(f[x[1]].requested, c)
      BY <2>3 DEF ReservedUnits, Ahead, Unit
    <3>2. f[x[1]].seq \in Nat /\ f[u].seq \in Nat /\ f[t].seq \in Nat
      BY <2>1, <3>1 DEF Snapshots, Entry
    <3>3. Kept(e, f, x[1])
      BY <2>1, <3>1, <3>2
    <3> QED BY <2>1, <3>1, <3>3 DEF ReservedUnits, Ahead, Kept, SameDemand
  <2> QED BY <2>2, <2>3 DEF TakenUnits
<1>3. ASSUME NEW u \in Ahead(f, t) \cup {t}
      PROVE  SameDemand(e, f, u) /\ Share(c, f, u) >= Share(c, e, u)
  <2>1. u \in Ticket /\ SameDemand(e, f, u) /\ f[u].requested = e[u].requested
    BY <1>1, <1>3 DEF Kept, SameDemand
  <2> QED BY <1>2, <1>3, <2>1, ShareGrows
<1>4. e[t].state = "queued"
  BY DEF Kept, SameDemand
<1> QED BY <1>1, <1>3, <1>4, PlanGrows

-----------------------------------------------------------------------------
(* A grant.                                                                *)
(* s is what a poll of a plans with, f what it leaves when n are granted.  *)
Grants(c, s, f, a, n) ==
    /\ \A u \in Ticket : ValidRecord(s[u])
    /\ n = PlanAdmission(c, s, a) /\ n > 0
    /\ f[a].state = "running" /\ f[a].granted = n
    /\ \A u \in Ticket \ {a} : f[u] = s[u]

LEMMA GrantedShare ==
  ASSUME NEW c \in Nat \ {0}, NEW s \in Snapshots, NEW f \in Snapshots, NEW a \in Ticket,
         NEW n, Grants(c, s, f, a, n)
  PROVE  /\ s[a].state = "queued" /\ Admissible(c, s, a)
         /\ n \in Demand /\ n <= Effective(s[a].requested, c)
         /\ Cardinality(TakenUnits(c, s, a)) + n <= c
<1>1. Admissible(c, s, a) /\ n = Min(Effective(s[a].requested, c), LeftFor(c, s, a))
  BY DEF Grants, PlanAdmission
<1>2. /\ LeftFor(c, s, a) = Max(0, c - Cardinality(TakenUnits(c, s, a)))
      /\ Cardinality(TakenUnits(c, s, a)) \in Nat
  BY LeftIsUntaken, UnitsCount
<1>3. Effective(s[a].requested, c) \in Demand
  BY DemandBounds DEF Snapshots, Entry
<1>4. n > 0
  BY DEF Grants
<1> QED BY <1>1, <1>2, <1>3, <1>4, MaxDemandAssumption DEF Min, Max, Demand, Admissible

(* Whoever is behind the admitted ticket loses nothing: its grant is no    *)
(* more than what was reserved for it.                                     *)
LEMMA GrantWasReserved ==
  ASSUME NEW c \in Nat \ {0}, NEW s \in Snapshots, NEW f \in Snapshots, NEW a \in Ticket,
         NEW n, Grants(c, s, f, a, n),
         NEW u \in Ticket, u # a, s[a].seq < s[u].seq
  PROVE  TakenUnits(c, f, u) \subseteq TakenUnits(c, s, u)
<1>1. /\ s[a].state = "queued" /\ n \in Demand /\ n <= Effective(s[a].requested, c)
  BY GrantedShare
<1>2. n \in Nat /\ Effective(s[a].requested, c) \in Nat
  BY <1>1, DemandBounds, MaxDemandAssumption DEF Demand, Snapshots, Entry
<1>3. ASSUME NEW x \in GrantedUnits(f) PROVE x \in TakenUnits(c, s, u)
  <2>1. /\ x \in Unit /\ x[1] \in Ticket /\ x[2] \in Nat
        /\ f[x[1]].state = "running" /\ x[2] <= f[x[1]].granted
    BY <1>3, MaxDemandAssumption DEF GrantedUnits, Unit, Demand
  <2>2. CASE x[1] = a
    <3>1. x[2] <= Effective(s[a].requested, c)
      BY <1>1, <1>2, <2>1, <2>2 DEF Grants
    <3> QED BY <1>1, <2>1, <2>2, <3>1 DEF TakenUnits, ReservedUnits, Ahead
  <2>3. CASE x[1] # a
    BY <2>1, <2>3 DEF Grants, TakenUnits, GrantedUnits
  <2> QED BY <2>2, <2>3
<1>4. ASSUME NEW x \in ReservedUnits(c, f, u) PROVE x \in TakenUnits(c, s, u)
  <2>1. /\ x \in Unit /\ x[1] \in Ticket
        /\ f[x[1]].state = "queued" /\ f[x[1]].seq < f[u].seq
        /\ x[2] <= Effective(f[x[1]].requested, c)
    BY <1>4 DEF ReservedUnits, Ahead, Unit
  <2>2. x[1] # a /\ f[x[1]] = s[x[1]] /\ f[u] = s[u]
    BY <2>1 DEF Grants
  <2> QED BY <2>1, <2>2 DEF TakenUnits, ReservedUnits, Ahead
<1> QED BY <1>3, <1>4 DEF TakenUnits

(* Whoever is ahead of it keeps all it asked for: the walk had handed that *)
(* out before it came to the admitted ticket.                              *)
LEMMA GrantSparesAhead ==
  ASSUME NEW c \in Nat \ {0}, NEW s \in Snapshots, NEW f \in Snapshots, NEW a \in Ticket,
         NEW n, Grants(c, s, f, a, n),
         NEW u \in Ticket, s[u].state = "queued", s[u].seq < s[a].seq
  PROVE  LeftFor(c, f, u) >= Effective(s[u].requested, c)
<1> DEFINE m == Effective(s[u].requested, c)
           T == TakenUnits(c, s, u)
           mine == {u} \X (1..m)
           added == {a} \X (1..n)
<1>1. /\ s[a].state = "queued" /\ n \in Demand
      /\ Cardinality(TakenUnits(c, s, a)) + n <= c
  BY GrantedShare
<1>2. u # a /\ f[u] = s[u] /\ s[u].seq \in Nat /\ s[a].seq \in Nat
  BY DEF Grants, Snapshots, Entry
<1>3. m \in Demand /\ m \in Nat /\ n \in Nat
  BY <1>1, DemandBounds, MaxDemandAssumption DEF Demand, Snapshots, Entry
<1>4. /\ mine \in SUBSET Unit /\ IsFiniteSet(mine) /\ Cardinality(mine) = m
  BY <1>3, TicketUnits
<1>5. T \in SUBSET Unit /\ IsFiniteSet(T) /\ Cardinality(T) \in Nat
  BY LeftIsUntaken, UnitsCount
<1>6. T \cap mine = {}
  <2>1. ASSUME NEW x \in T, x[1] = u PROVE FALSE
    BY <2>1, <1>2 DEF TakenUnits, GrantedUnits, ReservedUnits, Ahead
  <2> QED BY <2>1
<1>7. T \cup mine \subseteq TakenUnits(c, s, a)
  <2>1. ASSUME NEW x \in mine PROVE x \in TakenUnits(c, s, a)
    <3>1. x \in Unit /\ x[1] = u /\ x[2] <= m
      BY <2>1, <1>3, <1>4
    <3> QED BY <3>1 DEF TakenUnits, ReservedUnits, Ahead
  <2>2. ASSUME NEW x \in T PROVE x \in TakenUnits(c, s, a)
    <3>1. CASE x \in GrantedUnits(s)
      BY <3>1 DEF TakenUnits
    <3>2. CASE x \in ReservedUnits(c, s, u)
      <4>1. /\ x \in Unit /\ x[1] \in Ticket /\ s[x[1]].state = "queued"
            /\ s[x[1]].seq < s[u].seq /\ s[x[1]].seq \in Nat
            /\ x[2] <= Effective(s[x[1]].requested, c)
        BY <3>2 DEF ReservedUnits, Ahead, Unit, Snapshots, Entry
      <4>2. s[x[1]].seq < s[a].seq
        BY <4>1, <1>2
      <4> QED BY <4>1, <4>2 DEF TakenUnits, ReservedUnits, Ahead
    <3> QED BY <2>2, <3>1, <3>2 DEF TakenUnits
  <2> QED BY <2>1, <2>2
<1>8. Cardinality(T \cup mine) = Cardinality(T) + m
  <2>1. Cardinality(T \cup mine) = Cardinality(T) + Cardinality(mine) - Cardinality(T \cap mine)
    BY <1>4, <1>5, FS_Union
  <2>2. Cardinality(T \cap mine) = 0
    BY <1>6, FS_EmptySet
  <2> QED BY <1>3, <1>4, <1>5, <2>1, <2>2
<1>9. /\ Cardinality(T \cup mine) <= Cardinality(TakenUnits(c, s, a))
      /\ Cardinality(TakenUnits(c, s, a)) \in Nat
  <2>1. TakenUnits(c, s, a) \in SUBSET Unit
    BY LeftIsUntaken
  <2> QED BY <1>7, <2>1, FewerUnits, UnitsCount
<1>10. TakenUnits(c, f, u) \subseteq T \cup added
  <2>1. ASSUME NEW x \in GrantedUnits(f) PROVE x \in T \cup added
    <3>1. /\ x \in Unit /\ x[1] \in Ticket /\ x = <<x[1], x[2]>> /\ x[2] \in Nat /\ x[2] >= 1
          /\ f[x[1]].state = "running" /\ x[2] <= f[x[1]].granted
      BY <2>1, MaxDemandAssumption DEF GrantedUnits, Unit, Demand
    <3>2. CASE x[1] = a
      <4>1. x[2] \in 1..n
        BY <1>3, <3>1, <3>2 DEF Grants
      <4> QED BY <3>1, <3>2, <4>1
    <3>3. CASE x[1] # a
      BY <3>1, <3>3 DEF Grants, TakenUnits, GrantedUnits
    <3> QED BY <3>2, <3>3
  <2>2. ASSUME NEW x \in ReservedUnits(c, f, u) PROVE x \in T
    <3>1. /\ x \in Unit /\ x[1] \in Ticket
          /\ f[x[1]].state = "queued" /\ f[x[1]].seq < f[u].seq
          /\ x[2] <= Effective(f[x[1]].requested, c)
      BY <2>2 DEF ReservedUnits, Ahead, Unit
    <3>2. x[1] # a /\ f[x[1]] = s[x[1]]
      BY <3>1 DEF Grants
    <3> QED BY <1>2, <3>1, <3>2 DEF TakenUnits, ReservedUnits, Ahead
  <2> HIDE DEF T, added
  <2> QED BY <2>1, <2>2 DEF TakenUnits
<1>11. /\ T \cup added \in SUBSET Unit
       /\ Cardinality(T \cup added) <= Cardinality(T) + n
  BY <1>1, <1>5, AddUnits, TicketUnits
<1>12. /\ Cardinality(TakenUnits(c, f, u)) <= Cardinality(T \cup added)
       /\ Cardinality(TakenUnits(c, f, u)) \in Nat /\ Cardinality(T \cup added) \in Nat
  BY <1>10, <1>11, FewerUnits, UnitsCount
<1>13. LeftFor(c, f, u) = Max(0, c - Cardinality(TakenUnits(c, f, u)))
  BY LeftIsUntaken
<1> HIDE DEF m, T, mine, added
<1>14. LeftFor(c, f, u) >= m
  BY <1>1, <1>3, <1>5, <1>8, <1>9, <1>11, <1>12, <1>13 DEF Max
<1> QED BY <1>14 DEF m

LEMMA GrantSparesPlans ==
  ASSUME NEW c \in Nat \ {0}, NEW s \in Snapshots, NEW f \in Snapshots, NEW a \in Ticket,
         NEW n, Grants(c, s, f, a, n),
         \A u \in Ticket : s[u].state = "queued" /\ s[u].seq = s[a].seq => u = a,
         NEW t \in Ticket, f[t].state = "queued"
  PROVE  PlanAdmission(c, f, t) >= PlanAdmission(c, s, t)
<1>1. t # a /\ f[t] = s[t]
  BY DEF Grants
<1>2. ASSUME NEW u \in Ahead(f, t) \cup {t}
      PROVE  u \in Ticket /\ u # a /\ f[u] = s[u] /\ s[u].state = "queued"
             /\ u \in Ahead(s, t) \cup {t}
  BY <1>1 DEF Ahead, Grants
<1>3. ASSUME NEW u \in Ahead(f, t) \cup {t}
      PROVE  SameDemand(s, f, u) /\ Share(c, f, u) >= Share(c, s, u)
  <2>1. u \in Ticket /\ u # a /\ f[u] = s[u] /\ s[u].state = "queued"
    BY <1>2
  <2>2. s[u].seq \in Nat /\ s[a].seq \in Nat /\ s[u].seq # s[a].seq
    BY <2>1 DEF Snapshots, Entry
  <2>3. ASSUME s[a].seq < s[u].seq PROVE Share(c, f, u) >= Share(c, s, u)
    <3>1. TakenUnits(c, f, u) \subseteq TakenUnits(c, s, u)
      BY <2>1, <2>3, GrantWasReserved
    <3> QED BY <2>1, <3>1, ShareGrows
  <2>4. ASSUME s[u].seq < s[a].seq PROVE Share(c, f, u) >= Share(c, s, u)
    <3>1. LeftFor(c, f, u) >= Effective(s[u].requested, c)
      BY <2>1, <2>4, GrantSparesAhead
    <3>2. LeftFor(c, f, u) \in Nat /\ LeftFor(c, s, u) \in Nat
      BY <2>1, LeftIsUntaken
    <3>3. Effective(s[u].requested, c) \in Nat
      BY <2>1, DemandBounds, MaxDemandAssumption DEF Demand, Snapshots, Entry
    <3> QED BY <2>1, <3>1, <3>2, <3>3 DEF Share, Min
  <2>5. Share(c, f, u) >= Share(c, s, u)
    BY <2>2, <2>3, <2>4
  <2> QED BY <2>1, <2>5 DEF SameDemand
<1>4. \A u \in Ticket : ValidRecord(s[u])
  BY DEF Grants
<1> QED BY <1>1, <1>2, <1>3, <1>4, PlanGrows

LEMMA GrantWaitsAhead ==
  ASSUME NEW c \in Nat \ {0}, NEW s \in Snapshots, NEW f \in Snapshots, NEW a \in Ticket,
         NEW n, Grants(c, s, f, a, n),
         NEW t \in Ticket, f[t].state = "queued", s[t].seq < s[a].seq
  PROVE  PlanAdmission(c, f, t) > 0
<1>1. t # a /\ f[t] = s[t] /\ s[t].seq \in Nat /\ s[a].seq \in Nat
  BY DEF Grants, Snapshots, Entry
<1>2. ASSUME NEW u \in Ahead(f, t) \cup {t}
      PROVE  /\ u \in Ticket /\ f[u] = s[u]
             /\ LeftFor(c, f, u) >= Effective(s[u].requested, c)
  <2>1. u \in Ticket /\ u # a /\ f[u] = s[u] /\ s[u].state = "queued"
    BY <1>1 DEF Ahead, Grants
  <2>2. s[u].seq <= s[t].seq /\ s[u].seq \in Nat
    BY <1>1, <2>1 DEF Ahead, Snapshots, Entry
  <2> QED BY <1>1, <2>1, <2>2, GrantSparesAhead
<1>3. ASSUME NEW u \in Ahead(f, t) \cup {t} PROVE Fits(c, f, u)
  <2>1. u \in Ticket /\ f[u] = s[u] /\ LeftFor(c, f, u) >= Effective(s[u].requested, c)
    BY <1>2
  <2>2. /\ s[u].requested \in Demand /\ s[u].minimum \in Demand
        /\ s[u].minimum <= s[u].requested
    BY <2>1 DEF Grants, ValidRecord, Snapshots, Entry
  <2>5. /\ Effective(s[u].requested, c) \in Demand /\ Effective(s[u].minimum, c) \in Demand
        /\ Effective(s[u].minimum, c) <= Effective(s[u].requested, c)
    BY <2>2, DemandBounds, DemandsOrdered
  <2>3. /\ Effective(s[u].minimum, c) <= Effective(s[u].requested, c)
        /\ Effective(s[u].minimum, c) \in Nat /\ Effective(s[u].requested, c) \in Nat
    BY <2>5, MaxDemandAssumption DEF Demand
  <2>4. LeftFor(c, f, u) \in Nat
    BY <2>1, LeftIsUntaken
  <2> QED BY <2>1, <2>3, <2>4 DEF Fits
<1>4. Admissible(c, f, t)
  BY <1>3 DEF Admissible
<1>5. Effective(f[t].requested, c) \in Demand
  BY DemandBounds DEF Snapshots, Entry
<1>6. LeftFor(c, f, t) >= Effective(f[t].requested, c) /\ LeftFor(c, f, t) \in Nat
  BY <1>1, <1>2, LeftIsUntaken
<1> QED BY <1>4, <1>5, <1>6, MaxDemandAssumption DEF PlanAdmission, Min, Demand

-----------------------------------------------------------------------------
(* What a step may do to the records.                                      *)
Fades(e, f) == \A t \in Ticket : f[t].state = "absent" \/ Kept(e, f, t)

Quiet == Fades(entries, entries') /\ next_seq' = next_seq

Arrives(a) ==
    /\ entries[a].state = "absent"
    /\ entries'[a].state = "queued" /\ entries'[a].seq = next_seq
    /\ next_seq' = next_seq + 1
    /\ \A t \in Ticket \ {a} : entries'[t].state = "absent" \/ Kept(entries, entries', t)

Admits(a) ==
    /\ next_seq' = next_seq /\ entries'[a].seq = entries[a].seq
    /\ \E D \in SUBSET Ticket :
         /\ a \notin D
         /\ Grants(Capacity[a], Swept(D), entries', a, PlanAdmission(Capacity[a], Swept(D), a))

LEMMA SweepFades ==
  ASSUME NEW D \in SUBSET Ticket
  PROVE  Fades(entries, Swept(D))
BY DEF Fades, Swept, Absent, Kept, SameDemand

LEMMA StepKinds ==
  ASSUME DispatchInvariant, [Next]_vars
  PROVE  Quiet \/ (\E a \in Ticket : Arrives(a)) \/ (\E a \in Ticket : Admits(a))
<1>1. CASE UNCHANGED <<entries, next_seq>>
  BY <1>1 DEF Quiet, Fades, Kept, SameDemand
<1>2. ASSUME NEW t \in Ticket, Enqueue(t) PROVE Arrives(t)
  <2>1. PICK d \in Demands :
          entries' = [Swept(Reclaimed({})) EXCEPT ![t] =
                       [state |-> "queued", seq |-> next_seq, requested |-> d.requested,
                        minimum |-> d.minimum, granted |-> 0, supervised |-> TRUE, age |-> 0]]
    BY <1>2 DEF Enqueue
  <2>2. entries[t].state = "absent" /\ next_seq' = next_seq + 1
    BY <1>2 DEF Enqueue, DispatchInvariant, NotYetRegistered
  <2>3. /\ entries'[t].state = "queued" /\ entries'[t].seq = next_seq
        /\ \A u \in Ticket \ {t} : entries'[u] = Swept(Reclaimed({}))[u]
    BY <2>1 DEF Swept
  <2>4. Fades(entries, Swept(Reclaimed({})))
    BY SweepFades DEF Reclaimed
  <2> QED BY <2>2, <2>3, <2>4 DEF Arrives, Fades, Kept, SameDemand
<1>3. ASSUME NEW t \in Ticket, TryAdmit(t) PROVE Quiet \/ Admits(t)
  <2> DEFINE D == Reclaimed({t})
             n == PlanAdmission(Capacity[t], Swept(D), t)
  <2>1. D \in SUBSET Ticket /\ t \notin D
    BY DEF Reclaimed
  <2>2. CASE entries' = Swept(D)
    BY <1>3, <2>1, <2>2, SweepFades DEF TryAdmit, Quiet
  <2>3. CASE n > 0 /\ entries' = [Swept(D) EXCEPT ![t] = Granted(@, n)]
    <3>1. /\ entries'[t] = Granted(Swept(D)[t], n)
          /\ \A u \in Ticket \ {t} : entries'[u] = Swept(D)[u]
      BY <2>3 DEF Swept
    <3>2. Swept(D)[t] = entries[t]
      BY <2>1 DEF Swept
    <3>3. /\ entries'[t].state = "running" /\ entries'[t].granted = n
          /\ entries'[t].seq = entries[t].seq
      BY <3>1, <3>2 DEF Granted
    <3>4. \A u \in Ticket : ValidRecord(Swept(D)[u])
      BY <2>1, SweepTyped DEF DispatchInvariant
    <3>5. Grants(Capacity[t], Swept(D), entries', t, n)
      BY <2>3, <3>1, <3>3, <3>4 DEF Grants
    <3>6. next_seq' = next_seq
      BY <1>3 DEF TryAdmit
    <3> QED BY <2>1, <3>3, <3>5, <3>6 DEF Admits
  <2> QED BY <1>3, <2>2, <2>3 DEF TryAdmit
<1>4. ASSUME NEW t \in Ticket, Settle(t) PROVE Quiet
  <2>1. /\ next_seq' = next_seq
        /\ \/ entries' = entries
           \/ entries' = [entries EXCEPT ![t] = Absent]
           \/ entries' = [entries EXCEPT ![t] = Orphaned(@)]
    BY <1>4 DEF Settle
  <2>2. entries \in [Ticket -> Entry(StaleAfter)]
    BY DEF DispatchInvariant, TypeOK
  <2>3. \A u \in Ticket \ {t} : entries'[u] = entries[u]
    BY <2>1, <2>2
  <2>4. entries'[t] \in {entries[t], Absent, Orphaned(entries[t])}
    BY <2>1, <2>2
  <2>5. entries'[t].state = "absent" \/ Kept(entries, entries', t)
    BY <2>4 DEF Absent, Orphaned, Kept, SameDemand
  <2> QED BY <2>1, <2>3, <2>5 DEF Quiet, Fades, Kept, SameDemand
<1>5. CASE Snapshot
  <2>1. Reclaimed({}) \in SUBSET Ticket
    BY DEF Reclaimed
  <2> QED BY <1>5, <2>1, SweepFades DEF Snapshot, Quiet
<1>6. CASE Tick
  <2>1. ASSUME NEW u \in Ticket PROVE Kept(entries, entries', u)
    <3>1. entries[u] \in Entry(StaleAfter)
      BY DEF DispatchInvariant, TypeOK
    <3>2. entries'[u] = entries[u] \/ entries'[u] = Aged(entries[u])
      BY <1>6 DEF Tick
    <3>3. /\ Aged(entries[u]).state = entries[u].state /\ Aged(entries[u]).seq = entries[u].seq
          /\ Aged(entries[u]).requested = entries[u].requested
          /\ Aged(entries[u]).minimum = entries[u].minimum
          /\ Aged(entries[u]).granted = entries[u].granted
      BY <3>1 DEF Aged, Entry
    <3> QED BY <3>2, <3>3 DEF Kept, SameDemand
  <2> QED BY <1>6, <2>1 DEF Tick, Quiet, Fades
<1>7. ASSUME NEW t \in Ticket,
         \/ OpenLease(t) \/ EnqueueFails(t) \/ TryAdmitFails(t) \/ GiveUp(t) \/ Spawn(t)
         \/ ForwardSignals(t) \/ WaitReturns(t) \/ CloseLease(t) \/ SettleFails(t)
         \/ Kill(t) \/ CommandForks(t) \/ CommandExits(t) \/ DescendantExits(t)
      PROVE  UNCHANGED <<entries, next_seq>>
  BY <1>7 DEF OpenLease, EnqueueFails, TryAdmitFails, GiveUp, Spawn, ForwardSignals,
       WaitReturns, CloseLease, SettleFails, Kill, CommandForks, CommandExits,
       DescendantExits, LedgerFails, ledger
<1>8. CASE UNCHANGED vars
  BY <1>1, <1>8 DEF vars
<1> QED BY <1>1, <1>2, <1>3, <1>4, <1>5, <1>6, <1>7, <1>8 DEF Next, Supervise, Work

-----------------------------------------------------------------------------
(* Sequence numbers: every record has one of its own, below the next one.  *)
QueueOrdered ==
    \A t \in Ticket : entries[t].state # "absent" =>
      /\ entries[t].seq < next_seq
      /\ \A u \in Ticket : entries[u].state # "absent" /\ entries[u].seq = entries[t].seq
                             => u = t

LEMMA OrderStep ==
  ASSUME DispatchInvariant, DispatchInvariant', QueueOrdered, [Next]_vars
  PROVE  QueueOrdered'
<1>1. /\ \A t \in Ticket : entries[t].seq \in Nat /\ entries'[t].seq \in Nat
      /\ next_seq \in Nat /\ next_seq' \in Nat
  BY DEF DispatchInvariant, TypeOK, Entry
<1>2. CASE Quiet
  <2>1. ASSUME NEW t \in Ticket, entries'[t].state # "absent"
        PROVE  entries[t].state # "absent" /\ entries'[t].seq = entries[t].seq
    BY <1>2, <2>1 DEF Quiet, Fades, Kept, SameDemand
  <2>2. next_seq' = next_seq
    BY <1>2 DEF Quiet
  <2> QED BY <2>1, <2>2 DEF QueueOrdered
<1>3. ASSUME NEW a \in Ticket, Arrives(a) PROVE QueueOrdered'
  <2>1. ASSUME NEW t \in Ticket \ {a}, entries'[t].state # "absent"
        PROVE  /\ entries[t].state # "absent" /\ entries'[t].seq = entries[t].seq
               /\ entries'[t].seq < next_seq
    BY <1>3, <2>1 DEF Arrives, Kept, SameDemand, QueueOrdered
  <2>2. entries'[a].seq = next_seq /\ next_seq' = next_seq + 1
    BY <1>3 DEF Arrives
  <2>3. ASSUME NEW t \in Ticket, entries'[t].state # "absent"
        PROVE  entries'[t].seq < next_seq'
    <3>1. CASE t = a
      BY <1>1, <2>2, <3>1
    <3>2. CASE t # a
      <4>1. entries'[t].seq < next_seq
        BY <2>1, <2>3, <3>2
      <4> QED BY <1>1, <2>2, <4>1
    <3> QED BY <3>1, <3>2
  <2>4. ASSUME NEW t \in Ticket, entries'[t].state # "absent",
               NEW u \in Ticket, entries'[u].state # "absent", entries'[u].seq = entries'[t].seq
        PROVE  u = t
    <3>1. CASE t = a /\ u # a
      <4>1. entries'[u].seq < next_seq
        BY <2>1, <2>4, <3>1
      <4> QED BY <1>1, <2>2, <2>4, <3>1, <4>1
    <3>2. CASE u = a /\ t # a
      <4>1. entries'[t].seq < next_seq
        BY <2>1, <2>4, <3>2
      <4> QED BY <1>1, <2>2, <2>4, <3>2, <4>1
    <3>3. CASE t # a /\ u # a
      BY <2>1, <2>4, <3>3 DEF QueueOrdered
    <3> QED BY <3>1, <3>2, <3>3
  <2> QED BY <2>3, <2>4 DEF QueueOrdered
<1>4. ASSUME NEW a \in Ticket, Admits(a) PROVE QueueOrdered'
  <2>1. PICK D \in SUBSET Ticket :
          /\ a \notin D
          /\ Grants(Capacity[a], Swept(D), entries', a, PlanAdmission(Capacity[a], Swept(D), a))
    BY <1>4 DEF Admits
  <2>2. next_seq' = next_seq /\ entries'[a].seq = entries[a].seq
    BY <1>4 DEF Admits
  <2>3. Swept(D)[a] = entries[a] /\ Swept(D)[a].state = "queued"
    BY <2>1 DEF Swept, Grants, PlanAdmission, Admissible
  <2>4. ASSUME NEW t \in Ticket, entries'[t].state # "absent"
        PROVE  entries[t].state # "absent" /\ entries'[t].seq = entries[t].seq
    <3>1. CASE t = a
      BY <2>2, <2>3, <3>1
    <3>2. CASE t # a
      BY <2>1, <2>4, <3>2 DEF Grants, Swept, Absent
    <3> QED BY <3>1, <3>2
  <2> QED BY <2>2, <2>4 DEF QueueOrdered
<1> QED BY <1>2, <1>3, <1>4, StepKinds

LEMMA OrderHolds == Spec => [](DispatchInvariant /\ QueueOrdered)
<1>1. Init => DispatchInvariant /\ QueueOrdered
  BY InitInvariant DEF Init, QueueOrdered, Absent
<1>2. DispatchInvariant /\ QueueOrdered /\ [Next]_vars => (DispatchInvariant /\ QueueOrdered)'
  BY NextInvariant, OrderStep
<1> QED BY <1>1, <1>2, PTL DEF Spec

LEMMA PlanStep ==
  ASSUME SameCapacity, DispatchInvariant, DispatchInvariant', QueueOrdered, [Next]_vars,
         NEW t \in Ticket, Queued(t), Queued(t)'
  PROVE  PlanAdmission(Capacity[t], entries', t) >= PlanAdmission(Capacity[t], entries, t)
<1>0. PICK e, f : e = entries /\ f = entries'
  OBVIOUS
<1>1. /\ e \in Snapshots /\ f \in Snapshots /\ \A u \in Ticket : ValidRecord(e[u])
      /\ e[t].state = "queued" /\ f[t].state = "queued"
  BY <1>0 DEF DispatchInvariant, TypeOK, Snapshots, Queued
<1>2. PICK c \in Nat \ {0} : c = Capacity[t]
  BY CapacityAssumption
<1>3. PlanAdmission(c, e, t) \in Nat /\ PlanAdmission(c, f, t) \in Nat
  BY <1>1, GrantFits, MaxDemandAssumption
<1>4. CASE Quiet
  <2>1. \A u \in Ticket : f[u].state = "absent" \/ Kept(e, f, u)
    BY <1>0, <1>4 DEF Quiet, Fades
  <2>2. Kept(e, f, t)
    BY <1>1, <2>1
  <2>3. PlanAdmission(c, f, t) >= PlanAdmission(c, e, t)
    BY <1>1, <2>1, <2>2, NobodyComesAhead
  <2> QED BY <1>0, <1>2, <2>3
<1>5. ASSUME NEW a \in Ticket, Arrives(a)
      PROVE  PlanAdmission(Capacity[t], entries', t) >= PlanAdmission(Capacity[t], entries, t)
  <2>1. /\ e[a].state = "absent" /\ f[a].state = "queued" /\ f[a].seq = next_seq
        /\ \A u \in Ticket \ {a} : f[u].state = "absent" \/ Kept(e, f, u)
    BY <1>0, <1>5 DEF Arrives
  <2>2. t # a /\ Kept(e, f, t)
    BY <1>1, <2>1
  <2>3. f[t].seq \in Nat /\ next_seq \in Nat /\ f[t].seq < next_seq
    BY <1>0, <1>1, <2>2 DEF QueueOrdered, Kept, SameDemand, Snapshots, Entry,
       DispatchInvariant, TypeOK
  <2>4. \A u \in Ticket : \/ f[u].state = "absent" \/ Kept(e, f, u)
                          \/ f[u].state = "queued" /\ f[u].seq >= f[t].seq
    BY <2>1, <2>3
  <2>5. PlanAdmission(c, f, t) >= PlanAdmission(c, e, t)
    BY <1>1, <2>2, <2>4, NobodyComesAhead
  <2> QED BY <1>0, <1>2, <2>5
<1>6. ASSUME NEW a \in Ticket, Admits(a)
      PROVE  PlanAdmission(Capacity[t], entries', t) >= PlanAdmission(Capacity[t], entries, t)
  <2>1. PICK D \in SUBSET Ticket :
          /\ a \notin D
          /\ Grants(Capacity[a], Swept(D), entries', a, PlanAdmission(Capacity[a], Swept(D), a))
    BY <1>6 DEF Admits
  <2>2. PICK s, n : s = Swept(D) /\ n = PlanAdmission(Capacity[a], Swept(D), a)
    OBVIOUS
  <2>3. Capacity[a] = c
    BY <1>2 DEF SameCapacity
  <2>4. Grants(c, s, f, a, n)
    BY <1>0, <2>1, <2>2, <2>3
  <2>5. s \in Snapshots
    BY <2>2, SweepTyped DEF DispatchInvariant
  <2>6. Fades(e, s)
    BY <1>0, <2>2, SweepFades
  <2>7. f[t] = s[t] /\ s[t].state = "queued" /\ Kept(e, s, t)
    BY <1>1, <2>4, <2>6 DEF Grants, Fades
  <2>8. PlanAdmission(c, s, t) >= PlanAdmission(c, e, t)
    BY <1>1, <2>5, <2>6, <2>7, NobodyComesAhead DEF Fades
  <2>9. \A u \in Ticket : s[u].state = "queued" /\ s[u].seq = s[a].seq => u = a
    <3>1. s[a].state = "queued"
      BY <1>1, <2>4, <2>5, GrantedShare
    <3>2. \A u \in Ticket : s[u].state = "queued" =>
            entries[u].state = "queued" /\ s[u].seq = entries[u].seq
      BY <2>2 DEF Swept, Absent
    <3> QED BY <3>1, <3>2 DEF QueueOrdered
  <2>10. PlanAdmission(c, f, t) >= PlanAdmission(c, s, t)
    BY <1>1, <2>4, <2>5, <2>9, GrantSparesPlans
  <2>11. PlanAdmission(c, s, t) \in Nat
    BY <2>5, GrantFits, MaxDemandAssumption
  <2>12. PlanAdmission(c, f, t) >= PlanAdmission(c, e, t)
    BY <1>3, <2>8, <2>10, <2>11
  <2> QED BY <1>0, <1>2, <2>12
<1> QED BY <1>4, <1>5, <1>6, StepKinds

(* A queued record becomes a running one only by its own admission, and    *)
(* whoever is ahead of it stays able to be granted.                        *)
LEMMA OvertakeStep ==
  ASSUME SameCapacity, DispatchInvariant, DispatchInvariant', [Next]_vars,
         NEW t \in Ticket, NEW u \in Ticket, Queued(t), Running(t)',
         Queued(u), entries[u].seq < entries[t].seq, Queued(u)'
  PROVE  PlanAdmission(Capacity[u], entries', u) > 0
<1>0. PICK f : f = entries'
  OBVIOUS
<1>1. f \in Snapshots /\ f[t].state = "running" /\ f[u].state = "queued"
  BY <1>0 DEF DispatchInvariant, TypeOK, Snapshots, Queued, Running
<1>2. entries[t].state = "queued"
  BY DEF Queued
<1>3. ~Quiet
  BY <1>0, <1>1, <1>2 DEF Quiet, Fades, Kept, SameDemand
<1>4. ASSUME NEW a \in Ticket, Arrives(a) PROVE FALSE
  <2>1. t # a
    BY <1>2, <1>4 DEF Arrives
  <2> QED BY <1>0, <1>1, <1>2, <1>4, <2>1 DEF Arrives, Kept, SameDemand
<1>5. PICK a \in Ticket : Admits(a)
  BY <1>3, <1>4, StepKinds
<1>6. PICK D \in SUBSET Ticket :
        /\ a \notin D
        /\ Grants(Capacity[a], Swept(D), entries', a, PlanAdmission(Capacity[a], Swept(D), a))
  BY <1>5 DEF Admits
<1>7. PICK s, n, c : /\ s = Swept(D) /\ n = PlanAdmission(Capacity[a], Swept(D), a)
                     /\ c = Capacity[a]
  OBVIOUS
<1>8. c \in Nat \ {0} /\ c = Capacity[u]
  BY <1>7, CapacityAssumption DEF SameCapacity
<1>9. s \in Snapshots /\ Grants(c, s, f, a, n)
  BY <1>0, <1>6, <1>7, SweepTyped DEF DispatchInvariant
<1>10. t = a
  <2>1. ASSUME t # a PROVE FALSE
    <3>1. s[t].state = "running"
      BY <1>1, <1>9, <2>1 DEF Grants
    <3> QED BY <1>2, <1>7, <3>1 DEF Swept, Absent
  <2> QED BY <2>1
<1>11. u # a /\ s[u] = f[u] /\ s[u] = entries[u] /\ s[a] = entries[a]
  <2>1. u # a /\ s[u] = f[u]
    BY <1>1, <1>9 DEF Grants
  <2>2. u \notin D
    BY <1>1, <1>7, <2>1 DEF Swept, Absent
  <2> QED BY <1>6, <1>7, <2>1, <2>2 DEF Swept
<1>12. s[u].seq < s[a].seq
  BY <1>10, <1>11
<1>13. PlanAdmission(c, f, u) > 0
  BY <1>1, <1>8, <1>9, <1>12, GrantWaitsAhead
<1> QED BY <1>0, <1>8, <1>13

(* While a ticket waits, what a poll would grant it never shrinks, as long *)
(* as the processes of the host read one capacity (plan_admission).        *)
THEOREM PlansNeverShrinkHolds == ASSUME SameCapacity PROVE Spec => PlansNeverShrink
<1>1. ASSUME DispatchInvariant, DispatchInvariant', QueueOrdered, [Next]_vars
      PROVE  \A t \in Ticket :
               (Queued(t) /\ Queued(t)')
                 => PlanAdmission(Capacity[t], entries', t)
                      >= PlanAdmission(Capacity[t], entries, t)
  BY <1>1, PlanStep
<1> QED BY <1>1, OrderHolds, PTL DEF Spec, PlansNeverShrink

(* Nobody is admitted past a waiting ticket that does not fit.             *)
THEOREM NoOvertakingHolds == ASSUME SameCapacity PROVE Spec => NoOvertaking
<1>1. ASSUME DispatchInvariant, DispatchInvariant', [Next]_vars
      PROVE  \A t, u \in Ticket :
               (/\ Queued(t) /\ Running(t)'
                /\ Queued(u) /\ entries[u].seq < entries[t].seq /\ Queued(u)')
                 => PlanAdmission(Capacity[u], entries', u) > 0
  BY <1>1, OvertakeStep
<1> QED BY <1>1, DispatchInvariantHolds, PTL DEF Spec, NoOvertaking

-----------------------------------------------------------------------------
(* The walk.  It is a recursive function, so that it has a value for every *)
(* ledger, and that this value is the closed form, are shown by induction  *)
(* on the number of entries it has not visited.  Induction is stated about *)
(* a set of numbers and follows from counting: a hole in the set would     *)
(* make n |-> n + 1 an injection of the numbers below it into fewer.       *)

LEMMA SetInduction ==
  ASSUME NEW P, 0 \in P, \A n \in Nat : n \in P => n + 1 \in P
  PROVE  Nat \subseteq P
<1> SUFFICES ASSUME NEW m \in Nat, m \notin P PROVE FALSE
  OBVIOUS
<1> DEFINE A == P \cap (0..m)
           f == [n \in A |-> n + 1]
<1>1. IsFiniteSet(A) /\ Cardinality(A) \in Nat /\ 0 \in A
  <2>1. IsFiniteSet(0..m)
    BY FS_Interval
  <2>2. IsFiniteSet(A)
    BY <2>1, FS_Subset
  <2> QED BY <2>2, FS_CardinalityType
<1>2. IsFiniteSet(A \ {0}) /\ Cardinality(A \ {0}) = Cardinality(A) - 1
  BY <1>1, FS_RemoveElement
<1>3. f \in Injection(A, A \ {0})
  <2>1. \A n \in A : n \in Nat /\ n + 1 \in A \ {0}
    BY DEF A
  <2> QED BY <2>1 DEF Injection, IsInjective
<1>4. Cardinality(A) <= Cardinality(A \ {0})
  BY <1>2, <1>3, FS_Injection
<1> QED BY <1>1, <1>2, <1>4

(* The oldest of some tickets exists.                                      *)
LEMMA OldestIsFirst ==
  ASSUME NEW e \in Snapshots, NEW rest \in SUBSET Ticket, rest # {}
  PROVE  /\ Oldest(e, rest) \in rest
         /\ \A v \in rest : e[Oldest(e, rest)].seq <= e[v].seq
<1>1. \A v \in rest : e[v].seq \in Nat
  BY DEF Snapshots, Entry
<1>2. \E u \in rest : \A v \in rest : e[u].seq <= e[v].seq
  <2> SUFFICES ASSUME \A u \in rest : \E v \in rest : ~(e[u].seq <= e[v].seq)
               PROVE  FALSE
    OBVIOUS
  <2> DEFINE P == {n \in Nat : \A v \in rest : n <= e[v].seq}
  <2>1. 0 \in P
    BY <1>1
  <2>2. ASSUME NEW n \in P PROVE n + 1 \in P
    <3>1. \A v \in rest : n <= e[v].seq /\ n # e[v].seq
      BY <2>2
    <3> QED BY <1>1, <3>1
  <2>3. Nat \subseteq P
    BY <2>1, <2>2, SetInduction
  <2>4. PICK v \in rest : TRUE
    OBVIOUS
  <2>5. e[v].seq + 1 \in P
    BY <1>1, <2>3
  <2> QED BY <1>1, <2>5
<1> QED BY <1>2 DEF Oldest

(* A turn looks at the turns that follow for fewer entries only.           *)
LEMMA TurnDepends ==
  ASSUME NEW c, NEW e, NEW t, NEW g, NEW h, NEW rest,
         rest # {} => g[rest \ {Oldest(e, rest)}] = h[rest \ {Oldest(e, rest)}]
  PROVE  Turn(c, e, t, g, rest) = Turn(c, e, t, h, rest)
BY DEF Turn

(* The recursion of PlanLoop defines a function.                           *)
IsWalk(c, e, t, w) == w = [rest \in SUBSET Ticket |-> Turn(c, e, t, w, rest)]

LEMMA WalkExists ==
  ASSUME NEW c, NEW e \in Snapshots, NEW t
  PROVE  \E w : IsWalk(c, e, t, w)
<1> DEFINE Unfolds(g, n) == \A rest \in SUBSET Ticket :
                              Cardinality(rest) <= n => g[rest] = Turn(c, e, t, g, rest)
           P == {n \in Nat : \E g : Unfolds(g, n)}
           Once(g) == [rest \in SUBSET Ticket |-> Turn(c, e, t, g, rest)]
<1>1. \A rest \in SUBSET Ticket : IsFiniteSet(rest) /\ Cardinality(rest) \in Nat
  BY TicketAssumption, FS_Subset, FS_CardinalityType
<1>2. 0 \in P
  <2> DEFINE g == Once([rest \in SUBSET Ticket |-> 0])
  <2>1. ASSUME NEW rest \in SUBSET Ticket, Cardinality(rest) <= 0
        PROVE  g[rest] = Turn(c, e, t, g, rest)
    <3>1. rest = {}
      BY <1>1, <2>1, FS_EmptySet
    <3>2. g[rest] = Turn(c, e, t, [r \in SUBSET Ticket |-> 0], rest)
      OBVIOUS
    <3> QED BY <3>1, <3>2, TurnDepends
  <2>2. Unfolds(g, 0)
    BY <2>1
  <2> QED BY <2>2
<1>3. ASSUME NEW n \in P PROVE n + 1 \in P
  <2>1. PICK g : Unfolds(g, n)
    BY <1>3
  <2> DEFINE h == Once(g)
  <2>2. ASSUME NEW rest \in SUBSET Ticket, Cardinality(rest) <= n + 1
        PROVE  h[rest] = Turn(c, e, t, h, rest)
    <3>1. h[rest] = Turn(c, e, t, g, rest)
      OBVIOUS
    <3>2. ASSUME rest # {}
          PROVE  g[rest \ {Oldest(e, rest)}] = h[rest \ {Oldest(e, rest)}]
      <4> DEFINE less == rest \ {Oldest(e, rest)}
      <4>1. less \in SUBSET Ticket /\ Cardinality(less) = Cardinality(rest) - 1
        BY <1>1, <3>2, OldestIsFirst, FS_RemoveElement
      <4>2. Cardinality(less) <= n
        BY <1>1, <2>2, <4>1
      <4>3. g[less] = Turn(c, e, t, g, less)
        BY <2>1, <4>1, <4>2
      <4> QED BY <4>1, <4>3
    <3> QED BY <3>1, <3>2, TurnDepends
  <2>3. Unfolds(h, n + 1)
    BY <2>2
  <2>4. n + 1 \in Nat
    OBVIOUS
  <2> HIDE DEF h, Unfolds
  <2>5. \E k : Unfolds(k, n + 1)
    BY <2>3
  <2> QED BY <2>4, <2>5
<1>4. Cardinality(Ticket) \in Nat
  BY TicketAssumption, FS_CardinalityType
<1>5. Nat \subseteq P
  BY <1>2, <1>3, SetInduction
<1>6. PICK g : Unfolds(g, Cardinality(Ticket))
  BY <1>4, <1>5
<1>7. \A rest \in SUBSET Ticket : g[rest] = Turn(c, e, t, g, rest)
  <2>1. \A rest \in SUBSET Ticket : Cardinality(rest) <= Cardinality(Ticket)
    BY TicketAssumption, FS_Subset
  <2> QED BY <1>6, <2>1
<1> DEFINE w == Once(g)
<1>8. ASSUME NEW rest \in SUBSET Ticket
      PROVE  w[rest] = Turn(c, e, t, w, rest)
  <2>1. ASSUME rest # {}
        PROVE  g[rest \ {Oldest(e, rest)}] = w[rest \ {Oldest(e, rest)}]
    BY <1>7
  <2> QED BY <2>1, TurnDepends
<1>9. w = [rest \in SUBSET Ticket |-> Turn(c, e, t, w, rest)]
  BY <1>8
<1> QED BY <1>9 DEF IsWalk

LEMMA PlanLoopWalks ==
  ASSUME NEW c, NEW e \in Snapshots, NEW t
  PROVE  \E w : /\ IsWalk(c, e, t, w)
                /\ PlanLoop(c, e, t) = w[QueuedTickets(e)][RemainingCapacity(c, e)]
<1> DEFINE w == CHOOSE w : IsWalk(c, e, t, w)
<1>1. IsWalk(c, e, t, w)
  BY WalkExists
<1>2. PlanLoop(c, e, t) = w[QueuedTickets(e)][RemainingCapacity(c, e)]
  BY DEF PlanLoop, IsWalk
<1> QED BY <1>1, <1>2

(* The queue without two tickets of one sequence number.                   *)
SeqsDiffer(e) ==
    \A u, v \in QueuedTickets(e) : e[u].seq = e[v].seq => u = v

(* The walk's place: rest is what it has not visited, and everybody it has *)
(* visited is ahead of the rest and fitted.                                *)
Passed(c, e, rest) ==
    /\ rest \in SUBSET QueuedTickets(e)
    /\ \A v \in QueuedTickets(e) \ rest :
         Fits(c, e, v) /\ \A u \in rest : e[v].seq < e[u].seq

(* What is left for the oldest of the rest once u is served too.           *)
LEMMA LeftAfter ==
  ASSUME NEW c \in Nat \ {0}, NEW e \in Snapshots, NEW u \in Ticket, NEW v \in Ticket,
         e[u].state = "queued", u \notin Ahead(e, u), Ahead(e, v) = Ahead(e, u) \cup {u}
  PROVE  LeftFor(c, e, v) = LeftFor(c, e, u) - Share(c, e, u)
<1> DEFINE n == Effective(e[u].requested, c)
           U == TakenUnits(c, e, u)
           N == {u} \X (1..n)
<1>1. n \in Demand /\ n \in Nat
  BY DemandBounds, MaxDemandAssumption DEF Snapshots, Entry, Demand
<1>2. U \in SUBSET Unit /\ IsFiniteSet(U) /\ Cardinality(U) \in Nat
  BY LeftIsUntaken, UnitsCount
<1>3. N \in SUBSET Unit /\ IsFiniteSet(N) /\ Cardinality(N) = n
  BY <1>1, TicketUnits
<1>4. U \cap N = {}
  BY DEF TakenUnits, GrantedUnits, ReservedUnits
<1>5. TakenUnits(c, e, v) = U \cup N
  <2>1. ReservedUnits(c, e, v) = ReservedUnits(c, e, u) \cup N
    <3>1. ASSUME NEW x \in Unit, x[1] = u, x[2] <= n PROVE x \in N
      BY <1>1, <3>1, MaxDemandAssumption DEF Unit, Demand
    <3>2. ASSUME NEW x \in N PROVE x \in Unit /\ x[1] = u /\ x[2] <= n
      BY <1>1, <1>3, MaxDemandAssumption DEF Unit, Demand
    <3> HIDE DEF N
    <3> QED BY <3>1, <3>2 DEF ReservedUnits
  <2> QED BY <2>1 DEF TakenUnits
<1>6. Cardinality(U \cup N) = Cardinality(U) + n
  <2>1. Cardinality(U \cup N) = Cardinality(U) + Cardinality(N) - Cardinality(U \cap N)
    BY <1>2, <1>3, FS_Union
  <2>2. Cardinality(U \cap N) = 0
    BY <1>4, FS_EmptySet
  <2> QED BY <1>1, <1>2, <1>3, <2>1, <2>2
<1>7. /\ LeftFor(c, e, u) = Max(0, c - Cardinality(U))
      /\ LeftFor(c, e, v) = Max(0, c - Cardinality(U \cup N))
  <2>1. LeftFor(c, e, u) = Max(0, c - Cardinality(TakenUnits(c, e, u)))
    BY LeftIsUntaken
  <2>2. LeftFor(c, e, v) = Max(0, c - Cardinality(TakenUnits(c, e, v)))
    BY LeftIsUntaken
  <2> QED BY <1>5, <2>1, <2>2
<1>8. Share(c, e, u) = Min(n, LeftFor(c, e, u))
  BY DEF Share
<1> HIDE DEF n, U, N
<1> QED BY <1>1, <1>2, <1>6, <1>7, <1>8 DEF Max, Min

(* The walk passes an entry that fits and is not the ticket's own.         *)
LEMMA TurnPasses ==
  ASSUME NEW c \in Nat \ {0}, NEW e \in Snapshots, SeqsDiffer(e), NEW rest, Passed(c, e, rest),
         NEW u, u = Oldest(e, rest), Fits(c, e, u), NEW t \in rest, t # u
  PROVE  /\ Passed(c, e, rest \ {u})
         /\ LeftFor(c, e, Oldest(e, rest \ {u})) = LeftFor(c, e, u) - Share(c, e, u)
<1>1. /\ rest \in SUBSET Ticket /\ rest \in SUBSET QueuedTickets(e)
      /\ \A v \in QueuedTickets(e) : v \in Ticket /\ e[v].state = "queued" /\ e[v].seq \in Nat
  BY DEF Passed, QueuedTickets, Snapshots, Entry
<1>2. u \in rest /\ \A v \in rest : e[u].seq <= e[v].seq
  BY <1>1, OldestIsFirst
<1>3. \A v \in rest \ {u} : e[u].seq < e[v].seq
  BY <1>1, <1>2 DEF SeqsDiffer
<1>4. Passed(c, e, rest \ {u})
  BY <1>2, <1>3 DEF Passed
<1> DEFINE v == Oldest(e, rest \ {u})
<1>5. v \in rest \ {u} /\ \A x \in rest \ {u} : e[v].seq <= e[x].seq
  BY <1>1, OldestIsFirst
<1>6. Ahead(e, u) = QueuedTickets(e) \ rest
  BY <1>1, <1>2 DEF Ahead, Passed, QueuedTickets
<1>7. Ahead(e, v) = (QueuedTickets(e) \ rest) \cup {u}
  <2>1. ASSUME NEW x \in QueuedTickets(e)
        PROVE  e[x].seq < e[v].seq <=> x \notin rest \ {u}
    <3>1. CASE x \in rest \ {u}
      <4>1. e[v].seq <= e[x].seq
        BY <1>5, <3>1
      <4>2. e[v].seq \in Nat /\ e[x].seq \in Nat
        BY <1>1, <1>5
      <4> HIDE DEF v
      <4> QED BY <3>1, <4>1, <4>2
    <3>2. CASE x \notin rest \ {u}
      BY <1>2, <1>3, <1>5, <3>2 DEF Passed
    <3> QED BY <3>1, <3>2
  <2>2. Ahead(e, v) = {x \in QueuedTickets(e) : e[x].seq < e[v].seq}
    BY DEF Ahead, QueuedTickets
  <2> HIDE DEF v
  <2> QED BY <1>1, <1>2, <2>1, <2>2
<1>8. /\ u \in Ticket /\ v \in Ticket /\ e[u].state = "queued"
      /\ u \notin Ahead(e, u) /\ Ahead(e, v) = Ahead(e, u) \cup {u}
  BY <1>1, <1>2, <1>5, <1>6, <1>7
<1>9. LeftFor(c, e, v) = LeftFor(c, e, u) - Share(c, e, u)
  BY <1>8, LeftAfter
<1> QED BY <1>4, <1>9

(* From its place the walk grants what the closed form grants.             *)
LEMMA WalkGrants ==
  ASSUME NEW c \in Nat \ {0}, NEW e \in Snapshots, SeqsDiffer(e), NEW w, NEW t, IsWalk(c, e, t, w),
         NEW rest, Passed(c, e, rest), t \in rest
  PROVE  w[rest][LeftFor(c, e, Oldest(e, rest))] = PlanAdmission(c, e, t)
<1> DEFINE Agrees(r) == w[r][LeftFor(c, e, Oldest(e, r))] = PlanAdmission(c, e, t)
           P == {n \in Nat : \A r : Passed(c, e, r) /\ t \in r /\ Cardinality(r) <= n => Agrees(r)}
<1>1. \A r : Passed(c, e, r) => /\ r \in SUBSET Ticket /\ r \in SUBSET QueuedTickets(e)
                                /\ IsFiniteSet(r) /\ Cardinality(r) \in Nat
  BY TicketAssumption, FS_Subset, FS_CardinalityType DEF Passed, QueuedTickets
<1>2. 0 \in P
  <2>1. \A r : Passed(c, e, r) /\ Cardinality(r) <= 0 => r = {}
    BY <1>1, FS_EmptySet
  <2> QED BY <2>1
<1>3. ASSUME NEW n \in P PROVE n + 1 \in P
  <2>1. ASSUME NEW r, Passed(c, e, r), t \in r, Cardinality(r) <= n + 1 PROVE Agrees(r)
    <3>1. PICK u : u = Oldest(e, r)
      OBVIOUS
    <3>2. /\ r \in SUBSET Ticket /\ u \in r /\ e[u].state = "queued"
          /\ \A v \in r : e[u].seq <= e[v].seq
      BY <1>1, <2>1, <3>1, OldestIsFirst DEF QueuedTickets
    <3>3. PICK left : left = LeftFor(c, e, u)
      OBVIOUS
    <3>4. left \in 0..c
      <4>1. left \in Nat /\ left = Max(0, c - Cardinality(TakenUnits(c, e, u)))
        BY <3>2, <3>3, LeftIsUntaken
      <4>2. Cardinality(TakenUnits(c, e, u)) \in Nat
        BY <3>2, LeftIsUntaken, UnitsCount
      <4> QED BY <4>1, <4>2 DEF Max
    <3>5. Effective(e[u].minimum, c) \in Nat
      <4>1. e[u].minimum \in Demand
        BY <3>2 DEF Snapshots, Entry
      <4> QED BY <4>1, DemandBounds, MaxDemandAssumption DEF Demand
    <3>6. Fits(c, e, u) = ~Blocked(c, e, u, left)
      BY <3>3, <3>4, <3>5 DEF Fits, Blocked
    <3>7. w[r] = Turn(c, e, t, w, r)
      BY <3>2 DEF IsWalk
    <3>8. w[r][left] = IF Blocked(c, e, u, left) THEN 0
                       ELSE IF u = t THEN Share(c, e, u)
                       ELSE w[r \ {u}][left - Share(c, e, u)]
      <4>1. Share(c, e, u) = Min(Effective(e[u].requested, c), left)
        BY <3>3 DEF Share
      <4>2. r # {}
        BY <2>1
      <4> QED BY <3>1, <3>4, <3>7, <4>1, <4>2 DEF Turn
    <3>9. t \in Ticket /\ e[t].state = "queued" /\ e[t].seq \in Nat /\ e[u].seq \in Nat
      BY <1>1, <2>1, <3>2 DEF QueuedTickets, Snapshots, Entry
    <3>10. CASE ~Fits(c, e, u)
      <4>1. u = t \/ u \in Ahead(e, t)
        <5>1. e[u].seq = e[t].seq => u = t
          BY <1>1, <2>1, <3>2 DEF SeqsDiffer
        <5> QED BY <2>1, <3>2, <3>9, <5>1 DEF Ahead
      <4>2. PlanAdmission(c, e, t) = 0
        BY <3>10, <4>1 DEF PlanAdmission, Admissible
      <4> QED BY <3>1, <3>3, <3>6, <3>8, <3>10, <4>2
    <3>11. CASE Fits(c, e, u) /\ u = t
      <4>1. Ahead(e, t) \subseteq QueuedTickets(e) \ r
        BY <3>2, <3>9, <3>11, <1>1, <2>1 DEF Ahead, QueuedTickets, Snapshots, Entry
      <4>2. Admissible(c, e, t)
        BY <2>1, <3>9, <3>11, <4>1 DEF Admissible, Passed
      <4>3. PlanAdmission(c, e, t) = Share(c, e, t)
        BY <4>2 DEF PlanAdmission, Share
      <4> QED BY <3>1, <3>3, <3>6, <3>8, <3>11, <4>3
    <3>12. CASE Fits(c, e, u) /\ u # t
      <4>1. PICK less : less = r \ {u}
        OBVIOUS
      <4>2. /\ Passed(c, e, less) /\ t \in less
            /\ LeftFor(c, e, Oldest(e, less)) = left - Share(c, e, u)
        BY <2>1, <3>1, <3>3, <3>12, <4>1, TurnPasses
      <4>3. Cardinality(less) <= n
        <5>1. IsFiniteSet(r) /\ Cardinality(r) \in Nat
          BY <1>1, <2>1
        <5>2. Cardinality(less) = Cardinality(r) - 1
          BY <5>1, <3>2, <4>1, FS_RemoveElement
        <5> QED BY <5>1, <5>2, <2>1
      <4>4. w[less][LeftFor(c, e, Oldest(e, less))] = PlanAdmission(c, e, t)
        BY <1>3, <4>2, <4>3
      <4> QED BY <3>1, <3>3, <3>6, <3>8, <3>12, <4>1, <4>2, <4>4
    <3> QED BY <3>10, <3>11, <3>12
  <2> QED BY <2>1
<1>4. Nat \subseteq P
  BY <1>2, <1>3, SetInduction
<1>5. Cardinality(rest) \in P
  BY <1>1, <1>4
<1> QED BY <1>1, <1>5

(* A ticket that is not queued is granted nothing, by either.              *)
LEMMA WalkMisses ==
  ASSUME NEW c \in Nat \ {0}, NEW e \in Snapshots, NEW w, NEW t, IsWalk(c, e, t, w),
         NEW rest \in SUBSET Ticket, t \notin rest, NEW k \in 0..c
  PROVE  w[rest][k] = 0
<1> DEFINE P == {n \in Nat : \A r \in SUBSET Ticket : t \notin r /\ Cardinality(r) <= n
                               => \A left \in 0..c : w[r][left] = 0}
<1>1. \A r \in SUBSET Ticket : IsFiniteSet(r) /\ Cardinality(r) \in Nat
  BY TicketAssumption, FS_Subset, FS_CardinalityType
<1>2. \A r \in SUBSET Ticket : w[r] = Turn(c, e, t, w, r)
  BY DEF IsWalk
<1>3. \A left \in 0..c : w[{}][left] = 0
  BY <1>2 DEF Turn
<1>4. 0 \in P
  <2>1. \A r \in SUBSET Ticket : Cardinality(r) <= 0 => r = {}
    BY <1>1, FS_EmptySet
  <2> QED BY <1>3, <2>1
<1>5. ASSUME NEW n \in P PROVE n + 1 \in P
  <2>1. ASSUME NEW r \in SUBSET Ticket, t \notin r, Cardinality(r) <= n + 1, NEW left \in 0..c
        PROVE  w[r][left] = 0
    <3>1. CASE r = {}
      BY <1>3, <3>1
    <3>2. CASE r # {}
      <4>1. PICK u : u = Oldest(e, r)
        OBVIOUS
      <4>2. u \in r /\ u # t
        BY <2>1, <3>2, <4>1, OldestIsFirst
      <4>3. PICK grant : grant = Min(Effective(e[u].requested, c), left)
        OBVIOUS
      <4>4. left - grant \in 0..c
        <5>1. Effective(e[u].requested, c) \in Nat
          BY <4>2, DemandBounds, MaxDemandAssumption DEF Snapshots, Entry, Demand
        <5> QED BY <4>3, <5>1 DEF Min
      <4>5. Cardinality(r \ {u}) <= n
        <5>1. Cardinality(r \ {u}) = Cardinality(r) - 1
          BY <1>1, <4>2, FS_RemoveElement
        <5> QED BY <1>1, <2>1, <5>1
      <4>6. w[r \ {u}][left - grant] = 0
        BY <1>5, <2>1, <4>4, <4>5
      <4>7. Turn(c, e, t, w, r)[left] = IF Blocked(c, e, u, left) THEN 0
                                        ELSE w[r \ {u}][left - grant]
        BY <3>2, <4>1, <4>2, <4>3 DEF Turn
      <4>8. w[r] = Turn(c, e, t, w, r)
        BY <1>2
      <4> QED BY <4>6, <4>7, <4>8
    <3> QED BY <3>1, <3>2
  <2> QED BY <2>1
<1>6. Nat \subseteq P
  BY <1>4, <1>5, SetInduction
<1> QED BY <1>1, <1>6

(* On every ledger whose queued tickets have sequence numbers of their     *)
(* own, for every capacity and every ticket, the loop of plan_admission    *)
(* and the closed form grant the same: an entry that does not fit stops    *)
(* both, and what the loop has subtracted is what the closed form counts.  *)
THEOREM WalkAgrees ==
  ASSUME NEW c \in Nat \ {0}, NEW e \in Snapshots, SeqsDiffer(e), NEW t \in Ticket
  PROVE  PlanLoop(c, e, t) = PlanAdmission(c, e, t)
<1> DEFINE Q == QueuedTickets(e)
<1>1. PICK w : /\ IsWalk(c, e, t, w)
               /\ PlanLoop(c, e, t) = w[Q][RemainingCapacity(c, e)]
  BY PlanLoopWalks
<1>2. Q \in SUBSET Ticket
  BY DEF QueuedTickets
<1>3. CASE t \in Q
  <2>1. PICK u : u = Oldest(e, Q)
    OBVIOUS
  <2>2. u \in Q /\ \A v \in Q : e[u].seq <= e[v].seq
    BY <1>2, <1>3, <2>1, OldestIsFirst
  <2>3. Ahead(e, u) = {}
    BY <2>2 DEF Ahead, QueuedTickets, Snapshots, Entry
  <2>4. ReservedUnits(c, e, u) = {}
    BY <2>3 DEF ReservedUnits
  <2>5. LeftFor(c, e, u) = RemainingCapacity(c, e)
    <3>1. Cardinality(GrantedUnits(e)) \in Nat
      BY UnitsCount DEF GrantedUnits
    <3>2. RemainingCapacity(c, e) \in Nat
      BY <3>1 DEF RemainingCapacity, Max
    <3> QED BY <2>4, <3>2, FS_EmptySet DEF LeftFor, Max
  <2>6. Passed(c, e, Q)
    BY DEF Passed
  <2>7. w[Q][LeftFor(c, e, Oldest(e, Q))] = PlanAdmission(c, e, t)
    BY <1>1, <1>3, <2>6, WalkGrants
  <2> QED BY <1>1, <2>1, <2>5, <2>7
<1>4. CASE t \notin Q
  <2>1. RemainingCapacity(c, e) \in 0..c
    <3>1. Cardinality(GrantedUnits(e)) \in Nat
      BY UnitsCount DEF GrantedUnits
    <3> QED BY <3>1 DEF RemainingCapacity, Max
  <2>2. w[Q][RemainingCapacity(c, e)] = 0
    BY <1>1, <1>2, <1>4, <2>1, WalkMisses
  <2>3. PlanAdmission(c, e, t) = 0
    BY <1>4 DEF PlanAdmission, Admissible, QueuedTickets
  <2> QED BY <1>1, <2>2, <2>3
<1> QED BY <1>3, <1>4

(* Every poll grants what the code's walk grants, in every behaviour of    *)
(* every set of dispatches: the ledger's next_seq gives each record a      *)
(* sequence number of its own (enqueue), and a sweep changes none.         *)
THEOREM ClosedFormAgreesHolds == Spec => []ClosedFormAgrees
<1>1. DispatchInvariant /\ QueueOrdered => ClosedFormAgrees
  <2> SUFFICES ASSUME DispatchInvariant, QueueOrdered, NEW t \in Ticket,
                      NEW s, s = Swept(Reclaimed({t}))
               PROVE  PlanAdmission(Capacity[t], s, t) = PlanLoop(Capacity[t], s, t)
    BY DEF ClosedFormAgrees
  <2>1. s \in Snapshots
    BY SweepTyped DEF DispatchInvariant, Reclaimed
  <2>2. \A u \in QueuedTickets(s) : u \in Ticket /\ s[u] = entries[u] /\ entries[u].state # "absent"
    BY DEF QueuedTickets, Swept, Absent
  <2>3. SeqsDiffer(s)
    <3>1. ASSUME NEW u \in QueuedTickets(s), NEW v \in QueuedTickets(s), s[u].seq = s[v].seq
          PROVE  u = v
      <4>1. /\ u \in Ticket /\ entries[u].state # "absent" /\ s[u] = entries[u]
            /\ v \in Ticket /\ entries[v].state # "absent" /\ s[v] = entries[v]
        BY <2>2
      <4> QED BY <3>1, <4>1 DEF QueueOrdered
    <3> QED BY <3>1 DEF SeqsDiffer
  <2>4. Capacity[t] \in Nat \ {0}
    BY CapacityAssumption
  <2> QED BY <2>1, <2>3, <2>4, WalkAgrees
<1> QED BY <1>1, OrderHolds, PTL

-----------------------------------------------------------------------------
(* The head of the queue.  A polling ticket with nobody ahead of it, on a  *)
(* host where nothing runs, is granted all it asked for or the whole host. *)
HeadOfIdleHost(t, swept) ==
    phase[t] = "queued" /\ Ahead(swept, t) = {} /\ \A u \in Ticket : swept[u].state # "running"

IdleHostAdmits ==
    \A t \in Ticket :
      LET swept == Swept(Reclaimed({t}))
          grant == PlanAdmission(Capacity[t], swept, t)
      IN HeadOfIdleHost(t, swept)
           => grant > 0 /\ grant = Effective(entries[t].requested, Capacity[t])

(* No demand blocks an idle host: _effective clamps one above the capacity *)
(* so that it runs alone, "instead of queueing until the wait bound        *)
(* expires", and the head's next poll is granted.                          *)
THEOREM IdleHostAdmitsHolds == Spec => []IdleHostAdmits
<1>1. ASSUME DispatchInvariant, NEW t \in Ticket, NEW s, s = Swept(Reclaimed({t})),
             HeadOfIdleHost(t, s)
      PROVE  /\ PlanAdmission(Capacity[t], s, t) > 0
             /\ PlanAdmission(Capacity[t], s, t) = Effective(entries[t].requested, Capacity[t])
  <2>1. s \in Snapshots
    BY <1>1, SweepTyped DEF DispatchInvariant, Reclaimed
  <2>2. s[t] = entries[t] /\ entries[t].state = "queued" /\ s[t] \in Entry(StaleAfter)
    BY <1>1, <2>1 DEF Swept, Reclaimed, HeadOfIdleHost, DispatchInvariant, PollerKeepsRecord,
       Queued, Snapshots
  <2>3. GrantedUnits(s) = {} /\ ReservedUnits(Capacity[t], s, t) = {}
    BY <1>1 DEF GrantedUnits, ReservedUnits, HeadOfIdleHost, Unit
  <2>4. PICK c \in Nat \ {0} : c = Capacity[t]
    BY CapacityAssumption
  <2>5. LeftFor(c, s, t) = c
    <3>1. Cardinality(GrantedUnits(s)) = 0 /\ Cardinality(ReservedUnits(c, s, t)) = 0
      BY <2>3, <2>4, FS_EmptySet
    <3>2. RemainingCapacity(c, s) = c
      BY <3>1 DEF RemainingCapacity, Max
    <3> QED BY <3>1, <3>2 DEF LeftFor, Max
  <2>6. /\ Effective(s[t].minimum, c) <= c /\ Effective(s[t].requested, c) <= c
        /\ Effective(s[t].requested, c) \in Nat \ {0}
    BY <2>2, MaxDemandAssumption DEF Effective, Min, Max, Entry, Demand
  <2>7. Admissible(c, s, t)
    BY <1>1, <2>2, <2>5, <2>6 DEF Admissible, Fits, HeadOfIdleHost
  <2> QED BY <2>2, <2>4, <2>5, <2>6, <2>7 DEF PlanAdmission, Min
<1>2. DispatchInvariant => IdleHostAdmits
  BY <1>1 DEF IdleHostAdmits
<1> QED BY <1>2, DispatchInvariantHolds, PTL

(* Whoever is ahead of a waiting ticket after a step was before it.        *)
LEMMA PlaceStep ==
  ASSUME DispatchInvariant, DispatchInvariant', QueueOrdered, [Next]_vars,
         NEW t \in Ticket, Queued(t), Queued(t)'
  PROVE  Ahead(entries', t) \subseteq Ahead(entries, t)
<1>0. PICK e, f : e = entries /\ f = entries'
  OBVIOUS
<1>1. /\ e[t].state = "queued" /\ f[t].state = "queued"
      /\ \A u \in Ticket : e[u].seq \in Nat /\ f[u].seq \in Nat
  BY <1>0 DEF DispatchInvariant, TypeOK, Entry, Queued
<1>2. ASSUME NEW u \in Ahead(f, t)
      PROVE  u \in Ticket /\ f[u].state = "queued" /\ f[u].seq < f[t].seq
  BY <1>2 DEF Ahead
<1>3. CASE Quiet
  <2>1. \A u \in Ticket : f[u].state # "absent" =>
          e[u].state = f[u].state /\ e[u].seq = f[u].seq
    BY <1>0, <1>3 DEF Quiet, Fades, Kept, SameDemand
  <2>2. e[t].seq = f[t].seq
    BY <1>1, <2>1
  <2>3. Ahead(f, t) \subseteq Ahead(e, t)
    BY <1>2, <2>1, <2>2 DEF Ahead
  <2> QED BY <1>0, <2>3
<1>4. ASSUME NEW a \in Ticket, Arrives(a) PROVE Ahead(entries', t) \subseteq Ahead(entries, t)
  <2>1. /\ e[a].state = "absent" /\ f[a].seq = next_seq
        /\ \A u \in Ticket \ {a} : f[u].state # "absent" =>
             e[u].state = f[u].state /\ e[u].seq = f[u].seq
    BY <1>0, <1>4 DEF Arrives, Kept, SameDemand
  <2>2. e[t].seq = f[t].seq
    BY <1>1, <2>1
  <2>3. f[t].seq < next_seq /\ next_seq \in Nat
    BY <1>0, <1>1, <2>2 DEF QueueOrdered, DispatchInvariant, TypeOK
  <2>4. a \notin Ahead(f, t)
    BY <1>1, <1>2, <2>1, <2>3
  <2>5. Ahead(f, t) \subseteq Ahead(e, t)
    BY <1>2, <2>1, <2>2, <2>4 DEF Ahead
  <2> QED BY <1>0, <2>5
<1>5. ASSUME NEW a \in Ticket, Admits(a) PROVE Ahead(entries', t) \subseteq Ahead(entries, t)
  <2>1. PICK D \in SUBSET Ticket :
          /\ a \notin D
          /\ Grants(Capacity[a], Swept(D), entries', a, PlanAdmission(Capacity[a], Swept(D), a))
    BY <1>5 DEF Admits
  <2>2. f[a].state = "running" /\ \A u \in Ticket \ {a} : f[u].state # "absent" => f[u] = e[u]
    BY <1>0, <2>1 DEF Grants, Swept, Absent
  <2>3. Ahead(f, t) \subseteq Ahead(e, t)
    BY <1>1, <1>2, <2>2 DEF Ahead
  <2> QED BY <1>0, <2>3
<1> QED BY <1>3, <1>4, <1>5, StepKinds

(* While a ticket waits, nobody comes to stand ahead of it: arrivals,      *)
(* sweeps and failed writes never move it back in the queue, whatever      *)
(* capacities the processes read (enqueue, next_seq).                      *)
PlacesNeverWorsen ==
    [][\A t \in Ticket : (Queued(t) /\ Queued(t)')
         => Ahead(entries', t) \subseteq Ahead(entries, t)]_entries

THEOREM PlacesNeverWorsenHolds == Spec => PlacesNeverWorsen
<1>1. ASSUME DispatchInvariant, DispatchInvariant', QueueOrdered, [Next]_vars
      PROVE  \A t \in Ticket : (Queued(t) /\ Queued(t)')
               => Ahead(entries', t) \subseteq Ahead(entries, t)
  BY <1>1, PlaceStep
<1> QED BY <1>1, OrderHolds, PTL DEF Spec, PlacesNeverWorsen
=============================================================================
