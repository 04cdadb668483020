--------------------------- MODULE DispatchLedger ---------------------------
(***************************************************************************)
(* gc-test-dispatch (tools/gc_dispatch): dispatcher processes share one    *)
(* capacity ledger per user and host.  Every read-modify-write of the      *)
(* ledger runs under its advisory lock, so each is one action here; what   *)
(* happens outside the lock (taking the lease, launching and waiting for   *)
(* the command, closing the lease before settling) is separate, and a      *)
(* supervisor can be killed between any two of them.                       *)
(*                                                                         *)
(* A dispatch is named by its ticket.  Its lease file is held by the       *)
(* processes that share the inherited descriptor: the supervisor, the      *)
(* command, and a descendant of the command.                               *)
(***************************************************************************)
EXTENDS AdmissionLoop

CONSTANTS Capacity,    \* [Ticket -> CPUs]: what each dispatcher process reads as host capacity
          HostCapacity,\* no process reads more than this
          Demands,     \* the (requested, minimum) pairs repositories declare
          StaleAfter   \* stale_lease_seconds, in ticks

ASSUME CapacityAssumption ==
    HostCapacity \in Nat \ {0} /\ Capacity \in [Ticket -> 1..HostCapacity]
ASSUME DemandsAssumption ==
    Demands \subseteq {d \in [requested: Demand, minimum: Demand] : d.minimum <= d.requested}
ASSUME StaleAssumption == StaleAfter \in Nat \ {0}

VARIABLES
    entries,     \* the ledger's records, by ticket
    next_seq,    \* the ledger's next sequence number
    leaseFiles,  \* the tickets whose lease file exists
    holders,     \* per ticket, the processes holding its lease open
    phase,       \* per ticket, where its dispatcher process is
    workers      \* per ticket, the grant its process was told, 0 before

ledger == <<entries, next_seq, leaseFiles>>
vars == <<entries, next_seq, leaseFiles, holders, phase, workers>>

Holder == {"supervisor", "command", "descendant"}

(* start: not begun.  leased: lease held, not registered.  queued: polling.*)
(* admitted: granted.  spawned: command launched, signals not forwarded    *)
(* yet.  waiting: in child.wait().  closing: in release().  closed: own    *)
(* descriptor dropped.  exited, killed: the process is gone.               *)
Phase == {"start", "leased", "queued", "admitted", "spawned", "waiting",
          "closing", "closed", "exited", "killed"}
Alive == Phase \ {"start", "exited", "killed"}

(* validate_ledger's rules for one record: a running entry with a missing *)
(* grant would read as free capacity.                                      *)
ValidRecord(e) ==
    /\ e.minimum <= e.requested
    /\ (e.state = "running") = (e.granted > 0)

(* Every ledger the code writes is one that validate_ledger accepts.       *)
TypeOK ==
    /\ \A t \in Ticket : ValidRecord(entries[t])
    /\ entries \in [Ticket -> Entry(StaleAfter)]
    /\ next_seq \in Nat \ {0}
    /\ leaseFiles \subseteq Ticket
    /\ holders \in [Ticket -> SUBSET Holder]
    /\ phase \in [Ticket -> Phase]
    /\ workers \in [Ticket -> 0..MaxDemand]

Init ==
    /\ entries = [t \in Ticket |-> Absent]
    /\ next_seq = 1
    /\ leaseFiles = {}
    /\ holders = [t \in Ticket |-> {}]
    /\ phase = [t \in Ticket |-> "start"]
    /\ workers = [t \in Ticket |-> 0]

-----------------------------------------------------------------------------
(* Sweeping.                                                               *)

LeaseIsUnheld(t) == t \notin leaseFiles \/ holders[t] = {}

SupervisorAlive(t) == entries[t].supervised /\ phase[t] \in Alive

(* Mutant: work without a supervisor is reclaimed at once.                 *)
IsReclaimableUnaged(t) ==
    /\ entries[t].state # "absent"
    /\ LeaseIsUnheld(t) \/ ~SupervisorAlive(t)

(* Mutant: the age bound is asked before the supervisor.                   *)
IsReclaimableByAge(t) ==
    /\ entries[t].state # "absent"
    /\ LeaseIsUnheld(t) \/ entries[t].age >= StaleAfter

IsReclaimable(t) ==
    /\ entries[t].state # "absent"
    /\ \/ LeaseIsUnheld(t)
       \/ /\ ~SupervisorAlive(t)
          /\ entries[t].age >= StaleAfter

(* What _sweep drops; protect is empty or the sweeper's own ticket.        *)
Reclaimed(protect) == {t \in Ticket \ protect : IsReclaimable(t)}

Swept(dropped) == [t \in Ticket |-> IF t \in dropped THEN Absent ELSE entries[t]]

Goto(t, p) == phase' = [phase EXCEPT ![t] = p]

(* A ledger operation of t ends in LedgerError: the ledger could not be    *)
(* read, or the sweep unlinked what it dropped and the replacement then    *)
(* failed, so the dropped records are still on file.                       *)
LedgerFails(protect) ==
    /\ leaseFiles' \in {leaseFiles, leaseFiles \ Reclaimed(protect)}
    /\ UNCHANGED <<entries, next_seq>>

-----------------------------------------------------------------------------
(* One dispatch, in program order.                                         *)

OpenLease(t) ==
    /\ phase[t] = "start"
    /\ Goto(t, "leased")
    /\ leaseFiles' = leaseFiles \cup {t}
    /\ holders' = [holders EXCEPT ![t] = {"supervisor"}]
    /\ UNCHANGED <<entries, next_seq, workers>>

Enqueue(t) ==
    /\ phase[t] = "leased"
    /\ Goto(t, "queued")
    /\ \E d \in Demands :
         entries' = [Swept(Reclaimed({})) EXCEPT ![t] =
                       [state |-> "queued", seq |-> next_seq, requested |-> d.requested,
                        minimum |-> d.minimum, granted |-> 0, supervised |-> TRUE, age |-> 0]]
    /\ next_seq' = next_seq + 1
    /\ leaseFiles' = leaseFiles \ Reclaimed({})
    /\ UNCHANGED <<holders, workers>>

(* The exception closes and unlinks the lease and ends the process.        *)
EnqueueFails(t) ==
    /\ phase[t] = "leased"
    /\ Goto(t, "exited")
    /\ leaseFiles' \in {leaseFiles \ {t}, leaseFiles \ ({t} \cup Reclaimed({}))}
    /\ holders' = [holders EXCEPT ![t] = {}]
    /\ UNCHANGED <<entries, next_seq, workers>>

(* Mutant: the record keeps the minimum, the process is told the grant.    *)
GrantedMinimum(e, n) ==
    [state |-> "running", seq |-> e.seq, requested |-> e.requested, minimum |-> e.minimum,
     granted |-> e.minimum, supervised |-> e.supervised, age |-> 0]

(* What the steps do to a record, spelled out field by field because the   *)
(* provers do not unfold an EXCEPT of several fields.                      *)
Granted(e, n) ==
    [state |-> "running", seq |-> e.seq, requested |-> e.requested, minimum |-> e.minimum,
     granted |-> n, supervised |-> e.supervised, age |-> 0]
Orphaned(e) ==
    [state |-> e.state, seq |-> e.seq, requested |-> e.requested, minimum |-> e.minimum,
     granted |-> e.granted, supervised |-> FALSE, age |-> 0]
Aged(e) == [e EXCEPT !.age = Min(@ + 1, StaleAfter)]

(* One poll: sweep, plan, record the grant if there is one.                *)
TryAdmit(t) ==
    LET dropped == Reclaimed({t})
        swept == Swept(dropped)
        grant == PlanAdmission(Capacity[t], swept, t)
    IN /\ phase[t] = "queued"
       /\ entries[t].state # "absent"
       /\ leaseFiles' = leaseFiles \ dropped
       /\ \/ /\ grant = 0
             /\ entries' = swept
             /\ UNCHANGED <<phase, workers>>
          \/ /\ grant > 0
             /\ entries' = [swept EXCEPT ![t] = Granted(@, grant)]
             /\ Goto(t, "admitted")
             /\ workers' = [workers EXCEPT ![t] = grant]
       /\ UNCHANGED <<next_seq, holders>>

(* LedgerError during a poll: an unusable ledger, or the ticket's own      *)
(* record gone.                                                            *)
TryAdmitFails(t) ==
    /\ phase[t] = "queued"
    /\ LedgerFails({t})
    /\ Goto(t, "closing")
    /\ UNCHANGED <<holders, workers>>

Spawn(t) ==
    /\ phase[t] = "admitted"
    /\ Goto(t, "spawned")
    /\ holders' = [holders EXCEPT ![t] = @ \cup {"command"}]
    /\ UNCHANGED <<ledger, workers>>

ForwardSignals(t) ==
    /\ phase[t] = "spawned"
    /\ Goto(t, "waiting")
    /\ UNCHANGED <<ledger, holders, workers>>

(* The finally block is entered early: the queue bound expired, the        *)
(* command could not be started, or an interrupt arrived before signals    *)
(* were forwarded to the command.                                          *)
GiveUp(t) ==
    /\ phase[t] \in {"queued", "admitted", "spawned"}
    /\ Goto(t, "closing")
    /\ UNCHANGED <<ledger, holders, workers>>

WaitReturns(t) ==
    /\ phase[t] = "waiting"
    /\ "command" \notin holders[t]
    /\ Goto(t, "closing")
    /\ UNCHANGED <<ledger, holders, workers>>

CloseLease(t) ==
    /\ phase[t] = "closing"
    /\ Goto(t, "closed")
    /\ holders' = [holders EXCEPT ![t] = @ \ {"supervisor"}]
    /\ UNCHANGED <<ledger, workers>>

(* Mutant: the entry is removed once the direct child is gone.             *)
SettleUntested(t) ==
    /\ phase[t] = "closed"
    /\ Goto(t, "exited")
    /\ entries' = [entries EXCEPT ![t] = Absent]
    /\ leaseFiles' = leaseFiles \ {t}
    /\ UNCHANGED <<next_seq, holders, workers>>

Settle(t) ==
    /\ phase[t] = "closed"
    /\ Goto(t, "exited")
    /\ \/ /\ entries[t].state = "absent"
          /\ UNCHANGED <<entries, leaseFiles>>
       \/ /\ entries[t].state # "absent"
          /\ LeaseIsUnheld(t)
          /\ entries' = [entries EXCEPT ![t] = Absent]
          /\ leaseFiles' = leaseFiles \ {t}
       \/ /\ entries[t].state # "absent"
          /\ ~LeaseIsUnheld(t)
          /\ entries' = [entries EXCEPT ![t] = Orphaned(@)]
          /\ UNCHANGED leaseFiles
    /\ UNCHANGED <<next_seq, holders, workers>>

(* release swallows the error: the record stays, and its lease file may    *)
(* already be unlinked.                                                    *)
SettleFails(t) ==
    /\ phase[t] = "closed"
    /\ Goto(t, "exited")
    /\ leaseFiles' \in {leaseFiles} \cup
         (IF entries[t].state # "absent" /\ LeaseIsUnheld(t) THEN {leaseFiles \ {t}} ELSE {})
    /\ UNCHANGED <<entries, next_seq, holders, workers>>

-----------------------------------------------------------------------------
(* The environment: kills, the commands themselves, other readers, time.   *)

Kill(t) ==
    /\ phase[t] \in Alive
    /\ Goto(t, "killed")
    /\ holders' = [holders EXCEPT ![t] = @ \ {"supervisor"}]
    /\ UNCHANGED <<ledger, workers>>

CommandForks(t) ==
    /\ "command" \in holders[t]
    /\ holders' = [holders EXCEPT ![t] = @ \cup {"descendant"}]
    /\ UNCHANGED <<ledger, phase, workers>>

CommandExits(t) ==
    /\ "command" \in holders[t]
    /\ holders' = [holders EXCEPT ![t] = @ \ {"command"}]
    /\ UNCHANGED <<ledger, phase, workers>>

DescendantExits(t) ==
    /\ "descendant" \in holders[t]
    /\ holders' = [holders EXCEPT ![t] = @ \ {"descendant"}]
    /\ UNCHANGED <<ledger, phase, workers>>

Snapshot ==
    /\ Reclaimed({}) # {}
    /\ entries' = Swept(Reclaimed({}))
    /\ leaseFiles' = leaseFiles \ Reclaimed({})
    /\ UNCHANGED <<next_seq, holders, phase, workers>>

Tick ==
    /\ entries' = [t \in Ticket |->
                     IF entries[t].state = "absent" THEN entries[t]
                     ELSE Aged(entries[t])]
    /\ UNCHANGED <<next_seq, leaseFiles, holders, phase, workers>>

Supervise(t) ==
    \/ OpenLease(t) \/ Enqueue(t) \/ EnqueueFails(t)
    \/ TryAdmit(t) \/ TryAdmitFails(t) \/ GiveUp(t)
    \/ Spawn(t) \/ ForwardSignals(t) \/ WaitReturns(t)
    \/ CloseLease(t) \/ Settle(t) \/ SettleFails(t)

Work(t) == CommandForks(t) \/ CommandExits(t) \/ DescendantExits(t)

Next ==
    \/ \E t \in Ticket : Supervise(t) \/ Work(t) \/ Kill(t)
    \/ Snapshot
    \/ Tick

Spec == Init /\ [][Next]_vars

(* Supervisors keep running and polling, commands end, and time passes.    *)
(* Nothing forces a descendant to exit, a timeout to fire or a fault.      *)
Fairness ==
    /\ \A t \in Ticket :
         /\ WF_vars(TryAdmit(t))
         /\ WF_vars(Spawn(t))
         /\ WF_vars(ForwardSignals(t))
         /\ WF_vars(WaitReturns(t))
         /\ WF_vars(CloseLease(t))
         /\ WF_vars(Settle(t) \/ SettleFails(t))
         /\ WF_vars(CommandExits(t))
    /\ WF_vars(Tick)

FairSpec == Spec /\ Fairness

-----------------------------------------------------------------------------
(* What the dispatcher promises.                                           *)

Queued(t) == entries[t].state = "queued"
Running(t) == entries[t].state = "running"
Working(t) == holders[t] \cap {"command", "descendant"} # {}

Attended(t) ==
    /\ phase[t] \in Alive
    /\ phase[t] \in {"admitted", "spawned", "waiting"} \/ Working(t)

(* The running grants on the ledger never add up to more than the host     *)
(* has, whatever interleaving of polls, sweeps, kills and failed writes    *)
(* produced them (plan_admission, _remaining_capacity).                    *)
GrantsWithinCapacity == Cardinality(GrantedUnits(entries)) <= HostCapacity

(* The CPUs handed to commands whose dispatcher process is still there     *)
(* never exceed the host's: the grant a process was told stays accounted   *)
(* until its release, so no sweep issues it a second time (_sweep,         *)
(* release, _settle_entry).                                                *)
AttendedUnits == {c \in Unit : Attended(c[1]) /\ c[2] <= workers[c[1]]}
AttendedWorkWithinCapacity == Cardinality(AttendedUnits) <= HostCapacity

(* A polling process always finds its own record, so the LedgerError       *)
(* "no longer registered" of try_admit needs a damaged ledger file.        *)
PollerKeepsRecord == \A t \in Ticket : phase[t] = "queued" => Queued(t)

(* Why those three hold, in terms the steps preserve.  The supervisor's    *)
(* own descriptor is open until it closes it; nothing works before it is   *)
(* spawned; a dispatch has its lease before its record; a polled or        *)
(* attended record names its supervisor and is backed by a held lease      *)
(* file, so no sweep takes it; and an attended record is running with the  *)
(* grant its process was told.                                             *)
SupervisorHolds ==
    \A t \in Ticket :
      phase[t] \in {"leased", "queued", "admitted", "spawned", "waiting", "closing"}
        => "supervisor" \in holders[t]

NothingWorksEarly ==
    \A t \in Ticket : phase[t] \in {"start", "leased", "queued", "admitted"} => ~Working(t)

NotYetRegistered ==
    \A t \in Ticket :
      /\ phase[t] \in {"start", "leased"} => entries[t].state = "absent"
      /\ phase[t] = "leased" => t \in leaseFiles

RecordBacked ==
    \A t \in Ticket :
      phase[t] = "queued" \/ Attended(t)
        => t \in leaseFiles /\ holders[t] # {} /\ entries[t].supervised

GrantKept ==
    \A t \in Ticket :
      Attended(t) => Running(t) /\ entries[t].granted = workers[t]

DispatchInvariant ==
    /\ TypeOK
    /\ SupervisorHolds
    /\ NothingWorksEarly
    /\ NotYetRegistered
    /\ RecordBacked
    /\ PollerKeepsRecord
    /\ GrantKept
    /\ GrantsWithinCapacity

(* A poll grants what the code's walk over the swept queue grants: the     *)
(* closed form the steps use subtracts what earlier entries are granted,   *)
(* clamps an overcommitted host and stops at a blocked head as the loop    *)
(* does (plan_admission).                                                  *)
ClosedFormAgrees ==
    \A t \in Ticket : Queued(t) =>
      LET swept == Swept(Reclaimed({t}))
      IN PlanAdmission(Capacity[t], swept, t) = PlanLoop(Capacity[t], swept, t)

(* Capacity is taken from running work only when no supervisor watches it  *)
(* and a whole stale bound has passed since it started or was orphaned     *)
(* (_is_reclaimable: the order of its questions).                          *)
EvictedOnlyWhenAbandoned ==
    [][\A t \in Ticket :
         (Running(t) /\ entries'[t].state = "absent" /\ Working(t))
           => phase[t] \notin Alive /\ entries[t].age = StaleAfter]_entries

(* While a ticket waits, what it would be granted if it polled now never   *)
(* shrinks: arrivals queue behind it and backfilled work takes only what   *)
(* it leaves (plan_admission).                                             *)
PlansNeverShrink ==
    [][\A t \in Ticket :
         (Queued(t) /\ Queued(t)')
           => PlanAdmission(Capacity[t], entries', t)
                >= PlanAdmission(Capacity[t], entries, t)]_entries

(* Nobody is admitted past a waiting ticket that does not fit: whoever is  *)
(* ahead of a newly admitted ticket has a grant waiting for it             *)
(* (plan_admission: "The walk stops at the first entry that does not fit").*)
NoOvertaking ==
    [][\A t, u \in Ticket :
         (/\ Queued(t) /\ Running(t)'
          /\ Queued(u) /\ entries[u].seq < entries[t].seq /\ Queued(u)')
           => PlanAdmission(Capacity[u], entries', u) > 0]_entries

(* Every queued dispatch is admitted, gives up or is killed: no demand,    *)
(* dead supervisor or forgotten descendant blocks the queue for good, even *)
(* if the queue bound never fires (_effective, _sweep).                    *)
QueueDrains == \A t \in Ticket : phase[t] = "queued" ~> phase[t] # "queued"

(* The capacity pool the ledger implements: grants by ticket, and whether  *)
(* work is running, with or without a supervisor.                          *)
Pool == INSTANCE CapacityPool WITH
    Holder <- Ticket,
    Budget <- HostCapacity,
    grant <- [t \in Ticket |-> IF Running(t) THEN entries[t].granted ELSE 0],
    work <- [t \in Ticket |-> IF ~Working(t) THEN "none"
                              ELSE IF phase[t] \in Alive THEN "attended" ELSE "orphaned"]
ImplementsPool == Pool!Spec
=============================================================================
