--------------------------- MODULE AsyncJobsProofs ---------------------------
(***************************************************************************)
(* The registry's invariant, for any set of start calls, any capacity, any *)
(* retention time and any number of held requests.  The argument: what a   *)
(* call drops has ended or is done, so running jobs stay registered; the   *)
(* contention and key tests of a start therefore see every job that could  *)
(* clash with the new one.                                                 *)
(***************************************************************************)
EXTENDS AsyncJobs, FiniteSetTheorems, TLAPS

(* The registry is finite.                                                 *)
LEMMA RegistryFinite ==
    ASSUME TypeOK
    PROVE  IsFiniteSet(registered)
<1>1. IsFiniteSet(1..seq)
  BY FS_Interval DEF TypeOK, Id
<1> QED BY <1>1, FS_Subset DEF TypeOK

(* Dropping jobs keeps the bound.                                          *)
LEMMA FewerFit ==
    ASSUME TypeOK, WithinCapacity, NEW S, S \subseteq registered
    PROVE  IsFiniteSet(S) /\ Cardinality(S) <= Capacity /\ Cardinality(S) \in Nat
<1>1. IsFiniteSet(S) /\ Cardinality(S) <= Cardinality(registered)
  BY RegistryFinite, FS_Subset
<1>2. Cardinality(S) \in Nat /\ Cardinality(registered) \in Nat
  BY <1>1, RegistryFinite, FS_CardinalityType
<1> QED BY <1>1, <1>2, CapacityAssumption DEF WithinCapacity

(* A running job survives every sweep: it has not ended.                   *)
LEMMA RunningUnexpired ==
    ASSUME RegistryInvariant, NEW j \in Id, Running(j)
    PROVE  j \in Unexpired
BY DEF RegistryInvariant, LiveWorkRegistered, Running, Unexpired, Terminal

LEMMA InvariantInit == Init => RegistryInvariant
<1> SUFFICES ASSUME Init PROVE RegistryInvariant
  OBVIOUS
<1> USE DEF Init, Id
<1>1. TypeOK
  BY MaxJobsAssumption, TTLAssumption DEF TypeOK, Status, Terminal
<1>2. WithinCapacity
  BY FS_EmptySet, CapacityAssumption DEF WithinCapacity
<1>3. LiveWorkRegistered /\ SingleFlight /\ OneJobPerKey /\ NobodyStranded
  BY DEF LiveWorkRegistered, SingleFlight, OneJobPerKey, NobodyStranded, Running
<1>4. CancelledHonestly
  BY DEF CancelledHonestly
<1> QED BY <1>1, <1>2, <1>3, <1>4, MaxJobsAssumption DEF RegistryInvariant

(* A step that only drops jobs that are not running, and touches at most   *)
(* the ages, keeps the invariant.                                          *)
LEMMA DroppingKeeps ==
    ASSUME RegistryInvariant,
           registered' \subseteq registered,
           \A j \in Id : Running(j) => j \in registered',
           UNCHANGED <<seq, request, status, stale, aborted, ended, waiting>>,
           age' \in [Id -> 0..(TTL + 1)]
    PROVE  RegistryInvariant'
<1> USE DEF RegistryInvariant
<1>1. TypeOK'
  BY DEF TypeOK, Id
<1>2. WithinCapacity'
  BY FewerFit DEF WithinCapacity
<1>3. LiveWorkRegistered' /\ SingleFlight' /\ NobodyStranded' /\ CancelledHonestly'
  BY DEF LiveWorkRegistered, SingleFlight, NobodyStranded, CancelledHonestly, Running, Id
<1>4. OneJobPerKey'
  BY DEF OneJobPerKey
<1> QED BY <1>1, <1>2, <1>3, <1>4 DEF Id, TypeOK

LEMMA StartAnsweredKeeps ==
    ASSUME RegistryInvariant, NEW r \in Request, StartAnswered(r)
    PROVE  RegistryInvariant'
<1>1. \A j \in Id : Running(j) => j \in registered'
  BY RunningUnexpired DEF StartAnswered
<1> QED BY <1>1, DroppingKeeps DEF StartAnswered, jobVars, Unexpired, RegistryInvariant, TypeOK

LEMMA StartRefusedKeeps ==
    ASSUME RegistryInvariant, NEW r \in Request, StartRefused(r)
    PROVE  RegistryInvariant'
<1>1. \A j \in Id : Running(j) => j \in registered'
  BY RunningUnexpired DEF StartRefused, Evictable, Running
<1> QED BY <1>1, DroppingKeeps DEF StartRefused, jobVars, Unexpired, RegistryInvariant, TypeOK

LEMMA PollKeeps ==
    ASSUME RegistryInvariant, Poll
    PROVE  RegistryInvariant'
<1>1. \A j \in Id : Running(j) => j \in registered'
  BY RunningUnexpired DEF Poll
<1> QED BY <1>1, DroppingKeeps DEF Poll, jobVars, Unexpired, RegistryInvariant, TypeOK

LEMMA TickKeeps ==
    ASSUME RegistryInvariant, Tick
    PROVE  RegistryInvariant'
<1>1. age' \in [Id -> 0..(TTL + 1)]
  BY TTLAssumption DEF Tick, RegistryInvariant, TypeOK
<1>2. \A j \in Id : Running(j) => j \in registered'
  BY DEF Tick, RegistryInvariant, LiveWorkRegistered
<1> QED BY <1>1, <1>2, DroppingKeeps DEF Tick

(* The new job is the only one to check: the others were there before.     *)
LEMMA StartCreatesKeeps ==
    ASSUME RegistryInvariant, NEW r \in Request, StartCreates(r)
    PROVE  RegistryInvariant'
<1> DEFINE n == seq + 1
           kept == Unexpired \ Evictable(r)
<1> USE DEF RegistryInvariant
<1>1. /\ n \in Id /\ n \notin 1..seq
      /\ seq' = n /\ registered' = kept \cup {n}
      /\ request' = [request EXCEPT ![n] = r]
      /\ status' = [status EXCEPT ![n] = "running"]
      /\ UNCHANGED <<stale, aborted, ended, age, waiting>>
  BY DEF StartCreates, TypeOK
<1>2. kept \subseteq registered /\ registered \subseteq 1..seq /\ n \notin registered
  BY <1>1 DEF Unexpired, TypeOK
<1>3. \A j \in Id \ {n} : request'[j] = request[j] /\ status'[j] = status[j]
  BY <1>1 DEF TypeOK
<1>4. request'[n] = r /\ status'[n] = "running"
  BY <1>1 DEF TypeOK
<1>5. \A j \in Id \ {n} : Running(j) => j \in kept
  BY RunningUnexpired DEF Evictable, Running
<1> HIDE DEF n
<1>6. TypeOK'
  <2>0. 1..seq \subseteq 1..seq' /\ n \in 1..seq'
    BY <1>1 DEF TypeOK, n
  <2>1. registered' \subseteq 1..seq' /\ aborted' \subseteq 1..seq' /\ ended' \subseteq 1..seq'
    BY <2>0, <1>1, <1>2 DEF TypeOK
  <2>2. request' \in [Id -> Request \cup {NoKey}] /\ status' \in [Id -> Status]
    BY <1>1 DEF TypeOK, Status
  <2>3. \A j \in Id : (j <= seq') = (request'[j] # NoKey)
    BY <1>1, <1>3, <1>4, RequestAssumption, MaxJobsAssumption DEF TypeOK, n, Id
  <2>4. waiting' \in [Waiter -> 0..seq']
    BY <1>1 DEF TypeOK, n
  <2> QED BY <2>1, <2>2, <2>3, <2>4, <1>1, MaxJobsAssumption DEF TypeOK, Id
<1>7. WithinCapacity'
  <2>1. IsFiniteSet(kept) /\ Cardinality(kept) \in Nat
    BY <1>2, FewerFit
  <2>2. ~(Cardinality(kept) >= Capacity)
    BY DEF StartCreates, Full
  <2>3. Cardinality(registered') = Cardinality(kept) + 1
    BY <2>1, <1>1, <1>2, FS_AddElement
  <2> QED BY <2>1, <2>2, <2>3, CapacityAssumption DEF WithinCapacity
<1>8. LiveWorkRegistered'
  BY <1>1, <1>3, <1>5 DEF LiveWorkRegistered, Running
<1>9. SingleFlight'
  <2> SUFFICES ASSUME NEW i \in Id, NEW j \in Id, i # j, Running(i)', Running(j)',
                      request'[i].singleFlight, request'[j].singleFlight,
                      request'[i].scope = request'[j].scope, request'[i].scope # NoKey
               PROVE  FALSE
    BY DEF SingleFlight
  <2>1. CASE i # n /\ j # n
    BY <2>1, <1>3 DEF SingleFlight, Running
  <2>2. CASE i = n
    BY <2>2, <1>3, <1>4, <1>5 DEF StartCreates, Contended, Running
  <2>3. CASE j = n
    BY <2>3, <1>3, <1>4, <1>5 DEF StartCreates, Contended, Running
  <2> QED BY <2>1, <2>2, <2>3
<1>10. OneJobPerKey'
  <2> SUFFICES ASSUME NEW i \in registered', NEW j \in registered', i # j,
                      request'[i].key = request'[j].key, request'[i].key # NoKey
               PROVE  FALSE
    BY DEF OneJobPerKey
  <2>1. \A k \in kept : request[k].key # r.key \/ r.key = NoKey
    BY DEF StartCreates, Existing, Matches
  <2>2. \A k \in kept : request'[k] = request[k]
    BY <1>1, <1>2, <1>3 DEF TypeOK, Id
  <2>3. CASE i # n /\ j # n
    <3>1. i \in kept /\ j \in kept
      BY <2>3, <1>1
    <3>2. request[i].key = request[j].key /\ request[i].key # NoKey
      BY <3>1, <2>2
    <3>3. i \in registered /\ j \in registered
      BY <3>1, <1>2
    <3> HIDE DEF kept
    <3> QED BY <3>2, <3>3 DEF OneJobPerKey
  <2>4. CASE i = n
    BY <2>4, <2>1, <2>2, <1>1, <1>4
  <2>5. CASE j = n
    BY <2>5, <2>1, <2>2, <1>1, <1>4
  <2> QED BY <2>3, <2>4, <2>5
<1>11. NobodyStranded'
  BY <1>1 DEF NobodyStranded
<1>12. CancelledHonestly'
  BY <1>1, <1>3, <1>4 DEF CancelledHonestly
<1>13. \A j \in Id : status'[j] = "unborn" <=> j > seq'
  BY <1>1, <1>3, <1>4 DEF TypeOK, n, Id
<1>14. \A j \in ended' : status'[j] \in Terminal
  BY <1>1, <1>3 DEF TypeOK, Id
<1>15. \A j \in aborted' : request'[j].cancellable
  BY <1>1, <1>3 DEF TypeOK, Id
<1> QED BY <1>6, <1>7, <1>8, <1>9, <1>10, <1>11, <1>12, <1>13, <1>14, <1>15

LEMMA AwaitKeeps ==
    ASSUME RegistryInvariant, NEW w \in Waiter, NEW j \in Id, Await(w, j)
    PROVE  RegistryInvariant'
<1> USE DEF RegistryInvariant
<1>1. /\ registered' \subseteq registered
      /\ UNCHANGED <<seq, request, status, stale, aborted, ended, age>>
      /\ waiting' = waiting \/ (/\ j \in registered /\ status[j] = "running"
                                /\ waiting' = [waiting EXCEPT ![w] = j])
  BY DEF Await, jobVars, Unexpired
<1>2. LiveWorkRegistered'
  BY RunningUnexpired, <1>1 DEF Await, LiveWorkRegistered, Running
<1>3. TypeOK'
  <2>1. CASE waiting' = waiting
    BY <1>1, <2>1 DEF TypeOK
  <2>2. CASE j \in registered /\ waiting' = [waiting EXCEPT ![w] = j]
    <3>1. j \in 0..seq
      BY <2>2 DEF TypeOK
    <3>2. waiting' \in [Waiter -> 0..seq]
      BY <2>2, <3>1 DEF TypeOK
    <3> QED BY <1>1, <3>2 DEF TypeOK
  <2> QED BY <1>1, <2>1, <2>2
<1>4. WithinCapacity'
  BY <1>1, FewerFit DEF WithinCapacity
<1>5. SingleFlight' /\ OneJobPerKey' /\ CancelledHonestly'
  BY <1>1 DEF SingleFlight, OneJobPerKey, CancelledHonestly, Running
<1>6. NobodyStranded'
  BY <1>1 DEF NobodyStranded, Terminal, TypeOK
<1> QED BY <1>1, <1>2, <1>3, <1>4, <1>5, <1>6

LEMMA WaitExpiresKeeps ==
    ASSUME RegistryInvariant, NEW w \in Waiter, WaitExpires(w)
    PROVE  RegistryInvariant'
<1> USE DEF RegistryInvariant, WaitExpires, jobVars
<1>1. TypeOK'
  BY DEF TypeOK
<1>2. LiveWorkRegistered' /\ WithinCapacity' /\ SingleFlight' /\ OneJobPerKey' /\ CancelledHonestly'
  BY DEF LiveWorkRegistered, WithinCapacity, SingleFlight, OneJobPerKey, CancelledHonestly, Running
<1>3. NobodyStranded'
  BY DEF NobodyStranded, TypeOK
<1> QED BY <1>1, <1>2, <1>3

LEMMA CancelKeeps ==
    ASSUME RegistryInvariant, NEW j \in 1..seq, Cancel(j)
    PROVE  RegistryInvariant'
<1> USE DEF RegistryInvariant
<1>1. /\ registered' \subseteq registered
      /\ UNCHANGED <<seq, request, status, stale, ended, age, waiting>>
      /\ aborted' = aborted \/ (/\ request[j].cancellable /\ aborted' = aborted \cup {j})
  BY DEF Cancel, Unexpired
<1>2. LiveWorkRegistered'
  BY RunningUnexpired, <1>1 DEF Cancel, LiveWorkRegistered, Running
<1>3. TypeOK'
  BY <1>1 DEF TypeOK
<1>4. WithinCapacity'
  BY <1>1, FewerFit DEF WithinCapacity
<1>5. SingleFlight' /\ OneJobPerKey' /\ NobodyStranded' /\ CancelledHonestly'
  BY <1>1 DEF SingleFlight, OneJobPerKey, NobodyStranded, CancelledHonestly, Running
<1> QED BY <1>1, <1>2, <1>3, <1>4, <1>5

LEMMA SettlesKeeps ==
    ASSUME RegistryInvariant, NEW j \in 1..seq, Settles(j)
    PROVE  RegistryInvariant'
<1> USE DEF RegistryInvariant
<1>1. /\ j \in Id /\ status[j] = "running"
      /\ UNCHANGED <<seq, registered, request, aborted, ended, age, waiting>>
      /\ stale' \in [Id -> BOOLEAN]
  BY MaxJobsAssumption DEF Settles, TypeOK, Id
<1>2. PICK s \in Terminal : status' = [status EXCEPT ![j] = s] /\ (s = "cancelled" => j \in aborted)
  BY DEF Settles, Terminal
<1>3. TypeOK'
  BY <1>1, <1>2 DEF TypeOK, Status
<1>4. \A k \in Id : k # j => status'[k] = status[k]
  BY <1>1, <1>2 DEF TypeOK
<1>5. status'[j] = s
  BY <1>1, <1>2 DEF TypeOK
<1>6. LiveWorkRegistered' /\ SingleFlight'
  BY <1>1, <1>4, <1>5 DEF LiveWorkRegistered, SingleFlight, Running, Terminal
<1>7. WithinCapacity' /\ OneJobPerKey' /\ NobodyStranded'
  BY <1>1 DEF WithinCapacity, OneJobPerKey, NobodyStranded
<1>8. CancelledHonestly'
  BY <1>1, <1>2, <1>4, <1>5 DEF CancelledHonestly
<1>9. \A k \in Id : status'[k] = "unborn" <=> k > seq'
  BY <1>1, <1>4, <1>5 DEF Terminal
<1>10. \A k \in ended' : status'[k] \in Terminal
  <2> SUFFICES ASSUME NEW k \in ended PROVE status'[k] \in Terminal
    BY <1>1
  <2>1. k \in Id /\ k # j
    BY <1>1, MaxJobsAssumption DEF TypeOK, Id, Terminal
  <2> QED BY <2>1, <1>4
<1> QED BY <1>1, <1>3, <1>6, <1>7, <1>8, <1>9, <1>10

LEMMA FinallyKeeps ==
    ASSUME RegistryInvariant, NEW j \in 1..seq, Finally(j)
    PROVE  RegistryInvariant'
<1> USE DEF RegistryInvariant, Finally
<1>1. TypeOK'
  BY DEF TypeOK
<1>2. LiveWorkRegistered' /\ WithinCapacity' /\ SingleFlight' /\ OneJobPerKey' /\ CancelledHonestly'
  BY DEF LiveWorkRegistered, WithinCapacity, SingleFlight, OneJobPerKey, CancelledHonestly, Running
<1>3. NobodyStranded'
  BY DEF NobodyStranded, TypeOK
<1> QED BY <1>1, <1>2, <1>3

LEMMA RestartKeeps ==
    ASSUME RegistryInvariant, Restart
    PROVE  RegistryInvariant'
<1> USE DEF Restart, Id
<1>1. TypeOK'
  BY MaxJobsAssumption, TTLAssumption DEF TypeOK, Status, Terminal
<1>2. WithinCapacity'
  BY FS_EmptySet, CapacityAssumption DEF WithinCapacity
<1>3. LiveWorkRegistered' /\ SingleFlight' /\ OneJobPerKey' /\ NobodyStranded' /\ CancelledHonestly'
  BY DEF LiveWorkRegistered, SingleFlight, OneJobPerKey, NobodyStranded, CancelledHonestly, Running
<1> QED BY <1>1, <1>2, <1>3, MaxJobsAssumption DEF RegistryInvariant

LEMMA StutterKeeps ==
    ASSUME RegistryInvariant, UNCHANGED vars
    PROVE  RegistryInvariant'
<1>1. \A j \in Id : Running(j) => j \in registered'
  BY DEF vars, RegistryInvariant, LiveWorkRegistered
<1> QED BY <1>1, DroppingKeeps DEF vars, RegistryInvariant, TypeOK

(* The registry keeps its invariant in every interleaving of starts,       *)
(* awaits, cancellations, outcomes, expiries and restarts                  *)
(* (lib/async-job-registry.js).                                            *)
THEOREM RegistryInvariantHolds == Spec => []RegistryInvariant
<1>1. Init => RegistryInvariant
  BY InvariantInit
<1>2. RegistryInvariant /\ [Next]_vars => RegistryInvariant'
  <2> SUFFICES ASSUME RegistryInvariant, [Next]_vars PROVE RegistryInvariant'
    OBVIOUS
  <2>1. ASSUME NEW r \in Request, Start(r) PROVE RegistryInvariant'
    BY <2>1, StartAnsweredKeeps, StartRefusedKeeps, StartCreatesKeeps DEF Start
  <2>2. CASE Poll
    BY <2>2, PollKeeps
  <2>3. ASSUME NEW w \in Waiter, NEW j \in Id, Await(w, j) PROVE RegistryInvariant'
    BY <2>3, AwaitKeeps
  <2>4. ASSUME NEW w \in Waiter, WaitExpires(w) PROVE RegistryInvariant'
    BY <2>4, WaitExpiresKeeps
  <2>5. ASSUME NEW j \in 1..seq, Cancel(j) \/ Settles(j) \/ Finally(j) PROVE RegistryInvariant'
    BY <2>5, CancelKeeps, SettlesKeeps, FinallyKeeps
  <2>6. CASE Tick
    BY <2>6, TickKeeps
  <2>7. CASE Restart
    BY <2>7, RestartKeeps
  <2>8. CASE UNCHANGED vars
    BY <2>8, StutterKeeps
  <2> QED BY <2>1, <2>2, <2>3, <2>4, <2>5, <2>6, <2>7, <2>8 DEF Next
<1> QED BY <1>1, <1>2, PTL DEF Spec

(* At most one single-flight job of a scope runs (startAsyncJob).          *)
THEOREM SingleFlightHolds == Spec => []SingleFlight
<1>1. RegistryInvariant => SingleFlight
  BY DEF RegistryInvariant
<1> QED BY <1>1, RegistryInvariantHolds, PTL

(* The registry stays within its bound (startAsyncJob).                    *)
THEOREM CapacityHolds == Spec => []WithinCapacity
<1>1. RegistryInvariant => WithinCapacity
  BY DEF RegistryInvariant
<1> QED BY <1>1, RegistryInvariantHolds, PTL

(* Whoever is held is held by a job that will release it (awaitAsyncJob).  *)
THEOREM NobodyStrandedHolds == Spec => []NobodyStranded
<1>1. RegistryInvariant => NobodyStranded
  BY DEF RegistryInvariant
<1> QED BY <1>1, RegistryInvariantHolds, PTL

(* A job reported as cancelled claimed cancellation and was asked to stop  *)
(* (cancelAsyncJob).                                                       *)
THEOREM CancelledHonestlyHolds == Spec => []CancelledHonestly
<1>1. RegistryInvariant => CancelledHonestly
  BY DEF RegistryInvariant
<1> QED BY <1>1, RegistryInvariantHolds, PTL

(* A result leaves the registry when its retention has passed, when it     *)
(* answers nothing and is run again, or with the server (startAsyncJob,    *)
(* _reapExpiredAsyncJobs).                                                 *)
THEOREM ResultsRetainedHolds == Spec => ResultsRetained
<1> DEFINE Retained == \A j \in registered \ registered' :
                         \/ j \in ended /\ age[j] > TTL
                         \/ status[j] = "done" /\ stale[j]
                         \/ Restart
<1>1. RegistryInvariant /\ [Next]_vars => [Retained]_vars
  <2> SUFFICES ASSUME RegistryInvariant, Next PROVE Retained
    BY DEF vars
  <2>1. \A j \in registered : j \in Id /\ age[j] \in Nat /\ TTL \in Nat
    <3>1. seq \in Nat /\ seq <= MaxJobs /\ registered \subseteq 1..seq
      BY MaxJobsAssumption DEF RegistryInvariant, TypeOK
    <3>2. registered \subseteq Id
      BY <3>1, MaxJobsAssumption DEF Id
    <3> QED BY <3>2, TTLAssumption DEF RegistryInvariant, TypeOK
  <2>2. \A j \in registered \ Unexpired : j \in ended /\ age[j] > TTL
    BY <2>1 DEF Unexpired
  <2>3. ASSUME NEW r \in Request, Start(r) PROVE Retained
    <3>1. \A j \in Evictable(r) : status[j] = "done" /\ stale[j]
      BY DEF Evictable
    <3>2. Unexpired \ Evictable(r) \subseteq registered'
      BY <2>3 DEF Start, StartAnswered, StartRefused, StartCreates
    <3> QED BY <2>2, <3>1, <3>2
  <2>4. CASE \/ Poll
             \/ \E w \in Waiter, j \in Id : Await(w, j)
             \/ \E j \in 1..seq : Cancel(j)
    BY <2>2, <2>4 DEF Poll, Await, Cancel
  <2>5. CASE \/ \E w \in Waiter : WaitExpires(w)
             \/ \E j \in 1..seq : Settles(j) \/ Finally(j)
             \/ Tick
    BY <2>5 DEF WaitExpires, Settles, Finally, Tick
  <2>6. CASE Restart
    BY <2>6
  <2> QED BY <2>3, <2>4, <2>5, <2>6 DEF Next
<1> QED BY <1>1, RegistryInvariantHolds, PTL DEF Spec, ResultsRetained

-----------------------------------------------------------------------------
(* The registry implements logical attempts.                               *)

Attempt == [k \in Key |->
              IF JobOf(k) = {} THEN NoKey
              ELSE LET j == CHOOSE j \in JobOf(k) : TRUE
                   IN [input |-> request[j].input, run |-> j, answered |-> ~Running(j)]]

(* A key has at most one job, which is its attempt.                        *)
AttemptOf(k, j) ==
    /\ j \in JobOf(k) => JobOf(k) = {j} /\ Attempt[k] # NoKey
    /\ j \in JobOf(k) /\ Running(j) =>
         Attempt[k] = [input |-> request[j].input, run |-> j, answered |-> FALSE]
    /\ j \in JobOf(k) /\ ~Running(j) =>
         Attempt[k] = [input |-> request[j].input, run |-> j, answered |-> TRUE]

AttemptsOfKeys ==
    /\ \A k \in Key : JobOf(k) = {} => Attempt[k] = NoKey
    /\ \A k \in Key : \A j \in Id : AttemptOf(k, j)

LEMMA AttemptsState == RegistryInvariant => AttemptsOfKeys
<1> SUFFICES ASSUME RegistryInvariant, NEW k \in Key
             PROVE  /\ JobOf(k) = {} => Attempt[k] = NoKey
                    /\ \A j \in Id : AttemptOf(k, j)
  BY DEF AttemptsOfKeys
<1>1. ASSUME NEW j \in JobOf(k)
      PROVE  /\ JobOf(k) = {j} /\ Attempt[k] # NoKey
             /\ Running(j) => Attempt[k] = [input |-> request[j].input, run |-> j, answered |-> FALSE]
             /\ ~Running(j) => Attempt[k] = [input |-> request[j].input, run |-> j, answered |-> TRUE]
  <2>1. \A i \in JobOf(k) : i = j
    BY <1>1 DEF RegistryInvariant, OneJobPerKey, JobOf, Key
  <2>2. JobOf(k) = {j}
    BY <1>1, <2>1
  <2>3. (CHOOSE i \in JobOf(k) : TRUE) = j
    BY <1>1, <2>1
  <2>4. Attempt[k] = [input |-> request[j].input, run |-> j, answered |-> ~Running(j)]
    BY <2>2, <2>3, Zenon DEF Attempt
  <2>5. j \in 1..MaxJobs /\ request[j] \in Request
    <3>1. j \in registered /\ registered \subseteq 1..seq /\ seq \in 0..MaxJobs
      BY <1>1 DEF JobOf, RegistryInvariant, TypeOK
    <3>2. j \in 1..seq /\ j \in 1..MaxJobs
      BY <3>1, MaxJobsAssumption
    <3>3. request[j] \in Request \cup {NoKey} /\ request[j] # NoKey
      BY <3>2, MaxJobsAssumption DEF RegistryInvariant, TypeOK, Id
    <3> QED BY <3>2, <3>3
  <2>6. Running(j) \in BOOLEAN
    BY DEF Running
  <2>7. Attempt[k] # NoKey
    BY <2>4, <2>5, <2>6, NoKeyAssumption
  <2>8. ASSUME Running(j)
        PROVE  Attempt[k] = [input |-> request[j].input, run |-> j, answered |-> FALSE]
    <3>1. (~Running(j)) = FALSE
      BY <2>8
    <3> QED BY <2>4, <3>1
  <2>9. ASSUME ~Running(j)
        PROVE  Attempt[k] = [input |-> request[j].input, run |-> j, answered |-> TRUE]
    <3>1. (~Running(j)) = TRUE
      BY <2>9
    <3> QED BY <2>4, <3>1
  <2> QED BY <2>2, <2>7, <2>8, <2>9
<1>2. JobOf(k) = {} => Attempt[k] = NoKey
  BY DEF Attempt
<1> QED BY <1>1, <1>2 DEF AttemptOf

LEMMA AttemptsStep ==
    ASSUME RegistryInvariant, RegistryInvariant'
    PROVE  AttemptsOfKeys /\ AttemptsOfKeys'
BY AttemptsState, PTL

(* The abstract steps, of Attempt.                                         *)
Settled == {k \in Key : Attempt[k] # NoKey /\ Attempt[k].answered = TRUE}

LEMMA ForgetMaps ==
    ASSUME NEW K \in SUBSET Settled,
           Attempt' = [k \in Key |-> IF k \in K THEN NoKey ELSE Attempt[k]]
    PROVE  Attempts!Next
<1>1. Attempts!Forget(K)
  BY DEF Attempts!Forget, Attempt
<1>2. K \in SUBSET {k \in Key : Attempts!Answered(k)}
  BY DEF Settled, Attempts!Answered, Attempt
<1> QED BY <1>1, <1>2 DEF Attempts!Next

LEMMA ForgetAndRunMaps ==
    ASSUME NEW K \in SUBSET Settled, NEW r \in Request, r.key \in Key, NEW n \in Id,
           Attempt[r.key] = NoKey \/ r.key \in K,
           Attempt' = [k \in Key |-> IF k = r.key
                                     THEN [input |-> r.input, run |-> n, answered |-> FALSE]
                                     ELSE IF k \in K THEN NoKey ELSE Attempt[k]]
    PROVE  Attempts!Next
<1>1. Attempts!ForgetAndRun(K, r.key, r.input, n)
  BY DEF Attempts!ForgetAndRun, Attempts!Started, Attempt
<1>2. K \in SUBSET {k \in Key : Attempts!Answered(k)}
  BY DEF Settled, Attempts!Answered, Attempt
<1>3. r.input \in {q.input : q \in Request}
  OBVIOUS
<1> QED BY <1>1, <1>2, <1>3 DEF Attempts!Next

LEMMA AnswerMaps ==
    ASSUME NEW k \in Key, Attempt[k] # NoKey, Attempt[k].answered = FALSE,
           Attempt' = [Attempt EXCEPT ![k].answered = TRUE]
    PROVE  Attempts!Next
<1>1. Attempts!Answer(k)
  BY DEF Attempts!Answer, Attempt
<1> QED BY <1>1 DEF Attempts!Next

LEMMA CrashMaps ==
    ASSUME Attempt' = [k \in Key |-> NoKey] PROVE Attempts!Next
<1>1. Attempts!Crash
  BY DEF Attempts!Crash, Attempt
<1> QED BY <1>1 DEF Attempts!Next

LEMMA AttemptDomain ==
    /\ Attempt = [k \in Key |-> Attempt[k]]
    /\ Attempt' = [k \in Key |-> Attempt'[k]]
BY DEF Attempt

(* A job that stays as it was is the attempt it was.                       *)
LEMMA AttemptKept ==
    ASSUME RegistryInvariant, RegistryInvariant', NEW k \in Key, NEW j \in Id,
           j \in JobOf(k), j \in JobOf(k)', request'[j] = request[j], status'[j] = status[j]
    PROVE  Attempt'[k] = Attempt[k]
<1>1. AttemptOf(k, j) /\ AttemptOf(k, j)'
  BY AttemptsStep DEF AttemptsOfKeys
<1>2. CASE Running(j)
  <2>1. Running(j)'
    BY <1>2 DEF Running
  <2> QED BY <1>1, <1>2, <2>1 DEF AttemptOf
<1>3. CASE ~Running(j)
  <2>1. ~Running(j)'
    BY <1>3 DEF Running
  <2> QED BY <1>1, <1>3, <2>1 DEF AttemptOf
<1> QED BY <1>2, <1>3

LEMMA RegisteredExist ==
    ASSUME RegistryInvariant
    PROVE  registered \subseteq 1..seq /\ 1..seq \subseteq Id /\ seq \in Nat
BY MaxJobsAssumption DEF RegistryInvariant, TypeOK, Id

(* A step that may drop jobs, add new ones and leaves the others alone.    *)
Drops ==
    \A j \in 1..seq :
      /\ request'[j] = request[j] /\ status'[j] = status[j]
      /\ j \in registered' => j \in registered

Dropped == {k \in Key : JobOf(k) \ registered' # {}}

(* Dropped jobs were answered, and leave their keys to a new attempt.      *)
LEMMA DroppedKeys ==
    ASSUME RegistryInvariant, RegistryInvariant', Drops
    PROVE  /\ Dropped \subseteq Settled
           /\ \A k \in Key : JobOf(k)' \subseteq 1..seq =>
                Attempt'[k] = IF k \in Dropped THEN NoKey ELSE Attempt[k]
<1>1. AttemptsOfKeys /\ AttemptsOfKeys'
  BY AttemptsStep
<1>2. registered \subseteq 1..seq /\ 1..seq \subseteq Id
  BY RegisteredExist
<1>3. ASSUME NEW k \in Key, NEW j \in JobOf(k) \ registered' PROVE k \in Settled
  <2>1. j \in Id /\ j \in 1..seq
    BY <1>2, <1>3 DEF JobOf
  <2>2. status'[j] # "running"
    BY <1>3, <2>1 DEF RegistryInvariant, LiveWorkRegistered, Running, Id
  <2>3. ~Running(j)
    BY <2>1, <2>2 DEF Drops, Running
  <2>4. AttemptOf(k, j)
    BY <1>1, <2>1 DEF AttemptsOfKeys
  <2> QED BY <1>3, <2>3, <2>4 DEF AttemptOf, Settled
<1>4. ASSUME NEW k \in Key, JobOf(k)' \subseteq 1..seq
      PROVE  Attempt'[k] = IF k \in Dropped THEN NoKey ELSE Attempt[k]
  <2>1. JobOf(k)' \subseteq JobOf(k)
    BY <1>4 DEF JobOf, Drops
  <2>2. CASE k \in Dropped
    <3>1. PICK j \in JobOf(k) : j \notin registered'
      BY <2>2 DEF Dropped
    <3>2. j \in Id
      BY <1>2, <3>1 DEF JobOf
    <3>3. AttemptOf(k, j)
      BY <1>1, <3>2 DEF AttemptsOfKeys
    <3>4. JobOf(k) = {j}
      BY <3>1, <3>3 DEF AttemptOf
    <3>5. JobOf(k)' \subseteq registered'
      BY DEF JobOf
    <3>6. JobOf(k)' = {}
      BY <2>1, <3>1, <3>4, <3>5
    <3> QED BY <1>1, <2>2, <3>6 DEF AttemptsOfKeys
  <2>3. CASE k \notin Dropped /\ JobOf(k) = {}
    <3>1. JobOf(k)' = {}
      BY <2>1, <2>3
    <3> QED BY <1>1, <2>3, <3>1 DEF AttemptsOfKeys
  <2>4. CASE k \notin Dropped /\ JobOf(k) # {}
    <3>1. PICK j : j \in JobOf(k) /\ j \in registered'
      BY <2>4 DEF Dropped
    <3>2. j \in 1..seq /\ j \in Id /\ request[j].key = k
      BY <1>2, <3>1 DEF JobOf
    <3>3. request'[j] = request[j] /\ status'[j] = status[j]
      BY <3>2 DEF Drops
    <3>4. j \in JobOf(k)'
      BY <3>1, <3>2, <3>3 DEF JobOf
    <3>5. Attempt'[k] = Attempt[k]
      BY <3>1, <3>2, <3>3, <3>4, AttemptKept
    <3> QED BY <2>4, <3>5
  <2> QED BY <2>2, <2>3, <2>4
<1> QED BY <1>3, <1>4 DEF Dropped

LEMMA DroppingMaps ==
    ASSUME RegistryInvariant, RegistryInvariant', registered' \subseteq registered,
           UNCHANGED <<request, status>>
    PROVE  Attempts!Next
<1>1. Drops
  BY DEF Drops
<1>2. PICK K : K = Dropped
  OBVIOUS
<1>3. K \in SUBSET Settled
  BY <1>1, <1>2, DroppedKeys
<1>4. ASSUME NEW k \in Key
      PROVE  Attempt'[k] = IF k \in K THEN NoKey ELSE Attempt[k]
  <2>1. JobOf(k)' \subseteq 1..seq
    BY RegisteredExist DEF JobOf
  <2> QED BY <1>1, <1>2, <2>1, DroppedKeys
<1>5. Attempt' = [k \in Key |-> IF k \in K THEN NoKey ELSE Attempt[k]]
  BY <1>4, AttemptDomain
<1> QED BY <1>3, <1>5, ForgetMaps

LEMMA StartCreatesMaps ==
    ASSUME RegistryInvariant, RegistryInvariant', NEW r \in Request, StartCreates(r)
    PROVE  Attempts!Next
<1>1. PICK n : n = seq + 1
  OBVIOUS
<1>2. /\ n \in Id /\ n \notin 1..seq
      /\ registered' = (Unexpired \ Evictable(r)) \cup {n}
      /\ \A j \in 1..seq : request'[j] = request[j] /\ status'[j] = status[j]
      /\ request'[n] = r /\ status'[n] = "running"
      /\ Existing(r) = Evictable(r)
  BY <1>1, RegisteredExist DEF StartCreates, RegistryInvariant, TypeOK
<1>3. Drops
  BY <1>2 DEF Drops, Unexpired
<1>4. PICK K : K = Dropped
  OBVIOUS
<1>5. K \in SUBSET Settled
  BY <1>3, <1>4, DroppedKeys
<1>6. registered' \subseteq 1..seq \cup {n}
  BY <1>2, RegisteredExist DEF Unexpired
<1>7. ASSUME NEW k \in Key, k # r.key
      PROVE  Attempt'[k] = IF k \in K THEN NoKey ELSE Attempt[k]
  <2>1. JobOf(k)' \subseteq 1..seq
    BY <1>2, <1>6, <1>7 DEF JobOf
  <2> QED BY <1>3, <1>4, <2>1, DroppedKeys
<1>8. CASE r.key \notin Key
  <2>1. Attempt' = [k \in Key |-> IF k \in K THEN NoKey ELSE Attempt[k]]
    BY <1>7, <1>8, AttemptDomain
  <2> QED BY <1>5, <2>1, ForgetMaps
<1>9. CASE r.key \in Key
  <2>1. Attempt'[r.key] = [input |-> r.input, run |-> n, answered |-> FALSE]
    <3>1. n \in JobOf(r.key)' /\ Running(n)'
      BY <1>2 DEF JobOf, Running
    <3>2. AttemptOf(r.key, n)'
      BY <1>2, <1>9, AttemptsStep DEF AttemptsOfKeys, Id
    <3>3. Attempt'[r.key] = [input |-> request'[n].input, run |-> n, answered |-> FALSE]
      BY <3>1, <3>2 DEF AttemptOf
    <3> QED BY <1>2, <3>3
  <2>2. Attempt[r.key] = NoKey \/ r.key \in K
    <3>1. CASE JobOf(r.key) = {}
      BY <1>9, <3>1, AttemptsStep DEF AttemptsOfKeys
    <3>2. ASSUME NEW j \in JobOf(r.key) PROVE r.key \in K
      <4>1. j \in registered /\ request[j].key = r.key /\ j # n /\ r.key # NoKey
        BY <1>2, <1>9, <3>2, RegisteredExist DEF JobOf, Key
      <4>2. j \notin registered'
        BY <1>2, <4>1 DEF Existing, Matches
      <4> QED BY <1>4, <1>9, <3>2, <4>2 DEF Dropped
    <3> QED BY <3>1, <3>2
  <2>3. Attempt' = [k \in Key |-> IF k = r.key
                                  THEN [input |-> r.input, run |-> n, answered |-> FALSE]
                                  ELSE IF k \in K THEN NoKey ELSE Attempt[k]]
    BY <1>7, <2>1, AttemptDomain
  <2> QED BY <1>2, <1>5, <1>9, <2>2, <2>3, ForgetAndRunMaps
<1> QED BY <1>8, <1>9

LEMMA SettlesMaps ==
    ASSUME RegistryInvariant, RegistryInvariant', NEW j \in 1..seq, Settles(j)
    PROVE  Attempts!Next \/ Attempt' = Attempt
<1>1. /\ j \in Id /\ Running(j) /\ ~Running(j)' /\ j \in registered
      /\ UNCHANGED <<registered, request>>
      /\ \A i \in Id \ {j} : status'[i] = status[i]
  <2>1. j \in Id /\ status \in [Id -> Status]
    BY RegisteredExist DEF RegistryInvariant, TypeOK
  <2> QED BY <2>1 DEF Settles, Running, RegistryInvariant, LiveWorkRegistered
<1>2. ASSUME NEW k \in Key, j \notin JobOf(k) PROVE Attempt'[k] = Attempt[k]
  <2>1. JobOf(k)' = JobOf(k)
    BY <1>1 DEF JobOf
  <2>2. CASE JobOf(k) = {}
    BY <2>1, <2>2, AttemptsStep DEF AttemptsOfKeys
  <2>3. ASSUME NEW i \in JobOf(k) PROVE Attempt'[k] = Attempt[k]
    <3>1. i \in Id /\ i # j
      BY <1>2, <2>3, RegisteredExist DEF JobOf
    <3> QED BY <1>1, <2>1, <2>3, <3>1, AttemptKept
  <2> QED BY <2>2, <2>3
<1>3. CASE \A k \in Key : j \notin JobOf(k)
  BY <1>2, <1>3, AttemptDomain
<1>4. ASSUME NEW k \in Key, j \in JobOf(k) PROVE Attempts!Next
  <2>1. j \in JobOf(k)'
    BY <1>1, <1>4 DEF JobOf
  <2>2. AttemptOf(k, j) /\ AttemptOf(k, j)'
    BY <1>1, AttemptsStep DEF AttemptsOfKeys
  <2>3. /\ Attempt[k] # NoKey
        /\ Attempt[k] = [input |-> request[j].input, run |-> j, answered |-> FALSE]
        /\ Attempt'[k] = [input |-> request[j].input, run |-> j, answered |-> TRUE]
    BY <1>1, <1>4, <2>1, <2>2 DEF AttemptOf
  <2>4. \A h \in Key \ {k} : Attempt'[h] = Attempt[h]
    BY <1>2, <1>4 DEF JobOf
  <2>5. Attempt' = [Attempt EXCEPT ![k].answered = TRUE]
    BY <2>3, <2>4, AttemptDomain
  <2>6. Attempt[k].answered = FALSE
    BY <2>3
  <2> QED BY <2>3, <2>5, <2>6, AnswerMaps
<1> QED BY <1>3, <1>4

LEMMA RestartMaps ==
    ASSUME RegistryInvariant', RegistryInvariant, Restart PROVE Attempts!Next
<1>1. \A k \in Key : JobOf(k)' = {}
  BY DEF Restart, JobOf
<1>2. \A k \in Key : Attempt'[k] = NoKey
  BY <1>1, AttemptsStep DEF AttemptsOfKeys
<1>3. Attempt' = [k \in Key |-> NoKey]
  BY <1>2, AttemptDomain
<1> QED BY <1>3, CrashMaps

(* The registry implements LogicalAttempts: a key answers for one run at   *)
(* one input at a time, and only an answered attempt is forgotten or run   *)
(* again (startAsyncJob's replay, conflict and retry answers).             *)
THEOREM ImplementsAttemptsHolds == Spec => ImplementsAttempts
<1>1. Init => Attempts!Init
  <2> SUFFICES ASSUME Init PROVE Attempts!Init
    OBVIOUS
  <2>1. RegistryInvariant
    BY InvariantInit
  <2>2. \A k \in Key : JobOf(k) = {}
    BY DEF Init, JobOf
  <2>3. \A k \in Key : Attempt[k] = NoKey
    BY <2>1, <2>2, AttemptsState DEF AttemptsOfKeys
  <2>4. Attempt = [k \in Key |-> NoKey]
    BY <2>3, AttemptDomain
  <2> QED BY <2>4 DEF Attempts!Init, Attempt
<1>2. RegistryInvariant /\ RegistryInvariant' /\ [Next]_vars
        => Attempts!Next \/ Attempt' = Attempt
  <2> SUFFICES ASSUME RegistryInvariant, RegistryInvariant', [Next]_vars
               PROVE  Attempts!Next \/ Attempt' = Attempt
    OBVIOUS
  <2>1. ASSUME NEW r \in Request, Start(r) PROVE Attempts!Next
    <3>1. CASE StartCreates(r)
      BY <3>1, StartCreatesMaps
    <3>2. CASE StartAnswered(r) \/ StartRefused(r)
      BY <3>2, DroppingMaps DEF StartAnswered, StartRefused, Unexpired, jobVars
    <3> QED BY <2>1, <3>1, <3>2 DEF Start
  <2>2. CASE \/ Poll \/ Tick \/ UNCHANGED vars
             \/ \E w \in Waiter, j \in Id : Await(w, j)
             \/ \E w \in Waiter : WaitExpires(w)
             \/ \E j \in 1..seq : Cancel(j) \/ Finally(j)
    <3>1. registered' \subseteq registered /\ UNCHANGED <<request, status>>
      BY <2>2 DEF Poll, Tick, vars, Await, WaitExpires, Cancel, Finally, Unexpired, jobVars
    <3> QED BY <3>1, DroppingMaps
  <2>3. ASSUME NEW j \in 1..seq, Settles(j) PROVE Attempts!Next \/ Attempt' = Attempt
    BY <2>3, SettlesMaps
  <2>4. CASE Restart
    BY <2>4, RestartMaps
  <2> QED BY <2>1, <2>2, <2>3, <2>4 DEF Next
<1>3. Attempts!Next \/ Attempt' = Attempt => [Attempts!Next]_Attempt
  OBVIOUS
<1> QED BY <1>1, <1>2, <1>3, RegistryInvariantHolds, PTL
    DEF Spec, ImplementsAttempts, Attempts!Spec, Attempt
=============================================================================
